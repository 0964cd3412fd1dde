------------------------------- MODULE Boards -------------------------------
(***************************************************************************)
(* The boards over the tickets: the columns of a role, DCC1's reconcile    *)
(* lane and the stations of the dispatch map.  All of it is derived when   *)
(* it is read; nothing here has state.                                     *)
(***************************************************************************)
EXTENDS Tickets, BoardRules

ListActive(role) == {t \in Ticket : /\ ticket[t].flow \in RoleFlows(role)
                                    /\ ticket[t].status \notin Terminal \cup {"Absent"}}

\* Fault: the lane lists the tickets that wait at a handover only.
ReconcileLaneAtHandover(role) ==
  {t \in ListActive(role) : role \in {"DCC1", "Admin"} /\ ticket[t].flag
                            /\ ticket[t].status \in HandoverStates}

ReconcileLane(role) ==
  {t \in ListActive(role) : role \in {"DCC1", "Admin"} /\ ticket[t].flag}

ColumnCards(role) ==
  UNION {{[ticket |-> t, actions |-> ActionsFor(s, role, ticket[t].flow)] :
            t \in {o \in ListActive(role) : InLane(ticket[o], s)}} : s \in StationsForRole(role)}

LaneCards(role) ==
  {[ticket |-> t, actions |-> ReconcileActions(ticket[t].flow)] : t \in ReconcileLane(role)}

Board(role) == ColumnCards(role) \cup LaneCards(role)

\* The tickets behind one station of a flow's line.
StationTickets(flow, station) ==
  {t \in Ticket : ticket[t].flow = flow /\ DisplayStation(flow, ticket[t].status) = station}

\* The inbox of the Pool, with the locks of others, and the workbox of DCC1.
PoolCards(viewer) ==
  {[ticket |-> t, lockedBy |-> IF lock[t] = viewer THEN NoOne ELSE lock[t]] :
     t \in {o \in Ticket : ticket[o].status = "Submitted"}}

WorkboxCards ==
  {[ticket |-> t, actions |-> LegalActions(ticket[t].status, "DCC1", ticket[t].flow)] :
     t \in {o \in Ticket : ticket[o].status \in {"SubmittedToVpAndy", "SubmittedToBop"}}}

-----------------------------------------------------------------------------
\* No button is a dead end: what a column offers, or the workbox or the detail page
\* of a ticket that is not flagged, its endpoint carries out, however the ticket came
\* there; and a card of the Pool that nobody else holds can be taken in.
OffersAreTaken ==
  /\ \A role \in Desk :
       /\ \A card \in ColumnCards(role) :
            \A event \in card.actions : Takes(ticket[card.ticket], event, role)
       /\ \A t \in ListActive(role) : ~ticket[t].flag =>
            \A event \in DetailActions(ticket[t], role) : Takes(ticket[t], event, role)
  /\ \A u \in Dcc1 : \A card \in PoolCards(u) : card.lockedBy = NoOne =>
       LockableBy(card.ticket, u) /\ Takes(ticket[card.ticket], "__confirm", "DCC1")
  /\ \A card \in WorkboxCards : ~ticket[card.ticket].flag =>
       \A event \in card.actions : Takes(ticket[card.ticket], event, "DCC1")

WithApplicant == {"Returned", "ReturnFixing"}

\* No ticket falls between the desks: one that is neither closed nor with its
\* applicant is on some desk's board, with an action there that is carried out.
WorkIsOnABoard ==
  \A t \in Ticket :
    ticket[t].status \notin Terminal \cup WithApplicant \cup {"Absent"} =>
      \E role \in Desk : \E card \in Board(role) :
        card.ticket = t /\ \E event \in card.actions : Takes(ticket[t], event, role)

\* The map shows every ticket that is under way or done at one station of its
\* own line, and its route points there: no path leads off the line.
OnTheMap ==
  \A t \in Ticket :
    LET row == ticket[t]
        at(station) == \E i \in DOMAIN FlowStations(row.flow) :
                          FlowStations(row.flow)[i] = station /\ t \in StationTickets(row.flow, station)
        route == ProjectedRoute(row.flow, row.status)
    IN  row.status \notin WithApplicant \cup {"Absent", "Cancelled"} =>
          /\ \E station \in Status : at(station) /\ \A s \in Status : at(s) => s = station
          /\ Cardinality({i \in DOMAIN route : route[i].phase = "now"}) = 1

\* The boards show the work there is, where it is, and only what can be done to it.
BoardsHold == OffersAreTaken /\ WorkIsOnABoard /\ OnTheMap
=============================================================================
