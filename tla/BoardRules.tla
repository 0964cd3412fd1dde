----------------------------- MODULE BoardRules -----------------------------
(***************************************************************************)
(* What a board, a detail page and the dispatch map derive from the row of *)
(* a ticket, and whether the endpoint a button is routed to would take it. *)
(***************************************************************************)
EXTENDS TicketMachine, Naturals, Sequences

Desk == {"DCC1", "DCC2", "DCC3"}

\* AD-16: the flows and the stations of a role.
RoleFlows(role) == CASE role \in {"DCC1", "Admin"} -> Flow
                     [] role = "DCC2" -> {"Contract"}
                     [] role = "DCC3" -> {"Payment"}
                     [] OTHER -> {}

StationsForRole(role) ==
  CASE role \in {"DCC1", "Admin"} ->
         {"Submitted", "SubmittedToVpAndy", "SubmittedToAccounting",
          "ReceivedFromAcc", "SubmittedToBop"}
    [] role = "DCC2" -> {"SubmittedToDcc2", "ReceivedByDcc2", "SubmittedToAccounting",
                         "SubmittedToDcc2Hardcopy", "Hardcopy"}
    [] role = "DCC3" -> {"SubmittedToDcc3", "ReceivedByDcc3"}
    [] OTHER -> {}

\* Fault: a flagged ticket stays in its column as well.
InLaneWhenFlagged(row, status) == row.status = status

InLane(row, status) == row.status = status /\ ~row.flag

\* At the Pool: take the ticket in, or return it; elsewhere the legal actions.
ActionsFor(status, role, flow) ==
  IF status = "Submitted"
    THEN {"__confirm"} \cup (LegalActions(status, role, flow) \cap {"sendBack"})
    ELSE LegalActions(status, role, flow)

ReconcileActions(flow) ==
  {IF flow = "Payment" THEN "__resend-dcc3" ELSE "__resend", "__return"}

-----------------------------------------------------------------------------
\* The detail page: a return from a handover is offered to the lane's tickets
\* only, a reopen not at all, and nothing in the Pool or with the applicant.
CurateDetailActions(actions, row) ==
  IF row.flag \/ row.status \notin HandoverStates THEN actions ELSE actions \ {"sendBack"}

DetailActions(row, role) ==
  IF row.status \in {"Submitted", "Returned", "ReturnFixing"} \/ row.flow \notin RoleFlows(role)
    THEN {}
    ELSE CurateDetailActions(LegalActions(row.status, role, row.flow), row) \ {"reopen"}

-----------------------------------------------------------------------------
\* Whether the endpoint a click on `event' is routed to would carry it out.
Legal(row, event, role) == \E e \in FindEdge(row.status, event, row.flow) : e.owner = role

Takes(row, event, role) ==
  CASE event = "__confirm" -> role = "DCC1" /\ Legal(row, "submitToAndy", role)
    [] event = "__resend" -> row.flag /\ row.status \in HandoverStates \ {"SubmittedToDcc3"}
    [] event = "__resend-dcc3" -> row.flag /\ row.status = "SubmittedToDcc3"
    [] event = "__return" -> row.flag /\ Legal(row, "sendBack", "DCC1")
    [] event \in FlagGuarded -> ~row.flag /\ Legal(row, event, role)
    [] OTHER -> event \in GenericEvents /\ Legal(row, event, role)

-----------------------------------------------------------------------------
(***************************************************************************)
(* The dispatch map and the route of a ticket.                             *)
(***************************************************************************)
BaseRoute(flow) ==
  CASE flow = "General" -> <<"Submitted", "SubmittedToVpAndy", "Completed">>
    [] flow = "Contract" ->
         <<"Submitted", "SubmittedToVpAndy", "SubmittedToDcc2", "ReceivedByDcc2",
           "SubmittedToAccounting", "ReceivedFromAcc", "SubmittedToBop",
           "SubmittedToDcc2Hardcopy", "Hardcopy", "Completed">>
    [] flow = "Payment" -> <<"Submitted", "SubmittedToVpAndy", "SubmittedToDcc3",
                             "ReceivedByDcc3", "Completed">>

WithBop == <<"Submitted", "SubmittedToVpAndy", "SubmittedToBop", "Completed">>

\* Fault: Payment's own end station is not folded into the common one.
OwnStation(flow, status) == status

DisplayStation(flow, status) ==
  IF flow = "Payment" /\ status = "SentToAccounting" THEN "Completed" ELSE status

FlowStations(flow) == IF flow = "General" THEN WithBop ELSE BaseRoute(flow)

ProjectedRoute(flow, current) ==
  LET route == IF flow = "General" /\ current = "SubmittedToBop"
                 THEN WithBop ELSE BaseRoute(flow)
      now   == {i \in DOMAIN route : route[i] = DisplayStation(flow, current)}
  IN  [i \in DOMAIN route |->
        [status |-> route[i],
         phase  |-> IF i \in now THEN "now"
                    ELSE IF \E j \in now : i < j THEN "past" ELSE "next"]]
=============================================================================
