----------------------------- MODULE MCTickets -----------------------------
(***************************************************************************)
(* Instances of Tickets for TLC.                                           *)
(***************************************************************************)
EXTENDS TicketsCustody, Boards, TLC

UserSymmetry == Permutations(Dcc1)
TicketSymmetry == Permutations(Ticket)

\* Bound of the run with two tickets, whose subject is the codes: no state beyond one
\* with a soft lock (one DCC1 user excludes nobody), a reconcile flag or the notice
\* of an auto-return is explored.
CodesAlone ==
  /\ \A t \in Ticket : lock[t] = NoOne /\ ~ticket[t].flag
  /\ \A r \in requests : r.kind \in {"confirm", "edit", "undo"}
=============================================================================
