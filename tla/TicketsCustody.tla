--------------------------- MODULE TicketsCustody ---------------------------
(***************************************************************************)
(* The ticket back end implements Custody.                                 *)
(***************************************************************************)
EXTENDS Tickets

CourtOf(status) ==
  CASE status = "Absent" -> "none"
    [] status = "Submitted" -> "pool"
    [] status \in {"Completed", "SentToAccounting"} -> "closed"
    [] status = "Cancelled" -> "withdrawn"
    [] StateOwner(status) = "Applicant" -> "applicant"
    [] OTHER -> StateOwner(status)

\* What Custody sees of the ticket table.
court == [t \in Ticket |-> CourtOf(ticket[t].status)]
round == [t \in Ticket |-> ticket[t].round]
named == [t \in Ticket |-> Minted(ticket[t])]

Promise == INSTANCE Custody WITH court <- court, round <- round, named <- named

\* Whatever the back end does to a ticket is a custody move of the promise or
\* leaves its court, round and name alone.
KeepsCustody == Promise!Spec
=============================================================================
