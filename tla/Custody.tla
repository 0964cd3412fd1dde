------------------------------ MODULE Custody ------------------------------
(***************************************************************************)
(* What the ticket engine promises, without flows, statuses or handlers:   *)
(* in whose court each ticket is, how many rounds it has gone through, and *)
(* whether it has its name (the minted code).  A desk only ever works on a *)
(* named ticket; a return from beyond DCC1's own desk, or of a closed      *)
(* ticket, opens exactly one new round and nothing else does; a withdrawal *)
(* is final; and a closed ticket comes back through its applicant only.    *)
(***************************************************************************)
EXTENDS Naturals

CONSTANT Ticket

VARIABLES court,  \* court[t]: where ticket t is
          round,  \* round[t]: heavy returns of t so far
          named   \* named[t]: t has its code

vars == <<court, round, named>>

Desk == {"DCC1", "DCC2", "DCC3"}
Court == {"none", "pool", "applicant", "closed", "withdrawn"} \cup Desk

Init == /\ court = [t \in Ticket |-> "none"]
        /\ round = [t \in Ticket |-> 0]
        /\ named = [t \in Ticket |-> FALSE]

Move(t, from, to) == /\ court[t] \in from
                     /\ court' = [court EXCEPT ![t] = to]

Keep(var) == var' = var

File(t) == Move(t, {"none"}, "pool") /\ Keep(round) /\ Keep(named)

\* DCC1 takes a ticket in, which names it if it has no name yet.
TakeIn(t) == /\ Move(t, {"pool"}, "DCC1")
             /\ named' = [named EXCEPT ![t] = TRUE]
             /\ Keep(round)

\* The intake is undone: the ticket is back in the Pool, and keeps its name.
PutBack(t) == Move(t, {"DCC1"}, "pool") /\ Keep(round) /\ Keep(named)

\* DCC1 and one of the other desks exchange a ticket; DCC2 and DCC3 never do.
HandOver(t) == /\ \E desk \in {"DCC2", "DCC3"} :
                     \/ Move(t, {"DCC1"}, desk)
                     \/ Move(t, {desk}, "DCC1")
               /\ Keep(round) /\ Keep(named)

\* A return to the applicant: light from the Pool or from DCC1's desk, heavy
\* from any desk and from a closed ticket.
LightReturn(t) ==
  Move(t, {"pool", "DCC1"}, "applicant") /\ Keep(round) /\ Keep(named)
HeavyReturn(t) == /\ Move(t, Desk \cup {"closed"}, "applicant")
                  /\ round' = [round EXCEPT ![t] = @ + 1]
                  /\ Keep(named)

Resubmit(t) == Move(t, {"applicant"}, "pool") /\ Keep(round) /\ Keep(named)

Close(t) == /\ named[t]
            /\ Move(t, Desk, "closed")
            /\ Keep(round) /\ Keep(named)

Withdraw(t) == Move(t, {"pool"}, "withdrawn") /\ Keep(round) /\ Keep(named)

Next == \E t \in Ticket : \/ File(t)
                          \/ TakeIn(t) \/ PutBack(t) \/ HandOver(t)
                          \/ LightReturn(t) \/ HeavyReturn(t) \/ Resubmit(t)
                          \/ Close(t) \/ Withdraw(t)

Spec == Init /\ [][Next]_vars
=============================================================================
