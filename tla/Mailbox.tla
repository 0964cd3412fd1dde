------------------------------ MODULE Mailbox ------------------------------
(***************************************************************************)
(* What the outbox promises for the email intents it is given (AD-15): an  *)
(* intent is owed until it is settled, it is settled as sent only once it  *)
(* has reached its addressee or is moot, it is given up only after the     *)
(* whole retry window, and what is settled stays settled.                  *)
(***************************************************************************)
EXTENDS Naturals

CONSTANTS Intent,       \* rows of notification_outbox
          Reminder,     \* those of kind return_reminder
          MaxAttempts   \* the retry window, in attempts

VARIABLES fate,      \* fate[i]: "owed", "sent" or "failed"
          reached,   \* intents whose mail has left at least once
          moot,      \* reminders found stale
          tries      \* tries[i]: failed attempts

vars == <<fate, reached, moot, tries>>

Init == /\ fate \in [Intent -> {"owed", "sent"}]
        /\ reached = {i \in Intent : fate[i] = "sent"}
        /\ moot = {}
        /\ tries = [i \in Intent |-> 0]

Deliver(i) == /\ fate[i] = "owed"
              /\ reached' = reached \cup {i}
              /\ UNCHANGED <<fate, moot, tries>>

Settle(i) == /\ fate[i] = "owed"
             /\ moot' \in {moot, moot \cup ({i} \cap Reminder)}
             /\ i \in reached \cup moot'
             /\ fate' = [fate EXCEPT ![i] = "sent"]
             /\ UNCHANGED <<reached, tries>>

GiveUp(i) == /\ fate[i] = "owed"
             /\ tries' = [tries EXCEPT ![i] = @ + 1]
             /\ fate' = [fate EXCEPT ![i] =
                           IF tries'[i] >= MaxAttempts THEN "failed" ELSE @]
             /\ UNCHANGED <<reached, moot>>

Next == \E i \in Intent : Deliver(i) \/ Settle(i) \/ GiveUp(i)

Spec == Init /\ [][Next]_vars /\ \A i \in Intent : WF_vars(Settle(i) \/ GiveUp(i))
=============================================================================
