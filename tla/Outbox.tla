------------------------------ MODULE Outbox -------------------------------
(***************************************************************************)
(* The dispatcher of notification_outbox: every 15 seconds the one API     *)
(* process reads a batch, sends each mail outside any transaction, and     *)
(* marks its row afterwards; it may die between any two of these steps.    *)
(* The passing of a backoff is a step of its own.                          *)
(***************************************************************************)
EXTENDS Naturals, FiniteSets

CONSTANTS Intent,       \* rows of notification_outbox
          Reminder,     \* those of kind return_reminder
          MaxAttempts,  \* MAX_ATTEMPTS
          MaxMishaps    \* bound: crashes, and mails sent but not marked

ASSUME OutboxAssumption ==
  Reminder \subseteq Intent /\ MaxAttempts \in Nat \ {0} /\ MaxMishaps \in Nat

VARIABLES rows,      \* rows[i]: status, attempts, and whether its backoff is over
          batch,     \* what the running dispatch has read and not yet handled
          sent,      \* the intent whose mail has left and whose row is unmarked
          mails,     \* mails[i]: copies that reached the addressee
          current,   \* reminders whose ticket is at Return-fixing in that round
          known,     \* intents whose recipient's email is in the directory
          mishaps

outboxVars == <<rows, batch, sent, mails, current, known, mishaps>>

OutboxStatus == {"pending", "sent", "skipped", "failed"}

Queued == [status |-> "pending", attempts |-> 0, due |-> TRUE]

\* Some rows are queued, some were sent before.
OutboxInit == /\ rows \in [Intent -> {Queued, [Queued EXCEPT !.status = "sent"]}]
              /\ batch = {}
              /\ sent = {}
              /\ mails = [i \in Intent |-> IF rows[i] = Queued THEN 0 ELSE 1]
              /\ current \in SUBSET Reminder
              /\ known \in SUBSET Intent
              /\ mishaps = 0

IntentDue(i) == rows[i].status = "pending" /\ rows[i].due

\* Fault: the kind of the row is not looked at.
ReadOfAnyKind(i) == [intent |-> i, stale |-> i \notin current, email |-> i \in known]

\* What the query returns of a row: isStaleReminder and the email are of that time.
ReadOf(i) == [intent |-> i, stale |-> i \in Reminder \ current, email |-> i \in known]

\* Fault: a slow run is overlapped by the next.
DispatchAgain ==
  /\ \E i \in Intent : IntentDue(i)
  /\ batch' = batch \cup {ReadOf(i) : i \in {j \in Intent : IntentDue(j)}}
  /\ UNCHANGED <<rows, sent, mails, current, known, mishaps>>

\* The in-flight guard: a tick starts no dispatch while another one runs.
Dispatch == /\ batch = {} /\ sent = {}
            /\ \E i \in Intent : IntentDue(i)
            /\ batch' = {ReadOf(i) : i \in {j \in Intent : IntentDue(j)}}
            /\ UNCHANGED <<rows, sent, mails, current, known, mishaps>>

MarkIntent(i, status) == rows' = [rows EXCEPT ![i].status = status]

\* Fault: the last attempt is not the last.
BumpForever(i) == rows' = [rows EXCEPT ![i].attempts = @ + 1, ![i].due = FALSE]

BumpRetry(i) ==
  rows' = [rows EXCEPT ![i].attempts = @ + 1, ![i].due = FALSE,
                       ![i].status = IF rows[i].attempts + 1 >= MaxAttempts
                                       THEN "failed" ELSE "pending"]

SkipStale(r) == /\ r.stale
                /\ MarkIntent(r.intent, "skipped")
                /\ batch' = batch \ {r}
                /\ UNCHANGED <<sent, mails, current, known, mishaps>>

\* A missing address is transient: the directory fills at the next login.
NoAddress(r) == /\ ~r.stale /\ ~r.email
                /\ BumpRetry(r.intent)
                /\ batch' = batch \ {r}
                /\ UNCHANGED <<sent, mails, current, known, mishaps>>

SendMail(r) == /\ ~r.stale /\ r.email /\ sent = {}
               /\ mails' = [mails EXCEPT ![r.intent] = @ + 1]
               /\ sent' = {r.intent}
               /\ batch' = batch \ {r}
               /\ UNCHANGED <<rows, current, known, mishaps>>

MailFails(r) == /\ ~r.stale /\ r.email /\ sent = {}
                /\ BumpRetry(r.intent)
                /\ batch' = batch \ {r}
                /\ UNCHANGED <<sent, mails, current, known, mishaps>>

MarkSent(i) == /\ i \in sent
               /\ MarkIntent(i, "sent")
               /\ sent' = {}
               /\ UNCHANGED <<batch, mails, current, known, mishaps>>

\* The mail is out, but send() or the UPDATE that marks the row throws: the
\* catch counts an attempt.
MarkFails(i) == /\ i \in sent
                /\ mishaps < MaxMishaps
                /\ mishaps' = mishaps + 1
                /\ BumpRetry(i)
                /\ sent' = {}
                /\ UNCHANGED <<batch, mails, current, known>>

\* The process dies, or an UPDATE outside the try throws out of the batch.
DispatcherDies == /\ batch # {} \/ sent # {}
                  /\ mishaps < MaxMishaps
                  /\ mishaps' = mishaps + 1
                  /\ batch' = {}
                  /\ sent' = {}
                  /\ UNCHANGED <<rows, mails, current, known>>

BackoffEnds(i) == /\ rows[i].status = "pending" /\ ~rows[i].due
                  /\ rows' = [rows EXCEPT ![i].due = TRUE]
                  /\ UNCHANGED <<batch, sent, mails, current, known, mishaps>>

\* The ticket leaves Return-fixing, or comes back to it in the same round.
TicketMoves(i) == /\ i \in Reminder
                  /\ current' = IF i \in current THEN current \ {i} ELSE current \cup {i}
                  /\ UNCHANGED <<rows, batch, sent, mails, known, mishaps>>

FirstLogin(i) == /\ i \notin known
                 /\ known' = known \cup {i}
                 /\ UNCHANGED <<rows, batch, sent, mails, current, mishaps>>

\* One row after the other, in the order of the batch.
HandleIntent(r) == /\ sent = {}
                   /\ SkipStale(r) \/ NoAddress(r) \/ SendMail(r) \/ MailFails(r)

DispatcherWork == \/ Dispatch
                  \/ \E r \in batch : HandleIntent(r)
                  \/ \E i \in Intent : MarkSent(i) \/ MarkFails(i)

OutboxNext == \/ DispatcherWork
              \/ DispatcherDies
              \/ \E i \in Intent : BackoffEnds(i) \/ TicketMoves(i) \/ FirstLogin(i)

\* The interval timer fires and a dispatch that started goes on; time passes.
OutboxFairness == /\ WF_outboxVars(DispatcherWork)
                  /\ \A i \in Intent : WF_outboxVars(BackoffEnds(i))

OutboxSpec == OutboxInit /\ [][OutboxNext]_outboxVars /\ OutboxFairness
-----------------------------------------------------------------------------
\* The rows are those the table can hold, and at most one mail is unmarked.
OutboxTypeOK ==
  /\ \A i \in Intent : rows[i].status \in OutboxStatus /\ rows[i].attempts \in 0..MaxAttempts
  /\ {r.intent : r \in batch} \cup sent \subseteq Intent /\ Cardinality(sent) <= 1
  /\ current \subseteq Reminder /\ known \subseteq Intent /\ mishaps \in 0..MaxMishaps

\* "At-least-once" has a price and no other: no mail arrives more often than once,
\* and once more for each crash or failed marking of its row ("stops a 15s tick
\* from overlapping a slow run").
CopiesExplained ==
  \A i \in Intent : mails[i] <= 1 + mishaps

\* What the rows mean to the outside.
fate == [i \in Intent |-> CASE rows[i].status = "pending" -> "owed"
                            [] rows[i].status = "failed" -> "failed"
                            [] OTHER -> "sent"]
reached == {i \in Intent : mails[i] > 0}
moot == {i \in Intent : rows[i].status = "skipped"}
tries == [i \in Intent |-> rows[i].attempts]

Promise == INSTANCE Mailbox

\* The dispatcher, its crashes and its retries implement the promise, and every
\* intent is settled in the end.
KeepsPromise == Promise!Spec
=============================================================================
