--------------------------- MODULE ServicesProofs ---------------------------
(***************************************************************************)
(* The services beside the engine, for any sizes of each.  Mail: how many  *)
(* copies the dispatcher can send, that each of its steps is a step of     *)
(* Mailbox, and what a second digest of a day is paid with.  Accounts:     *)
(* what is ended stays ended, nobody is logged out by the requests of      *)
(* their own pages, one acts as Admin, and the console loses its last      *)
(* administrator to a race and to nothing else.  Then the catalogue, the   *)
(* live updates, the session behind a tab, and all of them side by side.   *)
(***************************************************************************)
EXTENDS Services, FiniteSetTheorems, TLAPS

-----------------------------------------------------------------------------
(***************************************************************************)
(* The outbox dispatcher.                                                  *)
(***************************************************************************)
OutboxRow == [status : OutboxStatus, attempts : 0..MaxAttempts, due : BOOLEAN]
Record == [intent : Intent, stale : BOOLEAN, email : BOOLEAN]

Pending(i) == rows[i].status = "pending"

\* The values the variables take; only rows with an attempt left are pending.
TypesInv ==
  /\ rows \in [Intent -> OutboxRow]
  /\ \A i \in Intent : Pending(i) => rows[i].attempts < MaxAttempts
  /\ batch \subseteq Record
  /\ sent \subseteq Intent
  /\ mails \in [Intent -> Nat]
  /\ current \subseteq Reminder
  /\ known \subseteq Intent
  /\ mishaps \in 0..MaxMishaps

\* A dispatch owns the rows it has read: each is pending, is in the batch once,
\* and leaves it when its mail does.
BatchInv ==
  /\ \A r \in batch : Pending(r.intent) /\ (r.stale => r.intent \in Reminder)
  /\ \A r, q \in batch : r.intent = q.intent => r = q
  /\ \A i \in sent : Pending(i) /\ \A r \in batch : r.intent # i
  /\ \A i, j \in sent : i = j

\* Each copy beyond the first is paid for by a mishap.
CopiesInv ==
  \A i \in Intent :
    /\ mails[i] <= mishaps + (IF i \in sent \/ rows[i].status = "sent" THEN 1 ELSE 0)
    /\ i \in sent \/ rows[i].status = "sent" => mails[i] > 0

OutboxInv == TypesInv /\ BatchInv /\ CopiesInv

\* What counting an attempt changes in an entry.
LEMMA BumpFacts ==
  ASSUME TypesInv, NEW i \in Intent, Pending(i), BumpRetry(i)
  PROVE  /\ rows' \in [Intent -> OutboxRow]
         /\ \A j \in Intent : rows'[j].status = "pending" => rows'[j].attempts < MaxAttempts
         /\ \A j \in Intent : j # i => rows'[j] = rows[j]
         /\ rows'[i].status = IF rows[i].attempts + 1 >= MaxAttempts
                                THEN "failed" ELSE "pending"
         /\ rows'[i].attempts = rows[i].attempts + 1
<1> DEFINE new == [rows[i] EXCEPT !.attempts = @ + 1, !.due = FALSE,
                     !.status = IF rows[i].attempts + 1 >= MaxAttempts
                                  THEN "failed" ELSE "pending"]
<1>1. rows[i] \in OutboxRow /\ rows[i].attempts \in Nat /\ rows[i].attempts < MaxAttempts
  BY OutboxAssumption DEF TypesInv, Pending, OutboxRow
<1>2. /\ new \in OutboxRow
      /\ new.status = IF rows[i].attempts + 1 >= MaxAttempts THEN "failed" ELSE "pending"
      /\ new.attempts = rows[i].attempts + 1
  <2>1. rows[i].attempts + 1 \in 0..MaxAttempts
    BY <1>1, OutboxAssumption
  <2>2. new \in OutboxRow
    BY <1>1, <2>1 DEF OutboxRow, OutboxStatus
  <2> QED
    BY <1>1, <2>1, <2>2 DEF OutboxRow
<1>3. rows' = [rows EXCEPT ![i] = new]
  BY DEF BumpRetry, TypesInv
<1> HIDE DEF new
<1>4. rows'[i] = new /\ rows' \in [Intent -> OutboxRow] /\ \A j \in Intent : j # i => rows'[j] = rows[j]
  BY <1>2, <1>3 DEF TypesInv
<1>5. new.status = "pending" => new.attempts < MaxAttempts
  BY <1>1, <1>2, OutboxAssumption
<1> QED
  BY <1>2, <1>4, <1>5 DEF TypesInv, Pending

\* What marking an entry changes.
LEMMA MarkFacts ==
  ASSUME TypesInv, NEW i \in Intent, NEW s \in OutboxStatus \ {"pending"}, MarkIntent(i, s)
  PROVE  /\ rows' \in [Intent -> OutboxRow]
         /\ \A j \in Intent : rows'[j].status = "pending" => rows'[j].attempts < MaxAttempts
         /\ \A j \in Intent : j # i => rows'[j] = rows[j]
         /\ rows'[i].status = s
         /\ rows'[i].attempts = rows[i].attempts
  BY DEF TypesInv, Pending, MarkIntent, OutboxRow, OutboxStatus

\* The empty outbox satisfies the invariant.
THEOREM OutboxInvInit == OutboxInit => OutboxInv
<1> SUFFICES ASSUME OutboxInit PROVE OutboxInv
  OBVIOUS
<1>1. /\ rows \in [Intent -> OutboxRow]
      /\ \A i \in Intent : /\ rows[i].attempts = 0
                           /\ rows[i].status \in {"pending", "sent"}
                           /\ rows[i] = Queued <=> rows[i].status = "pending"
  <2>1. Queued \in OutboxRow /\ [Queued EXCEPT !.status = "sent"] \in OutboxRow
    <3>1. 0 \in 0..MaxAttempts
      BY OutboxAssumption
    <3>2. Queued \in OutboxRow
      BY <3>1 DEF Queued, OutboxRow, OutboxStatus
    <3>3. [Queued EXCEPT !.status = "sent"] \in OutboxRow
      BY <3>1 DEF Queued, OutboxRow, OutboxStatus
    <3> QED
      BY <3>2, <3>3
  <2>2. \A i \in Intent : rows[i] \in {Queued, [Queued EXCEPT !.status = "sent"]}
    BY DEF OutboxInit
  <2>3. rows \in [Intent -> OutboxRow]
    BY <2>1 DEF OutboxInit
  <2> QED
    BY <2>2, <2>3 DEF Queued
<1>2. mails \in [Intent -> Nat]
      /\ \A i \in Intent : mails[i] = IF rows[i].status = "pending" THEN 0 ELSE 1
  BY <1>1 DEF OutboxInit
<1>3. batch = {} /\ sent = {} /\ mishaps = 0
      /\ current \subseteq Reminder /\ known \subseteq Intent
  BY DEF OutboxInit
<1> QED
  BY <1>1, <1>2, <1>3, OutboxAssumption DEF OutboxInv, TypesInv, BatchInv, CopiesInv, Pending

\* Taking a batch keeps the invariant.
LEMMA DispatchKeepsInv ==
  ASSUME OutboxInv, Dispatch
  PROVE  OutboxInv'
<1>1. ASSUME NEW r \in batch'
      PROVE  /\ r \in Record /\ Pending(r.intent)
             /\ (r.stale => r.intent \in Reminder)
             /\ r = ReadOf(r.intent)
  <2>1. PICK i \in Intent : Pending(i) /\ r = ReadOf(i)
    BY DEF Dispatch, IntentDue, Pending
  <2>2. r \in Record
    BY <2>1 DEF ReadOf, Record
  <2>3. r.intent = i /\ (r.stale => i \in Reminder)
    BY <2>1 DEF ReadOf
  <2> QED
    BY <2>1, <2>2, <2>3
<1>2. UNCHANGED <<rows, sent, mails, current, known, mishaps>> /\ sent = {}
  BY DEF Dispatch
<1> QED
  BY <1>1, <1>2 DEF OutboxInv, TypesInv, BatchInv, CopiesInv, Pending

\* Handling the entry at the head keeps it.
LEMMA OutboxHandleKeepsInv ==
  ASSUME OutboxInv, NEW r \in batch, HandleIntent(r)
  PROVE  OutboxInv'
<1> DEFINE i == r.intent
<1>1. i \in Intent /\ Pending(i) /\ sent = {} /\ batch' = batch \ {r}
  BY DEF OutboxInv, TypesInv, BatchInv, HandleIntent, SkipStale, NoAddress, SendMail,
     MailFails, Record
<1>2. \A q \in batch' : q \in batch /\ q.intent # i
  BY <1>1 DEF OutboxInv, BatchInv
<1>3. CASE SkipStale(r)
  <2>1. MarkIntent(i, "skipped")
    BY <1>3 DEF SkipStale
  <2>2. /\ rows' \in [Intent -> OutboxRow]
        /\ \A j \in Intent : rows'[j].status = "pending" => rows'[j].attempts < MaxAttempts
        /\ \A j \in Intent : j # i => rows'[j] = rows[j]
        /\ rows'[i].status = "skipped"
    BY <1>1, <2>1, MarkFacts DEF OutboxInv, OutboxStatus
  <2> QED
    BY <1>1, <1>2, <1>3, <2>2
    DEF SkipStale, OutboxInv, TypesInv, BatchInv, CopiesInv, Pending, Record
<1>4. CASE NoAddress(r) \/ MailFails(r)
  <2>1. BumpRetry(i) /\ UNCHANGED <<sent, mails, current, known, mishaps>>
    BY <1>4 DEF NoAddress, MailFails
  <2>2. /\ rows' \in [Intent -> OutboxRow]
        /\ \A j \in Intent : rows'[j].status = "pending" => rows'[j].attempts < MaxAttempts
        /\ \A j \in Intent : j # i => rows'[j] = rows[j]
        /\ rows'[i].status \in {"failed", "pending"}
    BY <1>1, <2>1, BumpFacts DEF OutboxInv
  <2> QED
    BY <1>1, <1>2, <2>1, <2>2
    DEF OutboxInv, TypesInv, BatchInv, CopiesInv, Pending, Record
<1>5. CASE SendMail(r)
  <2>1. /\ sent' = {i} /\ UNCHANGED <<rows, current, known, mishaps>>
        /\ mails' = [mails EXCEPT ![i] = @ + 1]
    BY <1>5 DEF SendMail
  <2>2. mails' \in [Intent -> Nat] /\ mails'[i] = mails[i] + 1
        /\ \A j \in Intent : j # i => mails'[j] = mails[j]
    BY <1>1, <2>1 DEF OutboxInv, TypesInv
  <2>3. TypesInv'
    BY <1>1, <1>2, <2>1, <2>2 DEF OutboxInv, TypesInv, Pending
  <2>4. BatchInv'
    BY <1>1, <1>2, <2>1 DEF OutboxInv, TypesInv, BatchInv, Pending, Record
  <2>5. CopiesInv'
    BY <1>1, <2>1, <2>2 DEF OutboxInv, TypesInv, CopiesInv, Pending
  <2> QED
    BY <2>3, <2>4, <2>5 DEF OutboxInv
<1> QED
  BY <1>3, <1>4, <1>5 DEF HandleIntent

\* Writing the outcome of the send keeps it.
LEMMA MarkingKeepsInv ==
  ASSUME OutboxInv, NEW i \in Intent, MarkSent(i) \/ MarkFails(i)
  PROVE  OutboxInv'
<1>1. i \in sent /\ Pending(i) /\ sent' = {} /\ UNCHANGED <<batch, mails, current, known>>
  BY DEF OutboxInv, BatchInv, MarkSent, MarkFails
<1>2. sent = {i}
  BY <1>1 DEF OutboxInv, BatchInv
<1>3. \A r \in batch : r.intent \in Intent /\ r.intent # i
  BY <1>1 DEF OutboxInv, BatchInv, TypesInv, Record
<1>4. CASE MarkSent(i)
  <2>1. /\ rows' \in [Intent -> OutboxRow]
        /\ \A j \in Intent : rows'[j].status = "pending" => rows'[j].attempts < MaxAttempts
        /\ \A j \in Intent : j # i => rows'[j] = rows[j]
        /\ rows'[i].status = "sent"
    BY <1>4, MarkFacts DEF OutboxInv, OutboxStatus, MarkSent
  <2> QED
    BY <1>1, <1>2, <1>3, <1>4, <2>1
    DEF MarkSent, OutboxInv, TypesInv, BatchInv, CopiesInv, Pending
<1>5. CASE MarkFails(i)
  <2>1. /\ rows' \in [Intent -> OutboxRow]
        /\ \A j \in Intent : rows'[j].status = "pending" => rows'[j].attempts < MaxAttempts
        /\ \A j \in Intent : j # i => rows'[j] = rows[j]
        /\ rows'[i].status \in {"failed", "pending"}
    BY <1>1, <1>5, BumpFacts DEF OutboxInv, MarkFails
  <2>2. mishaps' = mishaps + 1 /\ mishaps' \in 0..MaxMishaps
    BY <1>5, OutboxAssumption DEF MarkFails, OutboxInv, TypesInv
  <2> QED
    BY <1>1, <1>2, <1>3, <2>1, <2>2
    DEF OutboxInv, TypesInv, BatchInv, CopiesInv, Pending
<1> QED
  BY <1>4, <1>5

\* A crash of the dispatcher keeps it.
LEMMA CrashKeepsInv ==
  ASSUME OutboxInv, DispatcherDies
  PROVE  OutboxInv'
<1>1. mishaps' = mishaps + 1 /\ mishaps' \in 0..MaxMishaps
  BY OutboxAssumption DEF DispatcherDies, OutboxInv, TypesInv
<1> QED
  BY <1>1 DEF DispatcherDies, OutboxInv, TypesInv, BatchInv, CopiesInv, Pending

\* The transactions that add entries and the provider keep it.
LEMMA OutsideKeepsInv ==
  ASSUME OutboxInv, NEW i \in Intent, BackoffEnds(i) \/ TicketMoves(i) \/ FirstLogin(i)
  PROVE  OutboxInv'
<1>1. /\ rows' \in [Intent -> OutboxRow]
      /\ \A j \in Intent : /\ rows'[j].status = rows[j].status
                           /\ rows'[j].attempts = rows[j].attempts
      /\ UNCHANGED <<batch, sent, mails, mishaps>>
  <2>1. CASE BackoffEnds(i)
    <3>1. rows' = [rows EXCEPT ![i] = [rows[i] EXCEPT !.due = TRUE]]
      BY <2>1 DEF BackoffEnds
    <3>2. [rows[i] EXCEPT !.due = TRUE] \in OutboxRow /\ rows[i] \in OutboxRow
      BY DEF OutboxInv, TypesInv, OutboxRow
    <3> QED
      BY <2>1, <3>1, <3>2 DEF BackoffEnds, OutboxInv, TypesInv, OutboxRow
  <2>2. CASE TicketMoves(i) \/ FirstLogin(i)
    BY <2>2 DEF TicketMoves, FirstLogin, OutboxInv, TypesInv
  <2> QED
    BY <2>1, <2>2
<1>2. current' \subseteq Reminder /\ known' \subseteq Intent
  BY DEF BackoffEnds, TicketMoves, FirstLogin, OutboxInv, TypesInv
<1> QED
  BY <1>1, <1>2 DEF OutboxInv, TypesInv, BatchInv, CopiesInv, Pending, Record

\* The invariant is inductive.
THEOREM OutboxInvStep == OutboxInv /\ [OutboxNext]_outboxVars => OutboxInv'
<1> SUFFICES ASSUME OutboxInv, [OutboxNext]_outboxVars PROVE OutboxInv'
  OBVIOUS
<1>1. CASE DispatcherWork
  BY <1>1, DispatchKeepsInv, OutboxHandleKeepsInv, MarkingKeepsInv DEF DispatcherWork
<1>2. CASE DispatcherDies
  BY <1>2, CrashKeepsInv
<1>3. CASE \E i \in Intent : BackoffEnds(i) \/ TicketMoves(i) \/ FirstLogin(i)
  BY <1>3, OutsideKeepsInv
<1>4. CASE UNCHANGED outboxVars
  BY <1>4 DEF outboxVars, OutboxInv, TypesInv, BatchInv, CopiesInv, Pending
<1> QED
  BY <1>1, <1>2, <1>3, <1>4 DEF OutboxNext

\* It holds in every state of the specification.
THEOREM OutboxInvAlways == OutboxSpec => []OutboxInv
  BY OutboxInvInit, OutboxInvStep, PTL DEF OutboxSpec

\* Type correctness of the outbox.
THEOREM OutboxTypes == OutboxSpec => []OutboxTypeOK
<1>1. OutboxInv => OutboxTypeOK
  <2> SUFFICES ASSUME OutboxInv PROVE OutboxTypeOK
    OBVIOUS
  <2>1. Cardinality(sent) <= 1
    <3>1. CASE sent = {}
      BY <3>1, FS_EmptySet
    <3>2. CASE \E i : sent = {i}
      BY <3>2, FS_Singleton
    <3> QED
      BY <3>1, <3>2 DEF OutboxInv, BatchInv
  <2>2. {r.intent : r \in batch} \cup sent \subseteq Intent
    BY DEF OutboxInv, TypesInv, Record
  <2> QED
    BY <2>1, <2>2 DEF OutboxTypeOK, OutboxInv, TypesInv, OutboxRow
<1> QED
  BY <1>1, OutboxInvAlways, PTL

\* Every copy beyond the first has a crash or a lost answer behind it.
THEOREM CopiesAreExplained == OutboxSpec => []CopiesExplained
<1>1. OutboxInv => CopiesExplained
  BY DEF OutboxInv, TypesInv, CopiesInv, CopiesExplained
<1> QED
  BY <1>1, OutboxInvAlways, PTL

-----------------------------------------------------------------------------
(***************************************************************************)
(* The refinement.  `Seen' is the picture Mailbox has of the outbox.       *)
(***************************************************************************)
Seen == <<fate, reached, moot, tries>>

\* A step that sends nothing leaves what the mailbox has seen.
LEMMA SeenUnchanged ==
  ASSUME \A j \in Intent : /\ rows'[j].status = rows[j].status
                           /\ rows'[j].attempts = rows[j].attempts,
         UNCHANGED mails
  PROVE  UNCHANGED Seen
<1>1. fate' = fate
  BY DEF fate
<1>2. reached' = reached /\ moot' = moot /\ tries' = tries
  BY DEF reached, moot, tries
<1> QED
  BY <1>1, <1>2 DEF Seen

\* A counted failure: the retry window of one intent moves on, or closes.
LEMMA BumpGivesUp ==
  ASSUME OutboxInv, NEW i \in Intent, Pending(i), BumpRetry(i), UNCHANGED mails
  PROVE  Promise!GiveUp(i)
<1>1. /\ \A j \in Intent : j # i => rows'[j] = rows[j]
      /\ rows'[i].status = IF rows[i].attempts + 1 >= MaxAttempts THEN "failed" ELSE "pending"
      /\ rows'[i].attempts = rows[i].attempts + 1
  BY BumpFacts DEF OutboxInv
<1>2. tries' = [tries EXCEPT ![i] = @ + 1] /\ tries'[i] = rows[i].attempts + 1
  BY <1>1 DEF tries
<1>3. fate[i] = "owed"
  BY DEF fate, Pending
<1>4. fate' = [fate EXCEPT ![i] = IF tries'[i] >= MaxAttempts THEN "failed" ELSE @]
  BY <1>1, <1>2, <1>3 DEF fate, Pending
<1>5. UNCHANGED <<reached, moot>>
  BY <1>1 DEF reached, moot, Pending
<1> QED
  BY <1>2, <1>3, <1>4, <1>5 DEF Promise!GiveUp

\* A row is marked as sent after its mail, or dropped as a stale reminder.
LEMMA MarkSettles ==
  ASSUME OutboxInv, NEW i \in Intent, Pending(i), NEW s \in {"sent", "skipped"},
         MarkIntent(i, s), UNCHANGED mails,
         s = "sent" => mails[i] > 0,
         s = "skipped" => i \in Reminder
  PROVE  Promise!Settle(i)
<1>1. /\ \A j \in Intent : j # i => rows'[j] = rows[j]
      /\ rows'[i].status = s
      /\ rows'[i].attempts = rows[i].attempts
  BY MarkFacts DEF OutboxInv, OutboxStatus
<1>2. fate[i] = "owed" /\ fate' = [fate EXCEPT ![i] = "sent"]
  BY <1>1 DEF fate, Pending
<1>3. UNCHANGED <<reached, tries>>
  BY <1>1 DEF reached, tries
<1>4. moot' = IF s = "skipped" THEN moot \cup {i} ELSE moot
  BY <1>1 DEF moot, Pending
<1>5. moot' \in {moot, moot \cup ({i} \cap Reminder)}
  BY <1>4
<1>6. i \in reached \cup moot'
  BY <1>4 DEF reached
<1> QED
  BY <1>2, <1>3, <1>5, <1>6 DEF Promise!Settle

\* A send is the delivery of the abstract specification.
LEMMA SendDelivers ==
  ASSUME OutboxInv, NEW r \in batch, SendMail(r)
  PROVE  Promise!Deliver(r.intent)
<1> DEFINE i == r.intent
<1>1. i \in Intent /\ Pending(i)
  BY DEF OutboxInv, TypesInv, BatchInv, Record
<1>2. mails'[i] > 0 /\ \A j \in Intent : j # i => mails'[j] = mails[j]
  BY <1>1 DEF SendMail, OutboxInv, TypesInv
<1>3. reached' = reached \cup {i}
  BY <1>1, <1>2 DEF reached
<1>4. UNCHANGED <<fate, moot, tries>> /\ fate[i] = "owed"
  BY <1>1 DEF SendMail, fate, moot, tries, Pending
<1> QED
  BY <1>3, <1>4 DEF Promise!Deliver

\* Every step is a step of the abstract mailbox or a stutter.
LEMMA StepKeepsPromise ==
  ASSUME OutboxInv, [OutboxNext]_outboxVars
  PROVE  [Promise!Next]_Seen
<1>1. ASSUME NEW r \in batch, HandleIntent(r)
      PROVE  Promise!Next
  <2>1. r.intent \in Intent /\ Pending(r.intent) /\ (r.stale => r.intent \in Reminder)
    BY DEF OutboxInv, TypesInv, BatchInv, Record
  <2>2. CASE SkipStale(r)
    BY <2>1, <2>2, MarkSettles DEF SkipStale, Promise!Next
  <2>3. CASE NoAddress(r) \/ MailFails(r)
    BY <2>1, <2>3, BumpGivesUp DEF NoAddress, MailFails, Promise!Next
  <2>4. CASE SendMail(r)
    BY <2>1, <2>4, SendDelivers DEF Promise!Next
  <2> QED
    BY <1>1, <2>2, <2>3, <2>4 DEF HandleIntent
<1>2. ASSUME NEW i \in Intent, MarkSent(i) \/ MarkFails(i)
      PROVE  Promise!Next
  <2>1. i \in sent /\ Pending(i) /\ mails[i] > 0
    BY <1>2 DEF MarkSent, MarkFails, OutboxInv, BatchInv, CopiesInv
  <2>2. CASE MarkSent(i)
    BY <2>1, <2>2, MarkSettles DEF MarkSent, Promise!Next
  <2>3. CASE MarkFails(i)
    BY <2>1, <2>3, BumpGivesUp DEF MarkFails, Promise!Next
  <2> QED
    BY <1>2, <2>2, <2>3
<1>3. ASSUME Dispatch \/ DispatcherDies \/ UNCHANGED outboxVars
      PROVE  UNCHANGED Seen
  BY <1>3, SeenUnchanged DEF Dispatch, DispatcherDies, outboxVars
<1>4. ASSUME NEW i \in Intent, BackoffEnds(i) \/ TicketMoves(i) \/ FirstLogin(i)
      PROVE  UNCHANGED Seen
  <2>1. /\ \A j \in Intent : /\ rows'[j].status = rows[j].status
                             /\ rows'[j].attempts = rows[j].attempts
        /\ UNCHANGED mails
    BY <1>4 DEF BackoffEnds, TicketMoves, FirstLogin, OutboxInv, TypesInv, OutboxRow
  <2> QED
    BY <2>1, SeenUnchanged
<1> QED
  BY <1>1, <1>2, <1>3, <1>4 DEF OutboxNext, DispatcherWork

\* Initial states map to initial states.
LEMMA InitKeepsPromise == OutboxInit => Promise!Init
<1> SUFFICES ASSUME OutboxInit PROVE Promise!Init
  OBVIOUS
<1>1. \A i \in Intent : /\ rows[i].status \in {"pending", "sent"} /\ rows[i].attempts = 0
                        /\ rows[i] = Queued <=> rows[i].status = "pending"
  BY DEF OutboxInit, Queued
<1>2. \A i \in Intent : mails[i] = IF rows[i].status = "pending" THEN 0 ELSE 1
  BY <1>1 DEF OutboxInit
<1>3. fate \in [Intent -> {"owed", "sent"}]
      /\ \A i \in Intent : fate[i] = "sent" <=> rows[i].status = "sent"
  BY <1>1 DEF fate
<1>4. reached = {i \in Intent : fate[i] = "sent"}
  BY <1>1, <1>2, <1>3 DEF reached
<1>5. moot = {} /\ tries = [i \in Intent |-> 0]
  BY <1>1 DEF moot, tries
<1> QED
  BY <1>3, <1>4, <1>5 DEF Promise!Init

\* Every behaviour of the dispatcher, however it crashes and retries, is one the
\* promise of Mailbox allows; that intents are settled in the end needs fairness.
THEOREM DispatcherKeepsSafePromise ==
  OutboxSpec => Promise!Init /\ [][Promise!Next]_(Promise!vars)
<1>1. OutboxInit => Promise!Init
  BY InitKeepsPromise
<1>2. OutboxInv /\ [OutboxNext]_outboxVars => [Promise!Next]_(Promise!vars)
  BY StepKeepsPromise DEF Seen, Promise!vars
<1> QED
  BY <1>1, <1>2, OutboxInvAlways, PTL DEF OutboxSpec

-----------------------------------------------------------------------------
(***************************************************************************)
(* The morning digest.                                                     *)
(***************************************************************************)
DigestRow == [status : DigestStatus, attempts : Nat, due : BOOLEAN]

DigestTypes ==
  /\ digests \in [Person -> DigestRow]
  /\ claimed \in [Process -> SUBSET Person]
  /\ mailing \in [Process -> SUBSET Person]
  /\ \A p \in Process : \A u, v \in mailing[p] : u = v
  /\ copies \in [Person -> Nat]
  /\ trouble \in 0..MaxTrouble

Holders(u) == {p \in Process : u \in claimed[p]}

\* Some process may come to hold the row without any trouble.
Claimable(u) ==
  \/ digests[u].status \in {"none", "pending"}
  \/ digests[u].status = "sending" /\ (digests[u].due \/ ~Held(u))

\* The copies u has, and those that may still leave if nothing goes wrong, are
\* one and one for each trouble; what a process holds it may send.
Budget(u) ==
  copies[u] + Cardinality(Holders(u)) + (IF Claimable(u) THEN 1 ELSE 0) <= 1 + trouble

DigestInv == DigestTypes /\ \A u \in Person : Budget(u)

-----------------------------------------------------------------------------
\* The runs that hold a row are finitely many.
LEMMA HoldersCount ==
  ASSUME DigestTypes, NEW u \in Person
  PROVE  IsFiniteSet(Holders(u)) /\ Cardinality(Holders(u)) \in Nat
BY DigestAssumption, FS_Subset, FS_CardinalityType DEF Holders

\* Who holds u after the hands of p have changed.
LEMMA HoldersMove ==
  ASSUME DigestTypes, NEW u \in Person, NEW p \in Process, NEW S \in SUBSET Person,
         claimed' = [claimed EXCEPT ![p] = S]
  PROVE  Cardinality(Holders(u))' =
           IF u \in S THEN IF u \in claimed[p] THEN Cardinality(Holders(u))
                                               ELSE Cardinality(Holders(u)) + 1
           ELSE IF u \in claimed[p] THEN Cardinality(Holders(u)) - 1
                                    ELSE Cardinality(Holders(u))
<1>1. Holders(u)' = IF u \in S THEN Holders(u) \cup {p} ELSE Holders(u) \ {p}
  BY DEF Holders, DigestTypes
<1>2. p \in Holders(u) <=> u \in claimed[p]
  BY DEF Holders
<1>3. IsFiniteSet(Holders(u))
  BY HoldersCount
<1> QED
  <2>1. Cardinality(Holders(u) \cup {p}) =
          IF p \in Holders(u) THEN Cardinality(Holders(u)) ELSE Cardinality(Holders(u)) + 1
    BY <1>3, FS_AddElement, Zenon
  <2>2. Cardinality(Holders(u) \ {p}) =
          IF p \in Holders(u) THEN Cardinality(Holders(u)) - 1 ELSE Cardinality(Holders(u))
    BY <1>3, FS_RemoveElement, Zenon
  <2>3. Cardinality(Holders(u))' = Cardinality(Holders(u)')
    OBVIOUS
  <2> QED
    BY <1>1, <1>2, <2>1, <2>2, <2>3

\* A step that changes no run keeps its holders.
LEMMA HoldersStay ==
  ASSUME UNCHANGED claimed
  PROVE  \A u \in Person : Holders(u)' = Holders(u)
BY DEF Holders

\* The status and the due time of one row change.
LEMMA RowMoves ==
  ASSUME DigestTypes, NEW u \in Person, NEW x \in DigestRow,
         digests' = [digests EXCEPT ![u] = x]
  PROVE  /\ digests' \in [Person -> DigestRow] /\ digests'[u] = x
         /\ \A v \in Person : v # u => digests'[v] = digests[v]
BY DEF DigestTypes

\* What marking a row changes.
LEMMA MarkMoves ==
  ASSUME DigestTypes, NEW u \in Person, NEW s \in DigestStatus, MarkDigest(u, s)
  PROVE  /\ digests' \in [Person -> DigestRow] /\ digests'[u].status = s
         /\ \A v \in Person : v # u => digests'[v] = digests[v]
<1>1. digests' = [digests EXCEPT ![u] = [digests[u] EXCEPT !.status = s]]
  BY DEF MarkDigest
<1>2. [digests[u] EXCEPT !.status = s] \in DigestRow
  BY DEF DigestTypes, DigestRow
<1>3. [digests[u] EXCEPT !.status = s].status = s
  BY DEF DigestTypes, DigestRow
<1> QED
  BY <1>1, <1>2, <1>3, RowMoves

\* What a failed attempt changes.
LEMMA BumpMoves ==
  ASSUME DigestTypes, NEW u \in Person, BumpDigest(u)
  PROVE  /\ digests' \in [Person -> DigestRow]
         /\ digests'[u].status \in {"failed", "pending"}
         /\ \A v \in Person : v # u => digests'[v] = digests[v]
<1> DEFINE s == IF digests[u].attempts + 1 >= DigestAttempts THEN "failed" ELSE "pending"
           x == [digests[u] EXCEPT !.status = s, !.attempts = @ + 1, !.due = FALSE]
<1>1. digests' = [digests EXCEPT ![u] = x]
  BY DEF BumpDigest
<1>2. s \in DigestStatus /\ s \in {"failed", "pending"}
  BY DEF DigestStatus
<1> HIDE DEF s
<1>3. x \in DigestRow /\ x.status = s
  <2>1. digests[u] \in DigestRow /\ digests[u].attempts + 1 \in Nat
    BY DEF DigestTypes, DigestRow
  <2>2. x \in DigestRow
    BY <1>2, <2>1 DEF DigestRow
  <2>3. x.status = s
    BY <2>1 DEF DigestRow
  <2> QED
    BY <2>2, <2>3
<1> QED
  BY <1>1, <1>2, <1>3, RowMoves

-----------------------------------------------------------------------------
\* No row exists when the morning starts.
THEOREM DigestInvInit == DigestInit => DigestInv
<1> SUFFICES ASSUME DigestInit PROVE DigestInv
  OBVIOUS
<1>1. DigestTypes
  BY DigestAssumption DEF DigestInit, DigestTypes, DigestRow, DigestStatus
<1>2. ASSUME NEW u \in Person PROVE Budget(u)
  <2>1. Holders(u) = {} /\ copies[u] = 0 /\ trouble = 0
    BY DEF DigestInit, Holders
  <2> QED
    BY <2>1, FS_EmptySet DEF Budget
<1> QED
  BY <1>1, <1>2 DEF DigestInv

\* The scan inserts a row at most once per person and day.
LEMMA ScanKeepsInv ==
  ASSUME DigestInv, NEW p \in Process, DigestScan(p)
  PROVE  DigestInv'
<1>1. UNCHANGED <<claimed, mailing, copies, trouble>>
  BY DEF DigestScan
<1>2. \A u \in Person : /\ digests'[u] \in DigestRow
                        /\ \/ digests'[u] = digests[u]
                           \/ digests[u].status = "none"
  BY DEF DigestScan, DigestInv, DigestTypes, DigestRow, DigestStatus
<1>3. digests' \in [Person -> DigestRow]
  BY <1>2 DEF DigestScan
<1>4. \A u \in Person : Claimable(u)' => Claimable(u)
  BY <1>1, <1>2 DEF Claimable, Held
<1>5. \A u \in Person : Holders(u)' = Holders(u)
  BY <1>1, HoldersStay
<1>6. ASSUME NEW u \in Person PROVE Budget(u)'
  BY <1>1, <1>4, <1>5, HoldersCount DEF Budget, DigestInv, DigestTypes
<1> QED
  BY <1>1, <1>3, <1>6 DEF DigestInv, DigestTypes

\* A claim spends one of the five attempts.
LEMMA ClaimKeepsInv ==
  ASSUME DigestInv, NEW p \in Process, Claim(p)
  PROVE  DigestInv'
<1> DEFINE S == {u \in Person : DigestDue(u)}
<1>1. /\ UNCHANGED <<mailing, copies, trouble>>
      /\ claimed' = [claimed EXCEPT ![p] = S]
      /\ claimed[p] = {} /\ mailing[p] = {}
  BY DEF Claim, Free
<1>2. \A u \in Person \ S : digests'[u] = digests[u]
  BY DEF Claim
<1>3. \A u \in S : /\ digests'[u] \in DigestRow
                   /\ digests'[u].status = "sending" /\ ~digests'[u].due
  BY DEF Claim, DigestInv, DigestTypes, DigestRow, DigestStatus
<1>4. digests' \in [Person -> DigestRow]
  BY <1>2, <1>3 DEF Claim, DigestInv, DigestTypes
<1>5. claimed' \in [Process -> SUBSET Person]
  BY <1>1 DEF DigestInv, DigestTypes
<1>6. ASSUME NEW u \in Person PROVE Budget(u)'
  <2>1. CASE u \in S
    <3>1. Claimable(u)
      BY <2>1 DEF DigestDue, Claimable
    <3>2. Held(u)'
      BY <1>1, <1>5, <2>1 DEF Held, DigestInv, DigestTypes
    <3>3. ~Claimable(u)'
      BY <1>3, <2>1, <3>2 DEF Claimable
    <3>4. Cardinality(Holders(u))' = Cardinality(Holders(u)) + 1
      BY <1>1, <2>1, HoldersMove DEF DigestInv
    <3> QED
      BY <1>1, <3>1, <3>3, <3>4, HoldersCount DEF Budget, DigestInv, DigestTypes
  <2>2. CASE u \notin S
    <3>1. Cardinality(Holders(u))' = Cardinality(Holders(u))
      BY <1>1, <2>2, HoldersMove DEF DigestInv
    <3>2. Held(u)' <=> Held(u)
      BY <1>1, <2>2 DEF Held, DigestInv, DigestTypes
    <3>3. Claimable(u)' <=> Claimable(u)
      BY <1>2, <2>2, <3>2 DEF Claimable
    <3> QED
      BY <1>1, <3>1, <3>3 DEF Budget, DigestInv
  <2> QED
    BY <2>1, <2>2
<1> QED
  BY <1>1, <1>4, <1>5, <1>6 DEF DigestInv, DigestTypes

\* A claimed row leaves the hands of p; what becomes of it is one of four things.
LEMMA DigestHandleKeepsInv ==
  ASSUME DigestInv, NEW p \in Process, NEW u \in Person, mailing[p] = {},
         Skip(p, u) \/ SendDigest(p, u) \/ RefuseDigest(p, u)
  PROVE  DigestInv'
<1>1. /\ u \in claimed[p]
      /\ claimed' = [claimed EXCEPT ![p] = claimed[p] \ {u}]
      /\ UNCHANGED trouble
  BY DEF Skip, SendDigest, RefuseDigest, Handled
<1>2. claimed' \in [Process -> SUBSET Person]
  BY <1>1 DEF DigestInv, DigestTypes
<1>3. /\ Cardinality(Holders(u))' = Cardinality(Holders(u)) - 1
      /\ \A v \in Person : v # u => Cardinality(Holders(v))' = Cardinality(Holders(v))
  <2>1. claimed[p] \ {u} \in SUBSET Person /\ DigestTypes
    BY DEF DigestInv, DigestTypes
  <2>2. Cardinality(Holders(u))' = Cardinality(Holders(u)) - 1
    <3> DEFINE S == claimed[p] \ {u}
    <3>1. S \in SUBSET Person /\ u \notin S /\ claimed' = [claimed EXCEPT ![p] = S]
      BY <1>1, <2>1
    <3> HIDE DEF S
    <3> QED
      BY <1>1, <2>1, <3>1, HoldersMove
  <2>3. ASSUME NEW v \in Person, v # u
        PROVE  Cardinality(Holders(v))' = Cardinality(Holders(v))
    <3>1. Holders(v)' = Holders(v)
      BY <1>1, <2>1, <2>3 DEF Holders, DigestInv, DigestTypes
    <3> QED
      BY <3>1
  <2> QED
    BY <2>2, <2>3
<1>4. CASE SendDigest(p, u)
  <2>1. /\ UNCHANGED digests
        /\ mailing' = [mailing EXCEPT ![p] = {u}]
        /\ copies' = [copies EXCEPT ![u] = @ + 1]
    BY <1>4 DEF SendDigest
  <2>2. /\ copies' \in [Person -> Nat] /\ copies'[u] = copies[u] + 1
        /\ \A v \in Person : v # u => copies'[v] = copies[v]
    BY <2>1 DEF DigestInv, DigestTypes
  <2>3. mailing' \in [Process -> SUBSET Person]
        /\ \A q \in Process : \A v, w \in mailing'[q] : v = w
    BY <2>1 DEF DigestInv, DigestTypes
  <2>4. \A v \in Person : Held(v)' <=> Held(v)
    BY <1>1, <2>1 DEF Held, DigestInv, DigestTypes
  <2>5. \A v \in Person : Claimable(v)' <=> Claimable(v)
    BY <2>1, <2>4 DEF Claimable
  <2>6. ASSUME NEW v \in Person PROVE Budget(v)'
    BY <1>1, <1>3, <2>2, <2>5, HoldersCount DEF Budget, DigestInv, DigestTypes
  <2> QED
    BY <1>1, <1>2, <2>1, <2>2, <2>3, <2>6 DEF DigestInv, DigestTypes
<1>5. CASE Skip(p, u) \/ RefuseDigest(p, u)
  <2>1. UNCHANGED <<mailing, copies>>
    BY <1>5 DEF Skip, RefuseDigest
  <2>2. /\ digests' \in [Person -> DigestRow]
        /\ digests'[u].status # "sending"
        /\ \A v \in Person : v # u => digests'[v] = digests[v]
    BY <1>5, MarkMoves, BumpMoves DEF Skip, RefuseDigest, DigestInv, DigestStatus
  <2>3. \A v \in Person : v # u => (Held(v)' <=> Held(v))
    BY <1>1, <2>1 DEF Held, DigestInv, DigestTypes
  <2>4. \A v \in Person : v # u => (Claimable(v)' <=> Claimable(v))
    BY <2>2, <2>3 DEF Claimable
  <2>5. ASSUME NEW v \in Person PROVE Budget(v)'
    <3>1. CASE v = u
      BY <1>1, <1>3, <2>1, <3>1, HoldersCount DEF Budget, DigestInv, DigestTypes
    <3>2. CASE v # u
      BY <1>1, <1>3, <2>1, <2>4, <3>2 DEF Budget, DigestInv
    <3> QED
      BY <3>1, <3>2
  <2> QED
    BY <1>1, <1>2, <2>1, <2>2, <2>5 DEF DigestInv, DigestTypes
<1> QED
  BY <1>4, <1>5

\* The bookkeeping after a sent digest.
LEMMA MarkSentKeepsInv ==
  ASSUME DigestInv, NEW p \in Process, NEW u \in Person, MarkDigestSent(p, u)
  PROVE  DigestInv'
<1>1. /\ u \in mailing[p] /\ mailing[p] = {u}
      /\ mailing' = [mailing EXCEPT ![p] = {}]
      /\ UNCHANGED <<claimed, copies, trouble>>
  BY DEF MarkDigestSent, DigestInv, DigestTypes
<1>2. /\ digests' \in [Person -> DigestRow]
      /\ digests'[u].status = "sent"
      /\ \A v \in Person : v # u => digests'[v] = digests[v]
  BY MarkMoves DEF MarkDigestSent, DigestInv, DigestStatus
<1>3. \A v \in Person : v # u => (Held(v)' <=> Held(v))
  BY <1>1 DEF Held, DigestInv, DigestTypes
<1>4. \A v \in Person : Claimable(v)' => Claimable(v)
  BY <1>2, <1>3 DEF Claimable
<1>5. \A v \in Person : Holders(v)' = Holders(v)
  BY <1>1, HoldersStay
<1>6. ASSUME NEW v \in Person PROVE Budget(v)'
  BY <1>1, <1>4, <1>5, HoldersCount DEF Budget, DigestInv, DigestTypes
<1> QED
  BY <1>1, <1>2, <1>6 DEF DigestInv, DigestTypes

\* What p held may be claimed again: one copy more at most, of a mail unmarked.
LEMMA AbandonKeepsInv ==
  ASSUME DigestInv, NEW p \in Process, Abandon(p)
  PROVE  DigestInv'
<1>1. /\ claimed' = [claimed EXCEPT ![p] = {}]
      /\ mailing' = [mailing EXCEPT ![p] = {}]
      /\ trouble' = trouble + 1 /\ trouble' \in 0..MaxTrouble
      /\ UNCHANGED <<digests, copies>>
  BY DigestAssumption DEF Abandon, Trouble, DigestInv, DigestTypes
<1>2. ASSUME NEW u \in Person PROVE Budget(u)'
  <2>1. Cardinality(Holders(u))' \in Nat
        /\ Cardinality(Holders(u))' <= Cardinality(Holders(u))
    <3>1. Holders(u)' \subseteq Holders(u)
      BY <1>1 DEF Holders, DigestInv, DigestTypes
    <3>2. IsFiniteSet(Holders(u))
      BY HoldersCount DEF DigestInv
    <3>3. IsFiniteSet(Holders(u)') /\ Cardinality(Holders(u)') <= Cardinality(Holders(u))
      BY <3>1, <3>2, FS_Subset
    <3> QED
      BY <3>3, FS_CardinalityType
  <2> QED
    BY <1>1, <2>1, HoldersCount DEF Budget, DigestInv, DigestTypes
<1> QED
  BY <1>1, <1>2 DEF DigestInv, DigestTypes

\* Retries, crashes and the passing of the lease.
LEMMA TimeKeepsInv ==
  ASSUME DigestInv, NEW u \in Person, Elapses(u) \/ LeaseLapses(u)
  PROVE  DigestInv'
<1> DEFINE x == [digests[u] EXCEPT !.due = TRUE]
<1>1. /\ digests' = [digests EXCEPT ![u] = x]
      /\ UNCHANGED <<claimed, mailing, copies>>
  BY DEF Elapses, LeaseLapses
<1>2. x \in DigestRow /\ x.status = digests[u].status
  BY DEF DigestInv, DigestTypes, DigestRow
<1>3. /\ digests' \in [Person -> DigestRow] /\ digests'[u].status = digests[u].status
      /\ \A v \in Person : v # u => digests'[v] = digests[v]
  BY <1>1, <1>2, RowMoves DEF DigestInv
<1>4. \A v \in Person : Held(v)' <=> Held(v)
  BY <1>1 DEF Held
<1>5. \A v \in Person : Holders(v)' = Holders(v)
  BY <1>1, HoldersStay
<1>6. CASE Elapses(u)
  <2>1. UNCHANGED trouble
    BY <1>6 DEF Elapses
  <2>2. \A v \in Person : Claimable(v)' => Claimable(v)
    BY <1>3, <1>4, <1>6 DEF Claimable, Elapses
  <2>3. ASSUME NEW v \in Person PROVE Budget(v)'
    BY <1>1, <1>5, <2>1, <2>2, HoldersCount DEF Budget, DigestInv, DigestTypes
  <2> QED
    BY <1>1, <1>3, <2>1, <2>3 DEF DigestInv, DigestTypes
<1>7. CASE LeaseLapses(u)
  <2>1. trouble' = trouble + 1 /\ trouble' \in 0..MaxTrouble
    BY <1>7, DigestAssumption DEF LeaseLapses, Trouble, DigestInv, DigestTypes
  <2>2. ASSUME NEW v \in Person PROVE Budget(v)'
    BY <1>1, <1>3, <1>4, <1>5, <2>1, HoldersCount DEF Budget, Claimable, DigestInv, DigestTypes
  <2> QED
    BY <1>1, <1>3, <2>1, <2>2 DEF DigestInv, DigestTypes
<1> QED
  BY <1>6, <1>7

\* The invariant is inductive.
THEOREM DigestInvStep == DigestInv /\ [DigestNext]_digestVars => DigestInv'
<1> SUFFICES ASSUME DigestInv, [DigestNext]_digestVars PROVE DigestInv'
  OBVIOUS
<1>1. ASSUME NEW p \in Process, DigestScan(p) \/ Claim(p) \/ Abandon(p) \/ DeliverDigest(p)
      PROVE  DigestInv'
  BY <1>1, ScanKeepsInv, ClaimKeepsInv, AbandonKeepsInv, DigestHandleKeepsInv, MarkSentKeepsInv
  DEF DeliverDigest
<1>2. ASSUME NEW u \in Person, Elapses(u) \/ LeaseLapses(u)
      PROVE  DigestInv'
  BY <1>2, TimeKeepsInv
<1>3. ASSUME UNCHANGED <<digests, claimed, mailing, copies, trouble>>
      PROVE  DigestInv'
  <2>1. \A v \in Person : (Held(v)' <=> Held(v)) /\ Holders(v)' = Holders(v)
    BY <1>3 DEF Held, Holders
  <2>2. \A v \in Person : Claimable(v)' <=> Claimable(v)
    BY <1>3, <2>1 DEF Claimable
  <2>3. ASSUME NEW v \in Person PROVE Budget(v)'
    BY <1>3, <2>1, <2>2 DEF Budget, DigestInv
  <2> QED
    BY <1>3, <2>3 DEF DigestInv, DigestTypes
<1>4. ASSUME NEW u \in Person, DeskChanges(u) \/ OptInOrOut(u)
      PROVE  DigestInv'
  BY <1>3, <1>4 DEF DeskChanges, OptInOrOut
<1>5. CASE UNCHANGED digestVars
  BY <1>3, <1>5 DEF digestVars
<1> QED
  BY <1>1, <1>2, <1>4, <1>5 DEF DigestNext

\* A person gets a second digest of a day only if a process died, lost its
\* bookkeeping or outlived its lease: the claim keeps concurrent processes apart.
THEOREM OneDigestADay == DigestSpec => []DigestOnce
<1>1. DigestInv => DigestOnce
  <2> SUFFICES ASSUME DigestInv, NEW u \in Person PROVE copies[u] <= 1 + trouble
    BY DEF DigestOnce
  <2> QED
    BY HoldersCount DEF DigestInv, DigestTypes, Budget
<1> QED
  BY <1>1, DigestInvInit, DigestInvStep, PTL DEF DigestSpec

\* The digest keeps to its types; a process has at most one mail on its way.
THEOREM DigestTypeCorrect == DigestSpec => []DigestTypeOK
<1>1. DigestInv => DigestTypeOK
  <2> SUFFICES ASSUME DigestInv PROVE DigestTypeOK
    OBVIOUS
  <2>1. ASSUME NEW p \in Process
        PROVE  claimed[p] \cup mailing[p] \subseteq Person /\ Cardinality(mailing[p]) <= 1
    <3>1. claimed[p] \subseteq Person /\ mailing[p] \subseteq Person
      BY DEF DigestInv, DigestTypes
    <3>2. mailing[p] = {} \/ \E u \in Person : mailing[p] = {u}
      BY <3>1 DEF DigestInv, DigestTypes
    <3>3. Cardinality(mailing[p]) \in {0, 1}
      BY <3>2, FS_EmptySet, FS_Singleton, Zenon
    <3> QED
      BY <3>1, <3>3
  <2> QED
    BY <2>1 DEF DigestTypeOK, DigestInv, DigestTypes, DigestRow
<1> QED
  BY <1>1, DigestInvInit, DigestInvStep, PTL DEF DigestSpec

-----------------------------------------------------------------------------
(***************************************************************************)
(* The sessions.                                                           *)
(***************************************************************************)
SessionRow == [state : {"unused", "live", "ended"}, token : Nat, expired : BOOLEAN]
CallRecord == [sid : Sid, token : Nat,
               answer : {"none", "tokens", "revoked", "outage"}]

SessionsTypes ==
  /\ session \in [Sid -> SessionRow]
  /\ idp \in [Sid -> Nat]
  /\ logins \subseteq Sid
  /\ calls \subseteq CallRecord
  /\ grant \in BOOLEAN
  /\ lost \subseteq Sid

\* A login under way has no session yet, and the first token is still good.
Fresh ==
  \A s \in Sid : session[s].state = "unused" =>
    /\ session[s].token = 0 /\ idp[s] = 0
    /\ \A c \in calls : c.sid # s

\* Only for a session that is not there yet can a login be under way.
LoginsFresh == \A s \in logins : session[s].state = "unused"

OneCall == \A c, d \in calls : c.sid = d.sid => c = d

\* A live session to which every answer came knows the token the provider takes
\* next, or the call under way is about to tell it.
InStep ==
  \A s \in Sid : Live(s) /\ s \notin lost =>
    /\ (\A c \in calls : c.sid # s) => idp[s] = session[s].token
    /\ \A c \in calls : c.sid = s =>
         /\ c.token = session[s].token
         /\ c.answer = "none" => idp[s] = c.token
         /\ c.answer = "tokens" => idp[s] = c.token + 1
         /\ c.answer = "revoked" => ~grant
         /\ c.answer # "outage"

SessionsInv == SessionsTypes /\ Fresh /\ LoginsFresh /\ OneCall /\ InStep

-----------------------------------------------------------------------------
\* The ways a session changes.
LEMMA EndFacts ==
  ASSUME SessionsTypes, NEW ss \in SUBSET Sid, End(ss)
  PROVE  /\ session' \in [Sid -> SessionRow]
         /\ \A s \in Sid : IF s \in ss /\ Live(s)
              THEN session'[s].state = "ended"
              ELSE session'[s] = session[s]
  <1>1. \A s \in Sid : [session[s] EXCEPT !.state = "ended"] \in SessionRow
                       /\ [session[s] EXCEPT !.state = "ended"].state = "ended"
    BY DEF SessionsTypes, SessionRow
  <1> QED
    BY <1>1 DEF End, SessionsTypes

\* What the answer to a refresh changes.
LEMMA AnsweredFacts ==
  ASSUME SessionsTypes, NEW c \in calls,
         NEW a \in {"none", "tokens", "revoked", "outage"}, Answered(c, a)
  PROVE  /\ calls' \subseteq CallRecord
         /\ \E d \in CallRecord : /\ d.sid = c.sid /\ d.token = c.token /\ d.answer = a
                                  /\ calls' = (calls \ {c}) \cup {d}
<1> DEFINE d == [c EXCEPT !.answer = a]
<1>1. d \in CallRecord /\ d.sid = c.sid /\ d.token = c.token /\ d.answer = a
  BY DEF SessionsTypes, CallRecord
<1>2. calls' = (calls \ {c}) \cup {d}
  BY DEF Answered
<1> QED
  BY <1>1, <1>2 DEF SessionsTypes

\* No session exists at the start.
THEOREM SessionsInvInit == SessionsInit => SessionsInv
BY DEF SessionsInit, SessionsInv, SessionsTypes, Fresh, LoginsFresh, OneCall, InStep, Live,
   Unused, SessionRow

\* Whatever ends sessions, and leaves the rest alone, is harmless.
LEMMA EndingKeepsInv ==
  ASSUME SessionsInv, NEW ss \in SUBSET Sid, End(ss),
         logins' \subseteq logins, calls' = calls \/ (ss = Sid /\ calls' = {}),
         UNCHANGED <<idp, lost>>, grant' \in BOOLEAN, grant' => grant
  PROVE  SessionsInv'
<1>1. /\ session' \in [Sid -> SessionRow]
      /\ \A s \in Sid : IF s \in ss /\ Live(s)
           THEN session'[s].state = "ended"
           ELSE session'[s] = session[s]
  BY EndFacts DEF SessionsInv
<1>2. \A s \in Sid : /\ session'[s].state = "unused" <=> session[s].state = "unused"
                     /\ session'[s].state = "unused" => session'[s] = session[s]
                     /\ session'[s].state = "live" =>
                          session'[s] = session[s] /\ (ss = Sid => FALSE)
  BY <1>1 DEF Live
<1>3. SessionsTypes' /\ Fresh' /\ LoginsFresh' /\ OneCall'
  BY <1>1, <1>2 DEF SessionsInv, SessionsTypes, Fresh, LoginsFresh, OneCall
<1>4. InStep'
  BY <1>2 DEF SessionsInv, SessionsTypes, InStep, Live
<1> QED
  BY <1>3, <1>4 DEF SessionsInv

\* A login opens a session of its own.
LEMMA LoginKeepsInv ==
  ASSUME SessionsInv, NEW s \in Sid, Callback(s) \/ EstablishSession(s) \/ TokenExpires(s)
  PROVE  SessionsInv'
<1>1. CASE Callback(s)
  <2>1. UNCHANGED <<session, calls, idp, grant, lost>> /\ logins' = logins \cup {s}
        /\ session[s].state = "unused"
    BY <1>1 DEF Callback, AtProvider, Ghosts, Unused
  <2> QED
    BY <2>1 DEF SessionsInv, SessionsTypes, Fresh, LoginsFresh, OneCall, InStep, Live
<1>2. CASE EstablishSession(s)
  <2>1. /\ session' = [session EXCEPT ![s] = [session[s] EXCEPT !.state = "live"]]
        /\ logins' = logins \ {s} /\ s \in logins
        /\ UNCHANGED <<calls, idp, grant, lost>>
    BY <1>2 DEF EstablishSession, AtProvider, Ghosts
  <2>2. [session[s] EXCEPT !.state = "live"] \in SessionRow
        /\ [session[s] EXCEPT !.state = "live"].state = "live"
        /\ [session[s] EXCEPT !.state = "live"].token = session[s].token
    BY DEF SessionsInv, SessionsTypes, SessionRow
  <2>3. /\ session' \in [Sid -> SessionRow]
        /\ session'[s].state = "live" /\ session'[s].token = session[s].token
        /\ \A r \in Sid : r # s => session'[r] = session[r]
    BY <2>1, <2>2 DEF SessionsInv, SessionsTypes
  <2>4. session[s].token = 0 /\ idp[s] = 0 /\ \A c \in calls : c.sid # s
    BY <2>1 DEF SessionsInv, LoginsFresh, Fresh
  <2> QED
    BY <2>1, <2>3, <2>4
    DEF SessionsInv, SessionsTypes, Fresh, LoginsFresh, OneCall, InStep, Live
<1>3. CASE TokenExpires(s)
  <2>1. /\ session' = [session EXCEPT ![s] = [session[s] EXCEPT !.expired = TRUE]]
        /\ UNCHANGED <<logins, calls, idp, grant, lost>>
    BY <1>3 DEF TokenExpires, AtProvider, Ghosts
  <2>2. [session[s] EXCEPT !.expired = TRUE] \in SessionRow
        /\ [session[s] EXCEPT !.expired = TRUE].state = session[s].state
        /\ [session[s] EXCEPT !.expired = TRUE].token = session[s].token
    BY DEF SessionsInv, SessionsTypes, SessionRow
  <2>3. /\ session' \in [Sid -> SessionRow]
        /\ \A r \in Sid : /\ session'[r].state = session[r].state
                          /\ session'[r].token = session[r].token
    BY <2>1, <2>2 DEF SessionsInv, SessionsTypes
  <2> QED
    BY <2>1, <2>3
    DEF SessionsInv, SessionsTypes, Fresh, LoginsFresh, OneCall, InStep, Live
<1> QED
  BY <1>1, <1>2, <1>3

\* Starting a refresh keeps the invariant.
LEMMA RefreshKeepsInv ==
  ASSUME SessionsInv, NEW s \in Sid, Refresh(s)
  PROVE  SessionsInv'
<1> DEFINE c == Call(s, "none")
<1>1. /\ Live(s) /\ \A d \in calls : d.sid # s
      /\ calls' = calls \cup {c}
      /\ UNCHANGED <<session, logins, idp, grant, lost>>
  BY DEF Refresh, AtProvider, Ghosts
<1>2. c \in CallRecord /\ c.sid = s /\ c.token = session[s].token /\ c.answer = "none"
  BY DEF Call, CallRecord, SessionsInv, SessionsTypes, SessionRow
<1> HIDE DEF c
<1>3. SessionsTypes' /\ Fresh' /\ LoginsFresh' /\ OneCall'
  BY <1>1, <1>2 DEF SessionsInv, SessionsTypes, Fresh, LoginsFresh, OneCall, Live
<1>4. InStep'
  BY <1>1, <1>2 DEF SessionsInv, SessionsTypes, InStep, Live
<1> QED
  BY <1>3, <1>4 DEF SessionsInv

\* The provider answers a refresh.
LEMMA AnswerKeepsInv ==
  ASSUME SessionsInv, NEW c \in calls, ProviderAnswers(c) \/ AnswerLost(c)
  PROVE  SessionsInv'
<1>1. c.sid \in Sid /\ c.token \in Nat /\ UNCHANGED <<session, logins, grant>>
  BY DEF SessionsInv, SessionsTypes, CallRecord, ProviderAnswers, AnswerLost, AtProvider
<1>2. ASSUME NEW a \in {"none", "tokens", "revoked", "outage"}, Answered(c, a),
             idp' \in [Sid -> Nat], \A s \in Sid : s # c.sid => idp'[s] = idp[s],
             session[c.sid].state # "unused",
             lost \subseteq lost', lost' \subseteq Sid,
             c.sid \notin lost' /\ Live(c.sid) =>
                /\ a = "none" => idp'[c.sid] = c.token
                /\ a = "tokens" => idp'[c.sid] = c.token + 1
                /\ a = "revoked" => ~grant
                /\ a # "outage"
      PROVE  SessionsInv'
  <2>1. PICK d \in CallRecord : /\ d.sid = c.sid /\ d.token = c.token /\ d.answer = a
                                /\ calls' = (calls \ {c}) \cup {d}
    BY <1>2, AnsweredFacts DEF SessionsInv
  <2>2. \A e \in calls \ {c} : e.sid # c.sid
    BY DEF SessionsInv, OneCall
  <2>3. SessionsTypes' /\ Fresh' /\ LoginsFresh' /\ OneCall'
    BY <1>1, <1>2, <2>1, <2>2
    DEF SessionsInv, SessionsTypes, Fresh, LoginsFresh, OneCall
  <2>4. InStep'
    BY <1>1, <1>2, <2>1, <2>2 DEF SessionsInv, SessionsTypes, InStep, Live
  <2> QED
    BY <2>3, <2>4 DEF SessionsInv
<1>3. session[c.sid].state # "unused"
  BY <1>1 DEF SessionsInv, Fresh
<1>4. CASE ProviderAnswers(c) /\ grant /\ idp[c.sid] = c.token
  <2>1. Answered(c, "tokens") /\ idp' = [idp EXCEPT ![c.sid] = @ + 1] /\ UNCHANGED lost
    BY <1>4 DEF ProviderAnswers, Ghosts
  <2> QED
    BY <1>1, <1>2, <1>3, <1>4, <2>1 DEF SessionsInv, SessionsTypes
<1>5. CASE ProviderAnswers(c) /\ ~(grant /\ idp[c.sid] = c.token)
  <2>1. Answered(c, "revoked") /\ UNCHANGED <<idp, lost>> /\ c.answer = "none"
    BY <1>5 DEF ProviderAnswers, Ghosts
  <2>2. Live(c.sid) /\ c.sid \notin lost => ~grant
    BY <1>1, <1>5, <2>1 DEF SessionsInv, InStep
  <2> QED
    BY <1>1, <1>2, <1>3, <2>1, <2>2 DEF SessionsInv, SessionsTypes
<1>6. CASE AnswerLost(c)
  <2>1. Answered(c, "outage") /\ UNCHANGED idp /\ lost' = lost \cup {c.sid}
    BY <1>6 DEF AnswerLost, AtProvider
  <2> QED
    BY <1>1, <1>2, <1>3, <2>1 DEF SessionsInv, SessionsTypes
<1> QED
  BY <1>4, <1>5, <1>6

\* The end of a call keeps the invariant.
LEMMA CallEndsKeepsInv ==
  ASSUME SessionsInv, NEW c \in calls, Refreshed(c) \/ Revoked(c) \/ Transient(c)
  PROVE  SessionsInv'
<1>1. c.sid \in Sid /\ c.token \in Nat /\ calls' = calls \ {c} /\ c \in CallRecord
      /\ UNCHANGED <<logins, idp, grant, lost>>
  BY DEF SessionsInv, SessionsTypes, CallRecord, Refreshed, Revoked, Transient, AtProvider,
     Ghosts
<1>2. (\A e \in calls' : e.sid # c.sid) /\ session[c.sid].state # "unused"
  BY <1>1 DEF SessionsInv, OneCall, Fresh
<1>3. ASSUME session' \in [Sid -> SessionRow],
             \A s \in Sid : s # c.sid => session'[s] = session[s],
             session'[c.sid].state # "unused",
             session'[c.sid].state = "live" /\ c.sid \notin lost =>
                idp[c.sid] = session'[c.sid].token
      PROVE  SessionsInv'
  <2>1. SessionsTypes' /\ Fresh' /\ OneCall'
    BY <1>1, <1>2, <1>3 DEF SessionsInv, SessionsTypes, Fresh, OneCall
  <2>2. LoginsFresh'
    BY <1>1, <1>2, <1>3 DEF SessionsInv, SessionsTypes, LoginsFresh
  <2>3. InStep'
    BY <1>1, <1>2, <1>3 DEF SessionsInv, SessionsTypes, InStep, Live
  <2> QED
    BY <2>1, <2>2, <2>3 DEF SessionsInv
<1>4. CASE Refreshed(c)
  <2>1. CASE ~Live(c.sid)
    BY <1>1, <1>2, <1>3, <1>4, <2>1
    DEF Refreshed, UpdateTokens, SessionsInv, SessionsTypes, Live
  <2>2. CASE Live(c.sid)
    <3> DEFINE x == [session[c.sid] EXCEPT !.token = c.token + 1, !.expired = FALSE]
    <3>1. session' = [session EXCEPT ![c.sid] = x]
      BY <1>4, <2>2 DEF Refreshed, UpdateTokens
    <3>2. x \in SessionRow /\ x.state = "live" /\ x.token = c.token + 1
      <4>1. session[c.sid] \in SessionRow /\ c.token + 1 \in Nat
        BY <1>1 DEF SessionsInv, SessionsTypes
      <4>2. x \in SessionRow
        BY <4>1 DEF SessionRow
      <4>3. x.state = "live" /\ x.token = c.token + 1
        BY <2>2, <4>1 DEF SessionRow, Live
      <4> QED
        BY <4>2, <4>3
    <3> HIDE DEF x
    <3>3. /\ session' \in [Sid -> SessionRow] /\ session'[c.sid] = x
          /\ \A s \in Sid : s # c.sid => session'[s] = session[s]
      BY <1>1, <3>1, <3>2 DEF SessionsInv, SessionsTypes
    <3>4. c.sid \notin lost => idp[c.sid] = c.token + 1
      BY <1>1, <1>4, <2>2 DEF SessionsInv, InStep, Refreshed
    <3> QED
      BY <1>3, <3>2, <3>3, <3>4
  <2> QED
    BY <2>1, <2>2
<1>5. CASE Revoked(c)
  <2>1. /\ session' \in [Sid -> SessionRow]
        /\ \A s \in Sid : IF s = c.sid /\ Live(s)
             THEN session'[s].state = "ended"
             ELSE session'[s] = session[s]
    BY <1>1, <1>5, EndFacts DEF Revoked, SessionsInv
  <2> QED
    BY <1>1, <1>2, <1>3, <2>1 DEF Live
<1>6. CASE Transient(c)
  <2>1. UNCHANGED session /\ c.answer = "outage"
    BY <1>6 DEF Transient
  <2> QED
    BY <1>1, <1>2, <1>3, <2>1 DEF SessionsInv, SessionsTypes, InStep, Live
<1> QED
  BY <1>4, <1>5, <1>6

\* Revocation, logout and expiry keep it.
LEMMA KillKeepsInv ==
  ASSUME SessionsInv,
         \/ \E s \in Sid : Logout(s)
         \/ EndAll \/ LockUser \/ Offboard \/ Redelivered \/ Restart
  PROVE  SessionsInv'
<1>1. CASE \E s \in Sid : Logout(s)
  BY <1>1, EndingKeepsInv DEF Logout, AtProvider, Ghosts, SessionsInv, SessionsTypes
<1>2. CASE EndAll
  BY <1>2, EndingKeepsInv DEF EndAll, AtProvider, Ghosts, SessionsInv, SessionsTypes
<1>3. CASE DeliverEvent /\ ~processed
  BY <1>3, EndingKeepsInv DEF DeliverEvent, AtProvider, Ghosts, SessionsInv, SessionsTypes
<1>4. CASE Restart
  <2>1. End(Sid) /\ logins' \subseteq logins /\ calls' = {} /\ UNCHANGED <<idp, grant, lost>>
    BY <1>4 DEF Restart, AtProvider, Ghosts
  <2> QED
    BY <2>1, EndingKeepsInv DEF SessionsInv, SessionsTypes
<1>5. CASE \/ LockUser \/ (DeliverEvent /\ processed)
           \/ SetStatus \/ MarkProcessed \/ Redelivered
  <2>1. UNCHANGED <<session, logins, calls, idp, lost>>
    <3>1. CASE DeliverEvent /\ processed
      BY <3>1, Zenon DEF DeliverEvent, AtProvider, Ghosts
    <3>2. CASE LockUser \/ SetStatus \/ MarkProcessed \/ Redelivered
      BY <3>2, Zenon DEF LockUser, SetStatus, MarkProcessed, Redelivered, AtProvider, Ghosts
    <3> QED
      BY <1>5, <3>1, <3>2, Zenon
  <2>2. grant' = FALSE \/ grant' = grant
    BY <1>5, Zenon DEF LockUser, DeliverEvent, SetStatus, MarkProcessed, Redelivered, AtProvider
  <2> QED
    <3>1. grant' => grant
      BY <2>2, Zenon
    <3>2. SessionsTypes'
      BY <2>1, <2>2, Zenon DEF SessionsInv, SessionsTypes
    <3>3. Fresh' /\ LoginsFresh' /\ OneCall' /\ InStep'
      BY <2>1, <3>1 DEF SessionsInv, Fresh, LoginsFresh, OneCall, InStep, Live
    <3> QED
      BY <3>2, <3>3 DEF SessionsInv
<1>6. CASE DeliverEvent
  BY <1>3, <1>5, <1>6, Zenon
<1> QED
  BY <1>1, <1>2, <1>4, <1>5, <1>6, Zenon DEF Offboard

\* The invariant is inductive.
THEOREM SessionsInvStep == SessionsInv /\ [SessionsNext]_sessionVars => SessionsInv'
<1> SUFFICES ASSUME SessionsInv, [SessionsNext]_sessionVars PROVE SessionsInv'
  OBVIOUS
<1>1. ASSUME NEW s \in Sid, \/ Callback(s) \/ EstablishSession(s) \/ TokenExpires(s)
                            \/ Refresh(s)
      PROVE  SessionsInv'
  BY <1>1, LoginKeepsInv, RefreshKeepsInv
<1>2. ASSUME NEW c \in calls, HandleCall(c) \/ AnswerLost(c)
      PROVE  SessionsInv'
  BY <1>2, AnswerKeepsInv, CallEndsKeepsInv DEF HandleCall
<1>3. CASE UNCHANGED sessionVars
  BY <1>3 DEF sessionVars, SessionsInv, SessionsTypes, Fresh, LoginsFresh, OneCall, InStep,
     Live
<1> QED
  BY <1>1, <1>2, <1>3, KillKeepsInv DEF SessionsNext

\* It holds in every state of the specification.
LEMMA SessionsInvAlways == SessionsSpec => []SessionsInv
  BY SessionsInvInit, SessionsInvStep, PTL DEF SessionsSpec

-----------------------------------------------------------------------------
\* No step brings a revoked session back.
LEMMA EndedStepStaysEnded ==
  ASSUME SessionsInv, [SessionsNext]_sessionVars, NEW s \in Sid, session[s].state = "ended"
  PROVE  session'[s].state = "ended"
<1>1. ASSUME NEW ss \in SUBSET Sid, End(ss) PROVE session'[s].state = "ended"
  BY <1>1, EndFacts DEF SessionsInv, Live
<1>2. CASE \E r \in Sid : EstablishSession(r) \/ TokenExpires(r)
  <2>1. PICK r \in Sid : EstablishSession(r) \/ TokenExpires(r)
    BY <1>2
  <2>2. r # s
    BY <2>1 DEF EstablishSession, TokenExpires, SessionsInv, LoginsFresh, Live
  <2> QED
    BY <2>1, <2>2 DEF EstablishSession, TokenExpires, SessionsInv, SessionsTypes
<1>3. CASE \E c \in calls : Refreshed(c)
  <2>1. PICK c \in calls : Refreshed(c)
    BY <1>3
  <2> QED
    BY <2>1 DEF Refreshed, UpdateTokens, Live, SessionsInv, SessionsTypes
<1>4. CASE \E c \in calls : Revoked(c)
  <2>1. PICK c \in calls : Revoked(c)
    BY <1>4
  <2>2. c.sid \in Sid
    BY DEF SessionsInv, SessionsTypes, CallRecord
  <2> QED
    BY <1>1, <2>1, <2>2 DEF Revoked
<1>5. CASE \/ \E r \in Sid : Logout(r)
           \/ EndAll \/ DeliverEvent \/ Restart
  BY <1>1, <1>5 DEF Logout, EndAll, DeliverEvent, Restart
<1>6. CASE \/ \E r \in Sid : Callback(r) \/ Refresh(r)
           \/ \E c \in calls : ProviderAnswers(c) \/ Transient(c) \/ AnswerLost(c)
           \/ LockUser \/ SetStatus \/ MarkProcessed \/ Redelivered
           \/ UNCHANGED sessionVars
  BY <1>6 DEF Callback, Refresh, ProviderAnswers, Transient, AnswerLost, LockUser, SetStatus,
     MarkProcessed, Redelivered, sessionVars
<1> QED
  BY <1>2, <1>3, <1>4, <1>5, <1>6 DEF SessionsNext, HandleCall, Offboard

\* A session a logout, a kick or a restart has ended does not come back, though a
\* refresh of it may be under way.
THEOREM EndedForGood == SessionsSpec => EndedStaysEnded
<1>1. SessionsInv /\ [SessionsNext]_sessionVars =>
        [\A s \in Sid : session[s].state = "ended" => session'[s].state = "ended"]_sessionVars
  BY EndedStepStaysEnded
<1> QED
  BY <1>1, SessionsInvAlways, PTL DEF SessionsSpec, EndedStaysEnded

\* A refused refresh token is never stored again.
LEMMA RefusedStep ==
  ASSUME SessionsInv, [SessionsNext]_sessionVars, TokenSpentOnce
  PROVE  TokenSpentOnce'
<1>1. CASE \E c \in calls : Revoked(c)
  <2>1. PICK c \in calls : Revoked(c)
    BY <1>1
  <2>2. c.sid \in Sid
    BY DEF SessionsInv, SessionsTypes, CallRecord
  <2>3. grant /\ Live(c.sid) => c.sid \in lost
    BY <2>1, <2>2 DEF Revoked, SessionsInv, InStep
  <2> QED
    BY <2>1, <2>3 DEF Revoked, TokenSpentOnce
<1>2. CASE \E c \in calls : AnswerLost(c)
  BY <1>2 DEF AnswerLost, TokenSpentOnce
<1>3. CASE UNCHANGED <<lost, refused>>
  BY <1>3 DEF TokenSpentOnce
<1>4. \/ \E c \in calls : Revoked(c) \/ AnswerLost(c)
      \/ UNCHANGED <<lost, refused>>
  BY DEF SessionsNext, HandleCall, Offboard, Callback, EstablishSession, TokenExpires, Refresh,
     Logout, ProviderAnswers, Refreshed, Transient, EndAll, LockUser, DeliverEvent, SetStatus,
     MarkProcessed, Redelivered, Restart, Ghosts, sessionVars
<1> QED
  BY <1>1, <1>2, <1>3, <1>4

\* Under a live grant a session is refused only after an answer to it was lost:
\* concurrent requests spend a rotating token once.
THEOREM TokensSpentOnce == SessionsSpec => []TokenSpentOnce
<1>1. SessionsInit => TokenSpentOnce
  BY DEF SessionsInit, TokenSpentOnce
<1> QED
  BY <1>1, RefusedStep, SessionsInvAlways, PTL DEF SessionsSpec

-----------------------------------------------------------------------------
\* No session runs ahead of the provider, and no call is about to bring it there.
TokensBehind ==
  /\ \A s \in Sid : session[s].token \in 0..MaxRotations /\ session[s].token <= idp[s]
  /\ \A c \in calls : /\ c.token < MaxRotations
                      /\ c.answer = "tokens" => c.token + 1 <= idp[c.sid]

DeliveryTypes ==
  /\ event \in {"none", "sent", "killed", "recorded", "done"}
  /\ userStatus \in {"active", "locked"} /\ outages \in 0..MaxOutages

\* What a step of the sessions does to a token: nothing, or it takes the one the
\* provider has handed out.
LEMMA TokenMoves ==
  ASSUME SessionsInv, TokensBehind, [SessionsNext]_sessionVars
  PROVE  TokensBehind'
<1> USE DEF SessionsInv, SessionsTypes
<1>1. ASSUME UNCHANGED <<session, idp>>, calls' \subseteq calls
      PROVE  TokensBehind'
  BY <1>1 DEF TokensBehind
<1>2. ASSUME NEW ss \in SUBSET Sid, End(ss), UNCHANGED idp, calls' \subseteq calls
      PROVE  TokensBehind'
  <2>1. \A s \in Sid : session'[s].token = session[s].token
    BY <1>2 DEF End, SessionRow
  <2> QED
    BY <1>2, <2>1 DEF TokensBehind
<1>3. ASSUME NEW s \in Sid, Refresh(s) PROVE TokensBehind'
  BY <1>3 DEF Refresh, Call, AtProvider, TokensBehind
<1>4. ASSUME NEW s \in Sid, EstablishSession(s) \/ TokenExpires(s) PROVE TokensBehind'
  <2>1. \A x \in Sid : session'[x].token = session[x].token
    BY <1>4 DEF EstablishSession, TokenExpires, SessionRow
  <2>2. UNCHANGED <<idp, calls>>
    BY <1>4 DEF EstablishSession, TokenExpires, AtProvider
  <2> QED
    BY <2>1, <2>2 DEF TokensBehind
<1>5. ASSUME NEW c \in calls, ProviderAnswers(c) PROVE TokensBehind'
  <2>1. c.sid \in Sid /\ c.token \in Nat /\ UNCHANGED session
    BY <1>5 DEF CallRecord, ProviderAnswers
  <2>2. CASE grant /\ idp[c.sid] = c.token
    <3>1. /\ idp' = [idp EXCEPT ![c.sid] = @ + 1]
          /\ calls' = (calls \ {c}) \cup {[c EXCEPT !.answer = "tokens"]}
      BY <1>5, <2>2 DEF ProviderAnswers, Answered
    <3>2. \A s \in Sid : idp[s] <= idp'[s]
      BY <2>1, <3>1
    <3> QED
      BY <2>1, <2>2, <3>1, <3>2 DEF TokensBehind, CallRecord, SessionRow
  <2>3. CASE ~(grant /\ idp[c.sid] = c.token)
    <3>1. UNCHANGED idp /\ calls' = (calls \ {c}) \cup {[c EXCEPT !.answer = "revoked"]}
      BY <1>5, <2>3 DEF ProviderAnswers, Answered
    <3> QED
      BY <2>1, <3>1 DEF TokensBehind, CallRecord
  <2> QED
    BY <2>2, <2>3
<1>6. ASSUME NEW c \in calls, AnswerLost(c) PROVE TokensBehind'
  BY <1>6 DEF AnswerLost, Answered, AtProvider, TokensBehind, CallRecord
<1>7. ASSUME NEW c \in calls, Refreshed(c) PROVE TokensBehind'
  <2>1. /\ c.sid \in Sid /\ c.token \in Nat /\ c.answer = "tokens"
        /\ UNCHANGED idp /\ calls' \subseteq calls
    BY <1>7 DEF CallRecord, Refreshed, AtProvider
  <2>2. \A s \in Sid : \/ session'[s].token = session[s].token
                       \/ s = c.sid /\ session'[s].token = c.token + 1
    BY <1>7, <2>1 DEF Refreshed, UpdateTokens, SessionRow
  <2>3. c.token + 1 \in 0..MaxRotations /\ c.token + 1 <= idp[c.sid]
    BY <2>1, SessionsAssumption DEF TokensBehind
  <2> QED
    BY <2>1, <2>2, <2>3 DEF TokensBehind
<1>8. CASE \/ \E s \in Sid : Callback(s)
           \/ \E c \in calls : Transient(c)
           \/ LockUser \/ SetStatus \/ MarkProcessed \/ Redelivered
           \/ UNCHANGED sessionVars
  BY <1>1, <1>8 DEF Callback, Transient, LockUser, SetStatus, MarkProcessed, Redelivered,
     AtProvider, sessionVars
<1>9. CASE \/ \E s \in Sid : Logout(s)
           \/ \E c \in calls : Revoked(c)
           \/ EndAll \/ Restart
  BY <1>2, <1>9 DEF Logout, Revoked, EndAll, Restart, AtProvider, CallRecord
<1>10. CASE DeliverEvent
  BY <1>1, <1>2, <1>10 DEF DeliverEvent, AtProvider
<1> QED
  BY <1>3, <1>4, <1>5, <1>6, <1>7, <1>8, <1>9, <1>10 DEF SessionsNext, HandleCall, Offboard

\* The sessions keep to their types, and none of them has a token the provider has
\* not handed out.
THEOREM SessionsTypeCorrect == SessionsSpec => []SessionsTypeOK
<1>1. SessionsInit => TokensBehind /\ DeliveryTypes
  BY SessionsAssumption DEF SessionsInit, Unused, TokensBehind, DeliveryTypes
<1>2. SessionsInv /\ TokensBehind /\ [SessionsNext]_sessionVars => TokensBehind'
  BY TokenMoves
<1>3. DeliveryTypes /\ [SessionsNext]_sessionVars => DeliveryTypes'
  <2> SUFFICES ASSUME DeliveryTypes, [SessionsNext]_sessionVars PROVE DeliveryTypes'
    OBVIOUS
  <2>1. outages' = outages \/ Outage
    BY DEF SessionsNext, HandleCall, Offboard, Callback, EstablishSession, TokenExpires, Refresh,
       Logout, ProviderAnswers, Refreshed, Revoked, Transient, AnswerLost, EndAll, LockUser,
       DeliverEvent, SetStatus, MarkProcessed, Redelivered, Restart, sessionVars
  <2>2. outages' \in 0..MaxOutages
    BY <2>1, SessionsAssumption DEF Outage, DeliveryTypes
  <2>3. /\ event' \in {"none", "sent", "killed", "recorded", "done"}
        /\ userStatus' \in {"active", "locked"}
    BY DEF DeliveryTypes, SessionsNext, HandleCall, Offboard, Callback, EstablishSession,
       TokenExpires, Refresh, Logout, ProviderAnswers, Refreshed, Revoked, Transient, AnswerLost,
       EndAll, LockUser, DeliverEvent, SetStatus, MarkProcessed, Redelivered, Restart,
       Webhook, sessionVars
  <2> QED
    BY <2>2, <2>3 DEF DeliveryTypes
<1>4. SessionsInv /\ TokensBehind /\ DeliveryTypes => SessionsTypeOK
  BY DEF SessionsInv, SessionsTypes, SessionRow, OneCall, TokensBehind, DeliveryTypes,
     SessionsTypeOK
<1> QED
  BY <1>1, <1>2, <1>3, <1>4, SessionsInvAlways, PTL DEF SessionsSpec

-----------------------------------------------------------------------------
(***************************************************************************)
(* The appointments.                                                       *)
(***************************************************************************)
Role == {"Admin", "Applicant", "DCC1", "DCC2", "DCC3"}
ToastRecord == [target : Sub \cup {"none"}, roles : SUBSET Role]
ChangeRecord == [author : Sub, target : Sub, roles : SUBSET Role, was : SUBSET Role]

RolesTypes ==
  /\ roles \in [Sub -> SUBSET Role]
  /\ console \in [Sub -> [Sub -> SUBSET Role]]
  /\ toast \in [Sub -> ToastRecord]
  /\ changes \subseteq ChangeRecord
  /\ begun \in Nat

\* At most one group among these roles.
OneGroup(rs) == \A x, y \in rs \cap Managed : x = y

\* Those whom only consoles appoint.
Appointed == Sub \ (ByEmail \cup {LocalAdmin})

\* Wherever roles of an appointed user are kept or on their way, they are of one
\* group: the table, the lists of the consoles, their toasts, the changes begun.
GroupsApart ==
  /\ \A u \in Appointed : OneGroup(roles[u])
  /\ \A a \in Sub, u \in Appointed : OneGroup(console[a][u])
  /\ \A a \in Sub : toast[a].target \in Appointed => OneGroup(toast[a].roles)
  /\ \A q \in changes : q.target \in Appointed => OneGroup(q.roles) /\ OneGroup(q.was)

\* A toast names somebody, and no change strips its own author.
ToastsNamed == \A a \in Sub : toast[a] # NoToast => toast[a].target \in Sub
NoSelfStrip == \A q \in changes : q.author = q.target => "Admin" \in q.roles

RolesInv == RolesTypes /\ GroupsApart /\ ToastsNamed /\ NoSelfStrip

-----------------------------------------------------------------------------
\* The managed roles are roles.
LEMMA ManagedRoles == Managed \subseteq Role
BY RolesAssumption DEF Managed, Role

\* Whoever acts as Admin holds the role: the fallback picks it only for a user
\* who holds nothing else.
LEMMA ActingAdminIsAdmin ==
  ASSUME RolesTypes, NEW u \in Sub, ActiveRole(u) = "Admin"
  PROVE  u \in Admins
<1> DEFINE held == EffectiveRoles(roles[u])
           Other(i) == AllRoles[i] \in held \ {"Admin"}
           Least(i) == Other(i) /\ \A j \in 1..(i - 1) : ~Other(j)
<1>1. /\ held \subseteq Role /\ held # {}
      /\ "Admin" \in held => "Admin" \in roles[u]
  BY DEF RolesTypes, Role, EffectiveRoles
<1>2. SUFFICES "Admin" \in held
  BY <1>1 DEF Admins
<1>3. CASE remembered[u] \in held
  BY <1>3 DEF ActiveRole, ResolveActiveRole
<1>4. CASE held \subseteq {"Admin"}
  BY <1>4, <1>1
<1>5. CASE ~(held \subseteq {"Admin"}) /\ remembered[u] \notin held
  <2>1. \E i \in 1..5 : Other(i)
    <3>1. PICK r \in held : r # "Admin"
      BY <1>5
    <3>2. \E i \in 1..5 : AllRoles[i] = r
      BY <3>1, <1>1 DEF AllRoles, Role
    <3> QED
      BY <3>1, <3>2
  <2>2. \E i \in 1..5 : Least(i)
    <3> HIDE DEF Other
    <3>1. CASE Other(1)
      BY <3>1
    <3>2. CASE ~Other(1) /\ Other(2)
      BY <3>2
    <3>3. CASE ~Other(1) /\ ~Other(2) /\ Other(3)
      <4>1. \A j \in 1..(3 - 1) : j = 1 \/ j = 2
        OBVIOUS
      <4> QED
        BY <3>3, <4>1
    <3>4. CASE ~Other(1) /\ ~Other(2) /\ ~Other(3) /\ Other(4)
      <4>1. \A j \in 1..(4 - 1) : j = 1 \/ j = 2 \/ j = 3
        OBVIOUS
      <4> QED
        BY <3>4, <4>1
    <3>5. CASE ~Other(1) /\ ~Other(2) /\ ~Other(3) /\ ~Other(4) /\ Other(5)
      <4>1. \A j \in 1..(5 - 1) : j = 1 \/ j = 2 \/ j = 3 \/ j = 4
        OBVIOUS
      <4> QED
        BY <3>5, <4>1
    <3>6. \A i \in 1..5 : i = 1 \/ i = 2 \/ i = 3 \/ i = 4 \/ i = 5
      OBVIOUS
    <3> QED
      BY <2>1, <3>1, <3>2, <3>3, <3>4, <3>5, <3>6
  <2>3. Least(CHOOSE i \in 1..5 : Least(i))
    <3> HIDE DEF Least
    <3> QED
      BY <2>2
  <2>4. ActiveRole(u) = AllRoles[CHOOSE i \in 1..5 : Least(i)]
    BY <1>5 DEF ActiveRole, ResolveActiveRole
  <2>5. ActiveRole(u) \in held \ {"Admin"}
    BY <2>3, <2>4
  <2> QED
    BY <2>5
<1> QED
  BY <1>3, <1>4, <1>5

\* At most one group, counted.
LEMMA OneGroupCounted ==
  ASSUME NEW rs, OneGroup(rs)
  PROVE  Cardinality(rs \cap Managed) <= 1
<1>1. CASE rs \cap Managed = {}
  BY <1>1, FS_EmptySet
<1>2. CASE rs \cap Managed # {}
  <2>1. PICK x \in rs \cap Managed : TRUE
    BY <1>2
  <2>2. rs \cap Managed = {x}
    BY <2>1 DEF OneGroup
  <2> QED
    BY <2>2, FS_Singleton
<1> QED
  BY <1>1, <1>2

\* A request past its guards is one change more, by somebody who acts as Admin.
LEMMA PutFacts ==
  ASSUME RolesInv, NEW a \in Sub, NEW u \in Sub,
         NEW new \in SUBSET Role, NEW was \in SUBSET Role, Put(a, u, new, was)
  PROVE  \E q \in ChangeRecord :
           /\ q.author = a /\ q.target = u /\ q.roles = new /\ q.was = was
           /\ changes' = changes \cup {q} /\ begun' \in Nat
           /\ a = u => "Admin" \in new
           /\ a \in Admins
<1> DEFINE q == [author |-> a, target |-> u, roles |-> new, was |-> was]
<1>1. q \in ChangeRecord /\ q.author = a /\ q.target = u /\ q.roles = new /\ q.was = was
  BY DEF ChangeRecord
<1>2. changes' = changes \cup {q} /\ begun' \in Nat /\ (a = u => "Admin" \in new)
  BY DEF Put, AssertNotSelfLockout, RolesInv, RolesTypes
<1>3. a \in Admins
  BY ActingAdminIsAdmin DEF Put, RolesInv
<1> QED
  BY <1>1, <1>2, <1>3

\* What a change may carry for the invariant to last.
LEMMA PutKeepsInv ==
  ASSUME RolesInv, NEW a \in Sub, NEW u \in Sub,
         NEW new \in SUBSET Role, NEW was \in SUBSET Role, Put(a, u, new, was),
         u \in Appointed => OneGroup(new) /\ OneGroup(was),
         UNCHANGED <<roles, console>>,
         toast' = toast \/ toast' = [toast EXCEPT ![a] = NoToast]
  PROVE  RolesInv'
<1>1. PICK q \in ChangeRecord :
           /\ q.author = a /\ q.target = u /\ q.roles = new /\ q.was = was
           /\ changes' = changes \cup {q} /\ begun' \in Nat
           /\ a = u => "Admin" \in new
           /\ a \in Admins
  BY PutFacts
<1>3. /\ toast' \in [Sub -> ToastRecord]
      /\ \A b \in Sub : toast'[b] = toast[b] \/ toast'[b] = NoToast
  <2>1. NoToast \in ToastRecord
    BY DEF NoToast, ToastRecord
  <2> QED
    BY <2>1 DEF RolesInv, RolesTypes
<1>4. OneGroup(NoToast.roles)
  BY DEF NoToast, OneGroup
<1>5. RolesTypes'
  BY <1>1, <1>3 DEF RolesInv, RolesTypes
<1>6. GroupsApart'
  <2> USE DEF RolesInv, GroupsApart
  <2>1. \A x \in Appointed : OneGroup(roles'[x])
    OBVIOUS
  <2>2. \A b \in Sub, x \in Appointed : OneGroup(console'[b][x])
    OBVIOUS
  <2>3. \A b \in Sub : toast'[b].target \in Appointed => OneGroup(toast'[b].roles)
    BY <1>3, <1>4
  <2>4. \A p \in changes' : p.target \in Appointed => OneGroup(p.roles) /\ OneGroup(p.was)
    BY <1>1
  <2> QED
    BY <2>1, <2>2, <2>3, <2>4 DEF OneGroup, Appointed
<1>7. ToastsNamed' /\ NoSelfStrip'
  BY <1>1, <1>3 DEF RolesInv, ToastsNamed, NoSelfStrip
<1> QED
  BY <1>5, <1>6, <1>7 DEF RolesInv

-----------------------------------------------------------------------------
\* Administrators at the start are in their one group.
THEOREM RolesInvInit == RolesInit => RolesInv
<1> SUFFICES ASSUME RolesInit
             PROVE  RolesInv
  OBVIOUS
<1>1. RolesTypes
  <2>1. roles \in [Sub -> SUBSET Role] /\ begun \in Nat /\ changes \subseteq ChangeRecord
    BY DEF RolesInit, Role
  <2>2. console \in [Sub -> [Sub -> SUBSET Role]]
    BY <2>1 DEF RolesInit
  <2>3. toast \in [Sub -> ToastRecord]
    BY DEF RolesInit, NoToast, ToastRecord
  <2> QED
    BY <2>1, <2>2, <2>3 DEF RolesTypes
<1>2. GroupsApart
  BY DEF RolesInit, GroupsApart, OneGroup, Appointed, NoToast
<1>3. ToastsNamed /\ NoSelfStrip
  BY DEF RolesInit, ToastsNamed, NoSelfStrip
<1> QED
  BY <1>1, <1>2, <1>3 DEF RolesInv

\* Moving a user leaves the other roles alone and replaces the group.
LEMMA AssignKeepsInv ==
  ASSUME RolesInv, NEW a \in Sub, NEW u \in Sub, NEW to \in Managed, Assign(a, u, to)
  PROVE  RolesInv'
<1> DEFINE new == (console[a][u] \ Managed) \cup {to}
<1>1. new \in SUBSET Role /\ {} \in SUBSET Role
  BY ManagedRoles DEF RolesInv, RolesTypes
<1>2. OneGroup(new) /\ OneGroup({})
  BY DEF OneGroup
<1>3. Put(a, u, new, {}) /\ UNCHANGED <<roles, console, toast>>
  BY DEF Assign
<1> HIDE DEF new
<1> QED
  BY <1>1, <1>2, <1>3, PutKeepsInv

\* A removal leaves no group, and remembers the one there was.
LEMMA RemoveKeepsInv ==
  ASSUME RolesInv, NEW a \in Sub, NEW u \in Sub, Remove(a, u)
  PROVE  RolesInv'
<1> DEFINE new == console[a][u] \ Managed
           was == console[a][u]
<1>1. new \in SUBSET Role /\ was \in SUBSET Role
  BY DEF RolesInv, RolesTypes
<1>2. OneGroup(new) /\ (u \in Appointed => OneGroup(was))
  BY DEF OneGroup, RolesInv, GroupsApart
<1>3. Put(a, u, new, was) /\ UNCHANGED <<roles, console, toast>>
  BY DEF Remove
<1> HIDE DEF new, was
<1> QED
  BY <1>1, <1>2, <1>3, PutKeepsInv

\* A removal undone gives back what its toast kept.
LEMMA UndoRemoveKeepsInv ==
  ASSUME RolesInv, NEW a \in Sub, UndoRemove(a)
  PROVE  RolesInv'
<1>1. toast[a].target \in Sub /\ toast[a].roles \in SUBSET Role /\ {} \in SUBSET Role
  BY DEF UndoRemove, RolesInv, RolesTypes, ToastsNamed, ToastRecord
<1>2. toast[a].target \in Appointed => OneGroup(toast[a].roles) /\ OneGroup({})
  BY DEF OneGroup, RolesInv, GroupsApart
<1>3. /\ Put(a, toast[a].target, toast[a].roles, {}) /\ UNCHANGED <<roles, console>>
      /\ toast' = [toast EXCEPT ![a] = NoToast]
  BY DEF UndoRemove
<1> QED
  BY <1>1, <1>2, <1>3, PutKeepsInv

\* The transaction of a change.
LEMMA SetRolesKeepsInv ==
  ASSUME RolesInv, NEW q \in changes, SetRoles(q)
  PROVE  RolesInv'
<1>1. /\ q \in ChangeRecord /\ q.author \in Sub /\ q.target \in Sub
      /\ q.roles \in SUBSET Role /\ q.was \in SUBSET Role
  BY DEF RolesInv, RolesTypes, ChangeRecord
<1>2. /\ roles' \in [Sub -> SUBSET Role] /\ roles'[q.target] = q.roles
      /\ \A u \in Sub : u # q.target => roles'[u] = roles[u]
  BY <1>1 DEF SetRoles, RolesInv, RolesTypes
<1>3. /\ console' \in [Sub -> [Sub -> SUBSET Role]]
      /\ \A a \in Sub : console'[a] = IF a = q.author THEN roles' ELSE console[a]
  BY <1>1, <1>2 DEF SetRoles, RolesInv, RolesTypes
<1> DEFINE t == [target |-> q.target, roles |-> q.was]
<1>4. t \in ToastRecord /\ t.target = q.target /\ t.roles = q.was
  BY <1>1 DEF ToastRecord
<1>5. /\ toast' \in [Sub -> ToastRecord]
      /\ \A a \in Sub : toast'[a] = toast[a] \/ toast'[a] = t
  <2> HIDE DEF t
  <2>1. toast' = toast \/ toast' = [toast EXCEPT ![q.author] = t]
    BY DEF SetRoles, t
  <2> QED
    BY <2>1, <1>4 DEF RolesInv, RolesTypes
<1> HIDE DEF t
<1>6. changes' \subseteq changes /\ begun' = begun
  BY DEF SetRoles
<1>7. RolesTypes'
  BY <1>2, <1>3, <1>5, <1>6 DEF RolesInv, RolesTypes
<1>8. GroupsApart'
  <2>1. \A u \in Appointed : OneGroup(roles'[u])
    BY <1>2 DEF RolesInv, GroupsApart, Appointed
  <2>2. \A a \in Sub, u \in Appointed : OneGroup(console'[a][u])
    BY <2>1, <1>3 DEF RolesInv, GroupsApart
  <2>3. \A a \in Sub : toast'[a].target \in Appointed => OneGroup(toast'[a].roles)
    BY <1>4, <1>5 DEF RolesInv, GroupsApart
  <2>4. \A p \in changes' : p.target \in Appointed => OneGroup(p.roles) /\ OneGroup(p.was)
    BY <1>6 DEF RolesInv, GroupsApart
  <2> QED
    BY <2>1, <2>2, <2>3, <2>4 DEF GroupsApart, OneGroup, Appointed
<1>9. ToastsNamed'
  BY <1>1, <1>4, <1>5 DEF RolesInv, ToastsNamed
<1>10. NoSelfStrip'
  BY <1>6 DEF RolesInv, NoSelfStrip
<1> QED
  BY <1>7, <1>8, <1>9, <1>10 DEF RolesInv

\* Roles made behind the console's back go to accounts it does not answer for.
LEMMA GrantKeepsInv ==
  ASSUME RolesInv, NEW u \in ByEmail \cup {LocalAdmin}, EnsureRole(u) \/ UNCHANGED roles,
         changes' = changes \/ changes' = {}, UNCHANGED <<console, toast, begun>>
  PROVE  RolesInv'
<1>1. u \in Sub /\ u \notin Appointed
  BY RolesAssumption DEF Appointed
<1>2. /\ roles' \in [Sub -> SUBSET Role]
      /\ \A v \in Sub : v # u => roles'[v] = roles[v]
  BY <1>1 DEF EnsureRole, RolesInv, RolesTypes, Role
<1>3. RolesTypes'
  BY <1>2 DEF RolesInv, RolesTypes
<1>4. GroupsApart'
  <2>1. \A v \in Appointed : OneGroup(roles'[v])
    BY <1>1, <1>2 DEF RolesInv, GroupsApart, Appointed
  <2>2. \A p \in changes' : p \in changes
    OBVIOUS
  <2> QED
    BY <2>1, <2>2 DEF RolesInv, GroupsApart, OneGroup, Appointed
<1>5. ToastsNamed' /\ NoSelfStrip'
  BY DEF RolesInv, ToastsNamed, NoSelfStrip
<1> QED
  BY <1>3, <1>4, <1>5 DEF RolesInv

\* A list loaded shows the table.
LEMMA LoadKeepsInv ==
  ASSUME RolesInv, NEW a \in Sub, Load(a)
  PROVE  RolesInv'
<1>1. /\ console' \in [Sub -> [Sub -> SUBSET Role]]
      /\ \A b \in Sub : console'[b] = IF b = a THEN roles ELSE console[b]
      /\ UNCHANGED <<roles, toast, changes, begun>>
  BY DEF Load, RolesInv, RolesTypes
<1>2. RolesTypes'
  BY <1>1 DEF RolesInv, RolesTypes
<1>3. \A b \in Sub, u \in Appointed : OneGroup(console'[b][u])
  BY <1>1 DEF RolesInv, GroupsApart
<1>4. GroupsApart'
  BY <1>1, <1>3 DEF RolesInv, GroupsApart, OneGroup, Appointed
<1>5. ToastsNamed' /\ NoSelfStrip'
  BY <1>1 DEF RolesInv, ToastsNamed, NoSelfStrip
<1> QED
  BY <1>2, <1>4, <1>5 DEF RolesInv

\* What the invariant says does not depend on anything else.
LEMMA RestKeepsInv ==
  ASSUME RolesInv, UNCHANGED <<roles, console, toast, changes, begun>>
  PROVE  RolesInv'
BY DEF RolesInv, RolesTypes, GroupsApart, ToastsNamed, NoSelfStrip, OneGroup, Appointed

\* Every step keeps the groups apart.
THEOREM RolesInvStep == RolesInv /\ [RolesNext]_rolesVars => RolesInv'
<1> SUFFICES ASSUME RolesInv, [RolesNext]_rolesVars
             PROVE  RolesInv'
  OBVIOUS
<1>1. ASSUME NEW u \in Sub, NEW r \in Managed, SetActiveRole(u, r)
      PROVE  RolesInv'
  BY <1>1, RestKeepsInv DEF SetActiveRole
<1>2. ASSUME NEW u \in Sub, Login(u)
      PROVE  RolesInv'
  <2>1. CASE u \in ByEmail
    BY <1>2, <2>1, GrantKeepsInv DEF Login
  <2>2. CASE u \notin ByEmail
    BY <1>2, <2>2, RestKeepsInv DEF Login
  <2> QED
    BY <2>1, <2>2
<1>3. CASE RestartApi
  BY <1>3, GrantKeepsInv DEF RestartApi
<1>4. CASE UNCHANGED rolesVars
  BY <1>4, RestKeepsInv DEF rolesVars
<1> QED
  BY <1>1, <1>2, <1>3, <1>4, LoadKeepsInv, UndoRemoveKeepsInv, RemoveKeepsInv,
     AssignKeepsInv, SetRolesKeepsInv DEF RolesNext

\* The invariant holds in every behaviour.
THEOREM RolesInvAlways == RolesSpec => []RolesInv
BY RolesInvInit, RolesInvStep, PTL DEF RolesSpec

\* Appointed by the console, a person is in one group at most, whatever lists
\* the consoles showed and however their changes crossed.
THEOREM OneGroupEach == RolesSpec => []OneRoleInOneGroup
<1>1. RolesInv => OneRoleInOneGroup
  BY OneGroupCounted DEF RolesInv, GroupsApart, OneRoleInOneGroup, Appointed
<1> QED
  BY <1>1, RolesInvAlways, PTL

-----------------------------------------------------------------------------
\* Only an administrator begins a change, whatever role a session remembers.
THEOREM OnlyAdminsBegin == RolesSpec => RevocationTakesEffect
<1>1. RolesInv /\ [RolesNext]_rolesVars => \A q \in changes' \ changes : q.author \in Admins
  <2> SUFFICES ASSUME RolesInv, [RolesNext]_rolesVars, NEW q \in changes', q \notin changes
               PROVE  q.author \in Admins
    OBVIOUS
  <2>1. ASSUME NEW a \in Sub, NEW u \in Sub, NEW new, NEW was, Put(a, u, new, was)
        PROVE  q.author \in Admins
    <3>1. a \in Admins
      BY <2>1, ActingAdminIsAdmin DEF Put, RolesInv
    <3>2. q = [author |-> a, target |-> u, roles |-> new, was |-> was]
      BY <2>1 DEF Put
    <3> QED
      BY <3>1, <3>2
  <2>2. ASSUME NEW a \in Sub, UndoRemove(a)
        PROVE  q.author \in Admins
    <3>1. toast[a].target \in Sub
      BY <2>2 DEF UndoRemove, RolesInv, ToastsNamed
    <3> QED
      BY <2>1, <2>2, <3>1 DEF UndoRemove
  <2>3. ASSUME NEW a \in Sub, NEW u \in Sub,
               Remove(a, u) \/ \E to \in Managed : Assign(a, u, to)
        PROVE  q.author \in Admins
    BY <2>1, <2>3 DEF Remove, Assign
  <2>4. CASE \E p \in changes : SetRoles(p)
    BY <2>4 DEF SetRoles
  <2>5. ASSUME NEW u \in Sub,
               Load(u) \/ Login(u) \/ \E r \in Managed : SetActiveRole(u, r)
        PROVE  q.author \in Admins
    BY <2>5 DEF Load, Login, SetActiveRole
  <2>6. CASE RestartApi \/ UNCHANGED rolesVars
    BY <2>6 DEF RestartApi, rolesVars
  <2> QED
    BY <2>2, <2>3, <2>4, <2>5, <2>6 DEF RolesNext
<1> QED
  BY <1>1, RolesInvAlways, PTL DEF RolesSpec, RevocationTakesEffect

\* The console loses its last administrator only to a change whose author was
\* one when it began and no longer is: two who demote each other.
THEOREM LastAdminOnlyRaced == RolesSpec => LastAdminFallsToARace
<1>1. RolesInv /\ [RolesNext]_rolesVars =>
        (Admins # {} /\ Admins' = {} =>
           \E q \in changes \ changes' : q.author \notin Admins)
  <2> SUFFICES ASSUME RolesInv, [RolesNext]_rolesVars, Admins # {}, Admins' = {}
               PROVE  \E q \in changes \ changes' : q.author \notin Admins
    OBVIOUS
  <2>1. PICK x \in Sub : "Admin" \in roles[x]
    BY DEF Admins
  <2>2. \A u \in Sub : "Admin" \notin roles'[u]
    BY DEF Admins
  <2>3. ASSUME NEW u \in Sub, EnsureRole(u)
        PROVE  FALSE
    BY <2>2, <2>3 DEF EnsureRole, RolesInv, RolesTypes
  <2>4. ASSUME UNCHANGED roles
        PROVE  FALSE
    BY <2>1, <2>2, <2>4
  <2>5. CASE \E q \in changes : SetRoles(q)
    <3>1. PICK q \in changes : SetRoles(q)
      BY <2>5
    <3>2. /\ q.author \in Sub /\ q.target \in Sub
          /\ roles' = [roles EXCEPT ![q.target] = q.roles] /\ q \notin changes'
      BY <3>1 DEF SetRoles, RolesInv, RolesTypes, ChangeRecord
    <3>3. /\ roles'[q.target] = q.roles
          /\ \A u \in Sub : u # q.target => roles'[u] = roles[u]
      BY <3>2 DEF RolesInv, RolesTypes
    <3>4. "Admin" \notin q.roles /\ x = q.target
      BY <2>1, <2>2, <3>2, <3>3
    <3>5. q.author # q.target
      BY <3>4 DEF RolesInv, NoSelfStrip
    <3>6. q.author \notin Admins
      BY <2>2, <3>2, <3>3, <3>5 DEF Admins
    <3> QED
      BY <3>2, <3>6
  <2>6. ASSUME NEW u \in Sub, Login(u)
        PROVE  FALSE
    BY <2>3, <2>4, <2>6 DEF Login
  <2>7. CASE RestartApi
    BY <2>3, <2>7, RolesAssumption DEF RestartApi
  <2>8. ASSUME NEW u \in Sub,
               Load(u) \/ UndoRemove(u) \/ \E r \in Managed : SetActiveRole(u, r)
        PROVE  FALSE
    BY <2>4, <2>8 DEF Load, UndoRemove, SetActiveRole
  <2>9. ASSUME NEW a \in Sub, NEW u \in Sub,
               Remove(a, u) \/ \E to \in Managed : Assign(a, u, to)
        PROVE  FALSE
    BY <2>4, <2>9 DEF Remove, Assign
  <2>10. CASE UNCHANGED rolesVars
    BY <2>4, <2>10 DEF rolesVars
  <2> QED
    BY <2>5, <2>6, <2>7, <2>8, <2>9, <2>10 DEF RolesNext
<1> QED
  BY <1>1, RolesInvAlways, PTL DEF RolesSpec, LastAdminFallsToARace

-----------------------------------------------------------------------------
(***************************************************************************)
(* The catalogue: a ticket agrees with it on the flow of its type, and its *)
(* type is there, unless the type was deleted while the ticket was written. *)
(***************************************************************************)
RowRecord == [value : TypeValue \cup {NoText}, flow : CatalogueFlow, active : BOOLEAN]
DocRecord == [type : TypeValue \cup {NoText}, flow : CatalogueFlow,
              coded : BOOLEAN, open : BOOLEAN]

Writing(o) == o.kind \in {"create", "edit"} /\ o.doc \in Doc /\ o.value \in TypeValue
Adding(o) == o.kind = "add" /\ o.row \in Row /\ o.value \in TypeValue
Deleting(o) == o.kind = "delete" /\ o.row \in Row

CatalogueTypes ==
  /\ rowOf \in [Row -> RowRecord]
  /\ \A i \in Row : rowOf[i].value = NoText => rowOf[i] = Missing
  /\ doc \in [Doc -> DocRecord]
  /\ \A o \in orders : /\ Writing(o) \/ Adding(o) \/ Deleting(o)
                       /\ o.flow \in CatalogueFlow

\* The catalogue has the type, in that flow.
Has(v, f) == \E i \in Row : rowOf[i].value = v /\ rowOf[i].flow = f

OneRow == \A i, j \in Row : rowOf[i].value = rowOf[j].value /\ rowOf[i].value # NoText => i = j

\* A deletion under way is of the row it has looked at, or of one gone since; a
\* row that is to be added is nobody's yet.
OrdersFit ==
  /\ \A o \in orders : Deleting(o) => /\ o.row \in spent
                                      /\ rowOf[o.row].value \in {o.value, NoText}
  /\ \A o \in orders : Adding(o) =>
       /\ o.row \in spent /\ rowOf[o.row].value = NoText
       /\ \A q \in orders : (Adding(q) \/ Deleting(q)) /\ q.row = o.row => q = o
  /\ \A i \in Row : rowOf[i].value # NoText => i \in spent

\* What a request has resolved still holds, unless its ticket is among the raced.
WritingFits ==
  \A o \in orders : Writing(o) /\ o.doc \notin raced /\ o.value \notin Builtin
                      => Has(o.value, o.flow)

DocsFit ==
  \A d \in Doc : doc[d].type \notin Builtin \cup {NoText} /\ d \notin raced
    => /\ Has(doc[d].type, doc[d].flow)
       /\ \A o \in orders : Deleting(o) => o.value # doc[d].type

CatalogueInv == CatalogueTypes /\ OneRow /\ OrdersFit /\ WritingFits /\ DocsFit

-----------------------------------------------------------------------------
\* The fields of an order keep their types.
LEMMA OrderFields ==
  ASSUME NEW kind, NEW d, NEW i, NEW v, NEW f, NEW o, o = Order(kind, d, i, v, f)
  PROVE  o.kind = kind /\ o.doc = d /\ o.row = i /\ o.value = v /\ o.flow = f
BY DEF Order

\* The invariant holds of the catalogue the seed left.
THEOREM CatalogueInvInit == CatalogueInit => CatalogueInv
<1>1. Missing \in RowRecord /\ Missing.value = NoText
  BY DEF Missing, RowRecord, CatalogueFlow
<1>2. NoDoc \in DocRecord /\ NoDoc.type = NoText
  BY DEF NoDoc, DocRecord, CatalogueFlow
<1> QED
  BY <1>1, <1>2 DEF CatalogueInit, CatalogueInv, CatalogueTypes, OneRow, OrdersFit, WritingFits,
     DocsFit

\* Reading the catalogue for a new option leaves the invariant alone.
LEMMA AddBeginKeepsInv ==
  ASSUME CatalogueInv, NEW v \in TypeValue, NEW f \in CatalogueFlow, NEW i \in Row,
         AddBegin(v, f, i)
  PROVE  CatalogueInv'
<1> DEFINE o == Order("add", NoText, i, v, f)
<1>1. /\ orders' = orders \cup {o} /\ i \notin spent /\ spent' = spent \cup {i}
      /\ UNCHANGED <<rowOf, doc, raced>>
  BY DEF AddBegin, Begin
<1>2. o.kind = "add" /\ o.row = i /\ o.value = v /\ o.flow = f
  BY OrderFields
<1> HIDE DEF o
<1>3. Adding(o) /\ ~Deleting(o) /\ ~Writing(o)
  BY <1>2 DEF Adding, Deleting, Writing
<1>4. CatalogueTypes' /\ OneRow'
  BY <1>1, <1>2, <1>3 DEF CatalogueInv, CatalogueTypes, OneRow
<1>5. OrdersFit'
  BY <1>1, <1>2, <1>3 DEF CatalogueInv, OrdersFit
<1>6. WritingFits' /\ DocsFit'
  BY <1>1, <1>3 DEF CatalogueInv, WritingFits, DocsFit, Has
<1> QED
  BY <1>4, <1>5, <1>6 DEF CatalogueInv

\* An order that leaves, while rows and tickets stay, changes nothing.
LEMMA FewerOrders ==
  ASSUME CatalogueInv, orders' \subseteq orders, raced \subseteq raced',
         UNCHANGED <<rowOf, doc, spent>>
  PROVE  CatalogueInv'
BY DEF CatalogueInv, CatalogueTypes, OneRow, OrdersFit, WritingFits, DocsFit, Has

\* Inserting an option keeps it: the new value is in the catalogue for good.
LEMMA AddCommitKeepsInv ==
  ASSUME CatalogueInv, NEW o \in orders, AddCommit(o)
  PROVE  CatalogueInv'
<1>1. orders' = orders \ {o} /\ UNCHANGED <<spent, doc, raced>> /\ Adding(o)
      /\ o.row \in Row /\ o.value \in TypeValue /\ o.flow \in CatalogueFlow
  BY DEF AddCommit, Done, CatalogueInv, CatalogueTypes, Writing, Adding, Deleting
<1>2. CASE Listed(o.value) # {}
  BY <1>1, <1>2, FewerOrders DEF AddCommit
<1>3. CASE Listed(o.value) = {}
  <2> DEFINE x == [value |-> o.value, flow |-> o.flow, active |-> TRUE]
  <2>1. rowOf' = [rowOf EXCEPT ![o.row] = x]
    BY <1>3 DEF AddCommit
  <2>2. x \in RowRecord /\ x.value = o.value /\ x.value # NoText /\ x.flow = o.flow
    BY <1>1, CatalogueAssumption DEF RowRecord
  <2> HIDE DEF x
  <2>3. /\ rowOf' \in [Row -> RowRecord] /\ rowOf'[o.row] = x
        /\ \A i \in Row : i # o.row => rowOf'[i] = rowOf[i]
    BY <1>1, <2>1, <2>2 DEF CatalogueInv, CatalogueTypes
  <2>4. \A i \in Row : rowOf[i].value # o.value
    BY <1>1, <1>3, CatalogueAssumption DEF Listed
  <2>5. rowOf[o.row].value = NoText /\ o.row \in spent
        /\ \A q \in orders : (Adding(q) \/ Deleting(q)) /\ q.row = o.row => q = o
    BY <1>1 DEF CatalogueInv, OrdersFit
  <2>6. CatalogueTypes' /\ OneRow'
    BY <1>1, <2>2, <2>3, <2>4 DEF CatalogueInv, CatalogueTypes, OneRow
  <2>7. OrdersFit'
    BY <1>1, <2>2, <2>3, <2>5 DEF CatalogueInv, OrdersFit, Adding, Deleting
  <2>8. \A v, f : Has(v, f) /\ v # NoText => Has(v, f)'
    BY <2>3, <2>5 DEF Has
  <2>9. WritingFits' /\ DocsFit'
    BY <1>1, <2>8, CatalogueAssumption DEF CatalogueInv, WritingFits, DocsFit, Writing
  <2> QED
    BY <2>6, <2>7, <2>9 DEF CatalogueInv
<1> QED
  BY <1>2, <1>3

\* Hiding and showing an option keep the value.
LEMMA SetActiveKeepsInv ==
  ASSUME CatalogueInv, NEW i \in Row, NEW active \in BOOLEAN, SetDocTypeActive(i, active)
  PROVE  CatalogueInv'
<1> DEFINE x == [rowOf[i] EXCEPT !.active = active]
<1>1. /\ rowOf' = [rowOf EXCEPT ![i] = x] /\ rowOf[i] # Missing
      /\ UNCHANGED <<spent, doc, orders, raced>>
  BY DEF SetDocTypeActive
<1>2. x \in RowRecord /\ x.value = rowOf[i].value /\ x.flow = rowOf[i].flow
  BY DEF CatalogueInv, CatalogueTypes, RowRecord
<1> HIDE DEF x
<1>3. /\ rowOf' \in [Row -> RowRecord] /\ rowOf'[i] = x
      /\ \A j \in Row : j # i => rowOf'[j] = rowOf[j]
  BY <1>1, <1>2 DEF CatalogueInv, CatalogueTypes
<1>4. \A j \in Row : rowOf'[j].value = rowOf[j].value /\ rowOf'[j].flow = rowOf[j].flow
  BY <1>2, <1>3
<1>5. CatalogueTypes'
  BY <1>1, <1>2, <1>3 DEF CatalogueInv, CatalogueTypes
<1>6. OneRow' /\ OrdersFit'
  BY <1>1, <1>4 DEF CatalogueInv, OneRow, OrdersFit, Deleting, Adding
<1>7. \A v, f : Has(v, f)' <=> Has(v, f)
  BY <1>4 DEF Has
<1>8. WritingFits' /\ DocsFit'
  BY <1>1, <1>7 DEF CatalogueInv, WritingFits, DocsFit
<1> QED
  BY <1>5, <1>6, <1>8 DEF CatalogueInv

\* The count of the uses is taken before the delete.
LEMMA DeleteBeginKeepsInv ==
  ASSUME CatalogueInv, NEW i \in Row, DeleteBegin(i)
  PROVE  CatalogueInv'
<1> DEFINE o == Order("delete", NoText, i, rowOf[i].value, rowOf[i].flow)
<1>1. /\ orders' = orders \cup {o} /\ rowOf[i].value # NoText
      /\ UNCHANGED <<rowOf, spent, doc, raced>>
  BY DEF DeleteBegin, Begin, CatalogueInv, CatalogueTypes
<1>2. o.kind = "delete" /\ o.row = i /\ o.value = rowOf[i].value /\ o.flow = rowOf[i].flow
  BY OrderFields
<1> HIDE DEF o
<1>3. Deleting(o) /\ ~Adding(o) /\ ~Writing(o) /\ o.flow \in CatalogueFlow
  BY <1>2 DEF Adding, Deleting, Writing, CatalogueInv, CatalogueTypes, RowRecord
<1>4. \A d \in Doc : doc[d].type # o.value
  <2>1. IsFiniteSet({d \in Doc : doc[d].type = rowOf[i].value})
    BY CatalogueAssumption, FS_Subset
  <2>2. {d \in Doc : doc[d].type = rowOf[i].value} = {}
    BY <2>1, FS_EmptySet DEF DeleteBegin, UsageCount
  <2> QED
    BY <1>2, <2>2
<1>5. CatalogueTypes' /\ OneRow'
  BY <1>1, <1>3 DEF CatalogueInv, CatalogueTypes, OneRow
<1>6. OrdersFit'
  BY <1>1, <1>2, <1>3 DEF CatalogueInv, OrdersFit
<1>7. WritingFits' /\ DocsFit'
  BY <1>1, <1>3, <1>4 DEF CatalogueInv, WritingFits, DocsFit, Has
<1> QED
  BY <1>5, <1>6, <1>7 DEF CatalogueInv

\* The delete removes a value only with nobody using it, or after the count went stale.
LEMMA DeleteCommitKeepsInv ==
  ASSUME CatalogueInv, NEW o \in orders, DeleteCommit(o)
  PROVE  CatalogueInv'
<1>1. /\ orders' = orders \ {o} /\ UNCHANGED <<spent, doc>>
      /\ Deleting(o) /\ o.row \in Row
      /\ rowOf' = [rowOf EXCEPT ![o.row] = Missing]
  BY DEF DeleteCommit, Done, CatalogueInv, CatalogueTypes, Writing, Adding, Deleting
<1>2. /\ raced \subseteq raced'
      /\ \A q \in orders : Writing(q) /\ q.value = o.value => q.doc \in raced'
  BY DEF DeleteCommit, Writing
<1>3. Missing \in RowRecord /\ Missing.value = NoText
  BY DEF Missing, RowRecord, CatalogueFlow
<1>4. /\ rowOf' \in [Row -> RowRecord] /\ rowOf'[o.row] = Missing
      /\ \A i \in Row : i # o.row => rowOf'[i] = rowOf[i]
  BY <1>1, <1>3 DEF CatalogueInv, CatalogueTypes
<1>5. CatalogueTypes' /\ OneRow'
  BY <1>1, <1>3, <1>4 DEF CatalogueInv, CatalogueTypes, OneRow
<1>6. OrdersFit'
  BY <1>1, <1>3, <1>4 DEF CatalogueInv, OrdersFit, Deleting, Adding
<1>7. \A v, f : Has(v, f) /\ v # o.value /\ v # NoText => Has(v, f)'
  BY <1>1, <1>4 DEF Has, CatalogueInv, OrdersFit
<1>8. WritingFits'
  BY <1>1, <1>2, <1>7, CatalogueAssumption DEF CatalogueInv, WritingFits, Writing
<1>9. DocsFit'
  BY <1>1, <1>2, <1>7 DEF CatalogueInv, DocsFit
<1> QED
  BY <1>5, <1>6, <1>8, <1>9 DEF CatalogueInv

\* What the resolver returns is in the catalogue it read.
LEMMA ResolveFacts ==
  ASSUME CatalogueTypes, NEW v \in TypeValue, NEW f \in Resolve(v)
  PROVE  f \in CatalogueFlow /\ (v \notin Builtin => Has(v, f))
<1>1. \A g \in FlowForDocType(v) : g \in CatalogueFlow /\ Has(v, g)
  BY DEF FlowForDocType, Listed, Has, CatalogueTypes, RowRecord
<1>2. \A g \in MapFlow(v) : g \in CatalogueFlow /\ v \in Builtin
  BY DEF MapFlow, CatalogueFlow
<1> QED
  BY <1>1, <1>2 DEF Resolve

\* Resolving the values of a ticket leaves the invariant alone.
LEMMA WriteBeginKeepsInv ==
  ASSUME CatalogueInv, NEW d \in Doc, NEW v \in TypeValue,
         CreateBegin(d, v) \/ EditTypeBegin(d, v)
  PROVE  CatalogueInv'
<1>1. PICK f \in Resolve(v), kind \in {"create", "edit"} : Begin(Order(kind, d, NoText, v, f))
  BY DEF CreateBegin, EditTypeBegin
<1> DEFINE o == Order(kind, d, NoText, v, f)
<1>2. orders' = orders \cup {o} /\ UNCHANGED <<rowOf, spent, doc, raced>>
  BY <1>1 DEF CreateBegin, EditTypeBegin, Begin
<1>3. o.kind = kind /\ o.doc = d /\ o.value = v /\ o.flow = f
  BY OrderFields
<1> HIDE DEF o
<1>4. Writing(o) /\ ~Adding(o) /\ ~Deleting(o)
  BY <1>3 DEF Writing, Adding, Deleting
<1>5. f \in CatalogueFlow /\ (v \notin Builtin => Has(v, f))
  BY ResolveFacts DEF CatalogueInv
<1>6. CatalogueTypes' /\ OneRow' /\ OrdersFit'
  BY <1>2, <1>3, <1>4, <1>5 DEF CatalogueInv, CatalogueTypes, OneRow, OrdersFit
<1>7. WritingFits' /\ DocsFit'
  BY <1>2, <1>3, <1>4, <1>5 DEF CatalogueInv, WritingFits, DocsFit, Has
<1> QED
  BY <1>6, <1>7 DEF CatalogueInv

\* A ticket is written with the type and flow that were resolved for it.
LEMMA WriteKeepsInv ==
  ASSUME CatalogueInv, NEW o \in orders, Writing(o), NEW x \in DocRecord,
         x.type = o.value, x.flow = o.flow,
         doc' = [doc EXCEPT ![o.doc] = x], Race(o.doc, o.value),
         orders' = orders \ {o}, UNCHANGED <<rowOf, spent>>
  PROVE  CatalogueInv'
<1>1. /\ doc' \in [Doc -> DocRecord] /\ doc'[o.doc] = x /\ o.doc \in Doc
      /\ \A d \in Doc : d # o.doc => doc'[d] = doc[d]
  BY DEF CatalogueInv, CatalogueTypes, Writing
<1>2. /\ raced \subseteq raced'
      /\ o.doc \notin raced' => o.doc \notin raced
                                /\ \A q \in orders : Deleting(q) => q.value # o.value
  BY DEF Race, DeletionUnderWay, Deleting
<1>3. CatalogueTypes' /\ OneRow' /\ OrdersFit' /\ WritingFits'
  BY <1>1, <1>2 DEF CatalogueInv, CatalogueTypes, OneRow, OrdersFit, WritingFits, Has
<1>4. DocsFit'
  BY <1>1, <1>2 DEF CatalogueInv, DocsFit, WritingFits, Has
<1> QED
  BY <1>3, <1>4 DEF CatalogueInv

\* A ticket is created with the values resolved.
LEMMA CreateCommitKeepsInv ==
  ASSUME CatalogueInv, NEW o \in orders, CreateCommit(o)
  PROVE  CatalogueInv'
<1> DEFINE x == [type |-> o.value, flow |-> o.flow, coded |-> FALSE, open |-> TRUE]
<1>1. Writing(o) /\ o.flow \in CatalogueFlow /\ o.value \in TypeValue
  BY DEF CreateCommit, CatalogueInv, CatalogueTypes, Writing, Adding, Deleting
<1>2. x \in DocRecord /\ x.type = o.value /\ x.flow = o.flow
  BY <1>1 DEF DocRecord
<1>3. /\ doc' = [doc EXCEPT ![o.doc] = x] /\ Race(o.doc, o.value)
      /\ orders' = orders \ {o} /\ UNCHANGED <<rowOf, spent>>
  BY DEF CreateCommit, Done
<1> QED
  BY <1>1, <1>2, <1>3, WriteKeepsInv

\* An edit writes the values resolved.
LEMMA EditCommitKeepsInv ==
  ASSUME CatalogueInv, NEW o \in orders, EditTypeCommit(o)
  PROVE  CatalogueInv'
<1>1. /\ Writing(o) /\ o.flow \in CatalogueFlow /\ o.value \in TypeValue /\ o.doc \in Doc
      /\ orders' = orders \ {o} /\ UNCHANGED <<rowOf, spent>>
  BY DEF EditTypeCommit, Done, CatalogueInv, CatalogueTypes, Writing, Adding, Deleting
<1>2. CASE UNCHANGED <<doc, raced>>
  BY <1>1, <1>2, FewerOrders
<1>3. CASE doc[o.doc].open /\ (doc[o.doc].coded => o.flow = doc[o.doc].flow)
  <2> DEFINE x == [doc[o.doc] EXCEPT !.type = o.value, !.flow = FlowAfterEdit(o)]
  <2>1. doc' = [doc EXCEPT ![o.doc] = x] /\ Race(o.doc, o.value)
    BY <1>3 DEF EditTypeCommit
  <2>2. FlowAfterEdit(o) = o.flow
    BY <1>3 DEF FlowAfterEdit
  <2>3. doc[o.doc] \in DocRecord
    BY <1>1 DEF CatalogueInv, CatalogueTypes
  <2>4. x \in DocRecord
    BY <1>1, <2>2, <2>3 DEF DocRecord
  <2>5. x.type = o.value /\ x.flow = o.flow
    BY <2>2, <2>3 DEF DocRecord
  <2> HIDE DEF x
  <2> QED
    BY <1>1, <2>1, <2>4, <2>5, WriteKeepsInv
<1> QED
  BY <1>2, <1>3 DEF EditTypeCommit

\* Every step of a ticket keeps the invariant.
LEMMA TicketKeepsInv ==
  ASSUME CatalogueInv, NEW d \in Doc, TakenIn(d) \/ ComesBack(d)
  PROVE  CatalogueInv'
<1>1. PICK x \in DocRecord : /\ x.type = doc[d].type /\ x.flow = doc[d].flow
                             /\ doc' = [doc EXCEPT ![d] = x]
  <2>1. doc[d] \in DocRecord
    BY DEF CatalogueInv, CatalogueTypes
  <2>2. CASE TakenIn(d)
    <3> DEFINE x == [doc[d] EXCEPT !.open = FALSE, !.coded = TRUE]
    <3>1. x \in DocRecord
      BY <2>1 DEF DocRecord
    <3>2. x.type = doc[d].type /\ x.flow = doc[d].flow
      BY <2>1 DEF DocRecord
    <3>3. doc' = [doc EXCEPT ![d] = x]
      BY <2>2 DEF TakenIn
    <3> QED
      BY <3>1, <3>2, <3>3
  <2>3. CASE ComesBack(d)
    <3> DEFINE x == [doc[d] EXCEPT !.open = TRUE]
    <3>1. x \in DocRecord
      BY <2>1 DEF DocRecord
    <3>2. x.type = doc[d].type /\ x.flow = doc[d].flow
      BY <2>1 DEF DocRecord
    <3>3. doc' = [doc EXCEPT ![d] = x]
      BY <2>3 DEF ComesBack
    <3> QED
      BY <3>1, <3>2, <3>3
  <2> QED
    BY <2>2, <2>3
<1>2. UNCHANGED <<rowOf, spent, orders, raced>>
  BY DEF TakenIn, ComesBack
<1>3. /\ doc' \in [Doc -> DocRecord]
      /\ \A e \in Doc : doc'[e].type = doc[e].type /\ doc'[e].flow = doc[e].flow
  BY <1>1 DEF CatalogueInv, CatalogueTypes
<1> QED
  BY <1>2, <1>3 DEF CatalogueInv, CatalogueTypes, OneRow, OrdersFit, WritingFits, DocsFit, Has

\* The invariant is inductive.
THEOREM CatalogueInvStep == CatalogueInv /\ [CatalogueNext]_catalogueVars => CatalogueInv'
<1> SUFFICES ASSUME CatalogueInv, [CatalogueNext]_catalogueVars PROVE CatalogueInv'
  OBVIOUS
<1>1. CASE UNCHANGED catalogueVars
  BY <1>1, FewerOrders DEF catalogueVars
<1>2. CASE CatalogueNext
  BY <1>2, AddBeginKeepsInv, AddCommitKeepsInv, SetActiveKeepsInv, DeleteBeginKeepsInv,
     DeleteCommitKeepsInv, WriteBeginKeepsInv, CreateCommitKeepsInv, EditCommitKeepsInv,
     TicketKeepsInv DEF CatalogueNext
<1> QED
  BY <1>1, <1>2

\* It holds in every state of the specification.
LEMMA CatalogueInvAlways == CatalogueSpec => []CatalogueInv
  BY CatalogueInvInit, CatalogueInvStep, PTL DEF CatalogueSpec

-----------------------------------------------------------------------------
\* A ticket and the catalogue disagree on a flow only after a deletion raced with
\* the writing of that ticket.
THEOREM FlowsAgree == CatalogueSpec => []FlowAgrees
<1>1. CatalogueInv => FlowAgrees
  BY DEF CatalogueInv, CatalogueTypes, RowRecord, OneRow, DocsFit, Has, FlowAgrees, Listed
<1> QED
  BY <1>1, CatalogueInvAlways, PTL

\* No type is deleted under a ticket, but for one written during the deletion.
THEOREM NoneOrphaned == CatalogueSpec => []NoOrphans
<1>1. CatalogueInv => NoOrphans
  BY DEF CatalogueInv, DocsFit, Has, NoOrphans, Listed
<1> QED
  BY <1>1, CatalogueInvAlways, PTL

-----------------------------------------------------------------------------
(***************************************************************************)
(* The live updates.                                                       *)
(***************************************************************************)
LinkState == {"unused", "opening", "listening", "told", "ended"}
LoadRecord == [n : Nat, at : {"idle", "asked", "read"}]

\* Nothing shown, told or on the way is newer than the database.
LiveTypes ==
  /\ written \in Nat
  /\ links \in [LinkIds -> LinkState]
  /\ timers \in Nat /\ repeats \in Nat
  /\ request \in [ViewLoad -> LoadRecord]
  /\ \A l \in ViewLoad : request[l].n <= written
  /\ view \in 0..written /\ due \in 0..written
  /\ signal \in BOOLEAN

LiveInv == LiveTypes /\ LiveSound

Up == In("opening") \cup In("listening")

\* The clients are finitely many.
LEMMA UpFinite == IsFiniteSet(Up) /\ Cardinality(Up) \in Nat
<1>1. IsFiniteSet(LinkIds)
  BY LiveAssumption, FS_Interval DEF LinkIds
<1>2. Up \subseteq LinkIds
  BY DEF Up, In
<1> QED
  BY <1>1, <1>2, FS_Subset, FS_CardinalityType

\* One client comes up, or goes down, or none does.
LEMMA UpMoves ==
  ASSUME LiveTypes, NEW c \in LinkIds, NEW x \in LinkState, links' = [links EXCEPT ![c] = x]
  PROVE  Cardinality(Up)' =
           IF x \in {"opening", "listening"}
             THEN IF links[c] \in {"opening", "listening"} THEN Cardinality(Up)
                                                           ELSE Cardinality(Up) + 1
             ELSE IF links[c] \in {"opening", "listening"} THEN Cardinality(Up) - 1
                                                           ELSE Cardinality(Up)
<1>1. Up' = IF x \in {"opening", "listening"} THEN Up \cup {c} ELSE Up \ {c}
  BY DEF Up, In, LiveTypes, LinkState
<1>2. c \in Up <=> links[c] \in {"opening", "listening"}
  BY DEF Up, In
<1>3. Cardinality(Up \cup {c}) = IF c \in Up THEN Cardinality(Up) ELSE Cardinality(Up) + 1
  BY UpFinite, FS_AddElement, Zenon
<1>4. Cardinality(Up \ {c}) = IF c \in Up THEN Cardinality(Up) - 1 ELSE Cardinality(Up)
  BY UpFinite, FS_RemoveElement, Zenon
<1>5. Cardinality(Up)' = Cardinality(Up')
  OBVIOUS
<1> QED
  BY <1>1, <1>2, <1>3, <1>4, <1>5

\* A client that is lost is made up for by a timer, a timer by a client.
LEMMA OneListenerStep ==
  ASSUME LiveInv, [LiveNext]_liveVars
  PROVE  OneListener'
<1>1. ASSUME UNCHANGED <<links, timers, repeats>> PROVE OneListener'
  BY <1>1 DEF LiveInv, LiveSound, OneListener, In
<1>2. ASSUME NEW c \in LinkIds, NEW x \in LinkState, links' = [links EXCEPT ![c] = x],
             Cardinality(Up)' + timers' - repeats' = Cardinality(Up) + timers - repeats,
             timers' \in Nat, repeats' \in Nat
      PROVE  OneListener'
  <2>1. Cardinality(Up) + timers = 1 + repeats
    BY DEF LiveInv, LiveSound, OneListener, Up
  <2>2. Cardinality(Up)' \in Int
    <3>1. LiveTypes /\ Cardinality(Up) \in Int
      BY UpFinite DEF LiveInv
    <3>2. Cardinality(Up)' \in {Cardinality(Up), Cardinality(Up) + 1, Cardinality(Up) - 1}
      BY <1>2, <3>1, UpMoves
    <3> QED
      BY <3>1, <3>2
  <2>3. Cardinality(Up)' + timers' = 1 + repeats'
    BY <1>2, <2>1, <2>2, UpFinite DEF LiveInv, LiveTypes
  <2> QED
    BY <2>3 DEF OneListener, Up
<1>3. ASSUME NEW c \in LinkIds, Listens(c) PROVE OneListener'
  <2>1. links' = [links EXCEPT ![c] = "listening"] /\ UNCHANGED <<timers, repeats>>
    BY <1>3 DEF Listens
  <2>2. Cardinality(Up)' = Cardinality(Up)
    BY <1>3, <2>1, UpMoves DEF Listens, LiveInv, LinkState
  <2> QED
    BY <1>2, <2>1, <2>2 DEF LinkState, LiveInv, LiveTypes
<1>4. ASSUME NEW c \in LinkIds, Drops(c) PROVE OneListener'
  <2>1. links' = [links EXCEPT ![c] = "told"] /\ timers' = timers + 1 /\ UNCHANGED repeats
    BY <1>4 DEF Drops, OnDrop
  <2>2. Cardinality(Up)' = Cardinality(Up) - 1
    BY <1>4, <2>1, UpMoves DEF Drops, LiveInv, LinkState
  <2>3. /\ timers' \in Nat /\ repeats' \in Nat
        /\ Cardinality(Up)' + timers' - repeats' = Cardinality(Up) + timers - repeats
    BY <2>1, <2>2, UpFinite DEF LiveInv, LiveTypes
  <2> QED
    BY <1>2, <2>1, <2>3 DEF LinkState
<1>5. ASSUME NEW c \in LinkIds, DropsAgain(c) PROVE OneListener'
  <2>1. links' = [links EXCEPT ![c] = "ended"] /\ timers' = timers + 1 /\ repeats' = repeats + 1
    BY <1>5 DEF DropsAgain, OnDrop
  <2>2. Cardinality(Up)' = Cardinality(Up)
    BY <1>5, <2>1, UpMoves DEF DropsAgain, LiveInv, LinkState
  <2>3. /\ timers' \in Nat /\ repeats' \in Nat
        /\ Cardinality(Up)' + timers' - repeats' = Cardinality(Up) + timers - repeats
    BY <2>1, <2>2, UpFinite DEF LiveInv, LiveTypes
  <2> QED
    BY <1>2, <2>1, <2>3 DEF LinkState
<1>6. ASSUME Reconnect PROVE OneListener'
  <2>1. PICK c \in In("unused") : links' = [links EXCEPT ![c] = "opening"]
    BY <1>6 DEF Reconnect
  <2>2. c \in LinkIds /\ links[c] = "unused"
    BY DEF In
  <2>3. timers' = timers - 1 /\ timers' \in Nat /\ UNCHANGED repeats
    BY <1>6 DEF Reconnect, LiveInv, LiveTypes
  <2>4. Cardinality(Up)' = Cardinality(Up) + 1
    BY <2>1, <2>2, UpMoves DEF LiveInv, LinkState
  <2>5. /\ repeats' \in Nat
        /\ Cardinality(Up)' + timers' - repeats' = Cardinality(Up) + timers - repeats
    BY <2>3, <2>4, UpFinite DEF LiveInv, LiveTypes
  <2> QED
    BY <1>2, <2>1, <2>2, <2>3, <2>5 DEF LinkState
<1>7. \/ UNCHANGED <<links, timers, repeats>>
      \/ \E c \in LinkIds : Listens(c) \/ Drops(c) \/ DropsAgain(c)
      \/ Reconnect
  BY DEF LiveNext, CommitStatus, CommitSilently, Connect, StreamDrops, StreamReopens, Fire, Browse,
     Hover, ServeHover, Cache, Refetch, Poll, Ask, Answer, Serve, Show, LoadFails, Listener, liveVars
<1> QED
  BY <1>1, <1>3, <1>4, <1>5, <1>6, <1>7

\* Where a load stands after it has moved.
LEMMA LoadMoves ==
  ASSUME LiveTypes, NEW l \in ViewLoad, NEW x \in LoadRecord, request' = [request EXCEPT ![l] = x]
  PROVE  /\ request' \in [ViewLoad -> LoadRecord] /\ request'[l] = x
         /\ \A k \in ViewLoad : k # l => request'[k] = request[k]
BY DEF LiveTypes

\* The records of the loads.
LEMMA LoadKinds ==
  /\ Idle \in LoadRecord /\ Idle.n = 0 /\ Idle.at = "idle"
  /\ Asked \in LoadRecord /\ Asked.n = 0 /\ Asked.at = "asked"
  /\ \A n \in Nat : Read(n) \in LoadRecord /\ Read(n).n = n /\ Read(n).at = "read"
BY DEF Idle, Asked, Read, LoadRecord

\* A view that is behind what its tab was told has a load ahead, or a mishap
\* behind; nothing is newer than the database.
LEMMA WakeupStep ==
  ASSUME LiveInv, [LiveNext]_liveVars
  PROVE  LiveTypes' /\ NoLostWakeup'
<1> DEFINE Ahead == \E l \in ViewLoad : request[l] = Asked
                                      \/ (request[l].at = "read" /\ request[l].n >= due)
           Told == view >= due \/ excused \/ signal \/ debounce \/ Ahead
<1>1. LiveTypes /\ Told
  BY DEF LiveInv, LiveSound, NoLostWakeup
<1>2. /\ links' \in [LinkIds -> LinkState] /\ timers' \in Nat /\ repeats' \in Nat
      /\ signal' \in BOOLEAN
  <2>1. links' \in [LinkIds -> LinkState] /\ timers' \in Nat /\ repeats' \in Nat
    BY <1>1 DEF LiveTypes, LinkState, LiveNext, CommitStatus, CommitSilently, Connect, Reconnect,
       Listens, Drops, DropsAgain, OnDrop, StreamDrops, StreamReopens, Fire, Browse, Hover,
       ServeHover, Cache, Refetch, Poll, Ask, Answer, Serve, Show, LoadFails, Listener, In, liveVars
  <2>2. signal' = signal \/ signal' = FALSE \/ signal' = (signal \/ Notified)
    BY DEF LiveNext, CommitStatus, CommitSilently, Connect, Reconnect,
       Listens, Drops, DropsAgain, OnDrop, StreamDrops, StreamReopens, Fire, Browse, Hover,
       ServeHover, Cache, Refetch, Poll, Ask, Answer, Serve, Show, LoadFails, Listener, liveVars
  <2> QED
    BY <1>1, <2>1, <2>2 DEF LiveTypes
<1>3. ASSUME UNCHANGED <<written, request, view, due>>,
             excused \/ signal \/ debounce => excused' \/ signal' \/ debounce'
      PROVE  LiveTypes' /\ NoLostWakeup'
  BY <1>1, <1>2, <1>3 DEF LiveTypes, NoLostWakeup
<1>4. CASE CommitStatus \/ CommitSilently
  <2>1. /\ UNCHANGED <<request, view, excused, debounce>> /\ written' = written + 1
        /\ signal => signal'
        /\ due' = due \/ (due' = written' /\ signal')
    BY <1>1, <1>4 DEF CommitStatus, CommitSilently, Tab, LiveTypes
  <2>2. written' \in Nat /\ view' \in 0..written' /\ due' \in 0..written'
    BY <1>1, <2>1 DEF LiveTypes
  <2>3. LiveTypes'
    BY <1>1, <1>2, <2>1, <2>2 DEF LiveTypes, LoadRecord
  <2> QED
    BY <1>1, <2>1, <2>3 DEF NoLostWakeup
<1>5. CASE StreamDrops
  BY <1>1, <1>2, <1>5 DEF StreamDrops, Tab, LiveTypes, NoLostWakeup
<1>6. ASSUME NEW l \in ViewLoad, Refetch(l) \/ Poll(l)
      PROVE  LiveTypes' /\ NoLostWakeup'
  <2>1. /\ request[l] = Idle /\ request' = [request EXCEPT ![l] = Asked]
        /\ UNCHANGED <<written, view, due, excused, signal>>
        /\ debounce' = debounce \/ Refetch(l)
    BY <1>6 DEF Refetch, Poll, Ask
  <2>2. /\ request' \in [ViewLoad -> LoadRecord] /\ request'[l] = Asked
        /\ \A k \in ViewLoad : k # l => request'[k] = request[k]
    BY <1>1, <2>1, LoadMoves, LoadKinds
  <2> QED
    BY <1>1, <1>2, <2>1, <2>2, LoadKinds DEF LiveTypes, NoLostWakeup
<1>7. ASSUME NEW l \in ViewLoad, Serve(l)
      PROVE  LiveTypes' /\ NoLostWakeup'
  <2>1. /\ request[l] = Asked /\ request' = [request EXCEPT ![l] = Read(written)]
        /\ UNCHANGED <<written, view, due, excused, signal, debounce>>
    BY <1>7 DEF Serve
  <2>2. /\ request' \in [ViewLoad -> LoadRecord] /\ request'[l] = Read(written)
        /\ \A k \in ViewLoad : k # l => request'[k] = request[k]
    BY <1>1, <2>1, LoadMoves, LoadKinds DEF LiveTypes
  <2>3. Read(written).n = written /\ Read(written).at = "read" /\ due <= written
    BY <1>1, LoadKinds DEF LiveTypes
  <2> QED
    BY <1>1, <1>2, <2>1, <2>2, <2>3 DEF LiveTypes, NoLostWakeup
<1>8. ASSUME NEW l \in ViewLoad, Show(l)
      PROVE  LiveTypes' /\ NoLostWakeup'
  <2>1. /\ request[l].at = "read" /\ request' = [request EXCEPT ![l] = Idle]
        /\ view' = request[l].n
        /\ UNCHANGED <<written, due, signal, debounce>>
        /\ excused' = (view' < due /\ (excused \/ view' < view))
    BY <1>8 DEF Show
  <2>2. /\ request' \in [ViewLoad -> LoadRecord] /\ request'[l] = Idle
        /\ \A k \in ViewLoad : k # l => request'[k] = request[k]
    BY <1>1, <2>1, LoadMoves, LoadKinds
  <2>3. view' \in 0..written /\ LiveTypes'
    BY <1>1, <1>2, <2>1, <2>2, LoadKinds DEF LiveTypes, LoadRecord
  <2>4. request[l] # Asked
    BY <2>1, LoadKinds
  <2>5. CASE view' < due
    <3>1. excused \/ view' < view => excused'
      BY <2>1, <2>5
    <3>2. view' < view \/ excused \/ signal \/ debounce \/ Ahead
      BY <1>1, <2>3, <2>5 DEF LiveTypes
    <3>3. Ahead => \E k \in ViewLoad : k # l /\ (request[k] = Asked
                                      \/ (request[k].at = "read" /\ request[k].n >= due))
      BY <2>1, <2>3, <2>4, <2>5, <1>1 DEF LiveTypes
    <3> QED
      BY <2>1, <2>2, <2>3, <3>1, <3>2, <3>3 DEF NoLostWakeup
  <2>6. CASE view' >= due
    BY <2>3, <2>6, <2>1 DEF NoLostWakeup
  <2> QED
    BY <2>3, <2>5, <2>6, <1>1 DEF LiveTypes
<1>9. ASSUME NEW l \in ViewLoad, LoadFails(l)
      PROVE  LiveTypes' /\ NoLostWakeup'
  <2>1. /\ request' = [request EXCEPT ![l] = Idle] /\ excused' = TRUE
        /\ UNCHANGED <<written, view, due>>
    BY <1>9 DEF LoadFails
  <2>2. /\ request' \in [ViewLoad -> LoadRecord] /\ request'[l] = Idle
        /\ \A k \in ViewLoad : k # l => request'[k] = request[k]
    BY <1>1, <2>1, LoadMoves, LoadKinds
  <2> QED
    BY <1>1, <1>2, <2>1, <2>2, LoadKinds DEF LiveTypes, NoLostWakeup
<1>10. CASE \/ Connect \/ StreamReopens \/ Fire \/ Browse \/ UNCHANGED liveVars
            \/ \E c \in LinkIds : Drops(c) \/ DropsAgain(c)
  <2>1. /\ UNCHANGED <<written, request, view, due>>
        /\ excused \/ signal \/ debounce => excused' \/ signal' \/ debounce'
    BY <1>10 DEF Connect, Reconnect, Listens, Drops, DropsAgain, OnDrop, StreamReopens, Fire,
       Browse, Hover, ServeHover, Cache, Tab, Listener, liveVars
  <2> QED
    BY <1>3, <2>1
<1> QED
  BY <1>4, <1>5, <1>6, <1>7, <1>8, <1>9, <1>10 DEF LiveNext, Answer

\* As long as a view is open, its wake-ups neither multiply nor get lost.
LEMMA LiveInvStep == LiveInv /\ [LiveNext]_liveVars => LiveInv'
  BY OneListenerStep, WakeupStep DEF LiveInv, LiveSound

\* Every board shows the board of the database at first.
LEMMA LiveInvInit == LiveInit => LiveInv
<1> SUFFICES ASSUME LiveInit PROVE LiveInv
  OBVIOUS
<1>1. LiveTypes /\ NoLostWakeup
  <2>1. /\ links \in [LinkIds -> LinkState] /\ request \in [ViewLoad -> LoadRecord]
        /\ \A l \in ViewLoad : request[l].n <= written
    BY LoadKinds DEF LiveInit, LinkState
  <2>2. written = 0 /\ view = 0 /\ due = 0 /\ signal = FALSE /\ timers = 0 /\ repeats = 0
    BY DEF LiveInit
  <2>3. /\ view \in 0..written /\ due \in 0..written /\ written \in Nat
        /\ timers \in Nat /\ repeats \in Nat
    BY <2>2
  <2>4. signal \in BOOLEAN
    BY <2>2, Zenon
  <2>5. LiveTypes
    BY <2>1, <2>3, <2>4, Zenon DEF LiveTypes
  <2>6. view >= due
    BY <2>2
  <2> QED
    BY <2>5, <2>6 DEF NoLostWakeup
<1>2. 1 \in LinkIds
  BY LiveAssumption DEF LinkIds
<1>3. Up = {1}
  BY <1>2 DEF LiveInit, Up, In
<1>4. Cardinality(Up) = 1
  BY <1>3, FS_Singleton
<1>5. OneListener
  BY <1>4 DEF LiveInit, OneListener, Up
<1> QED
  BY <1>1, <1>5 DEF LiveInv, LiveSound

-----------------------------------------------------------------------------
(***************************************************************************)
(* The session behind a tab.                                               *)
(***************************************************************************)
JarSid == Cookie \cup {"other", "none"}
AskRecord == [kind : Kind, sid : JarSid, answer : {"none", "ok", "401"}]

\* A request that is sent, and the session that is established, are of their kind.
LEMMA SentKinds ==
  ASSUME NEW k \in Kind, NEW sid \in JarSid
  PROVE  Sent(k, sid) \in AskRecord
BY DEF Sent, AskRecord

\* What a new identity of the tab may be.
LEMMA EstablishKinds ==
  ASSUME ShellTypeOK, NEW new \in Cookie \cup {"other"}, Establish(new)
  PROVE  store' \subseteq Cookie \cup {"other"}
BY DEF ShellTypeOK, Establish

\* What happens to the answers under way.
LEMMA RepliedKinds ==
  ASSUME ShellTypeOK, NEW c \in asks, NEW sid \in JarSid, NEW x \in {"ok", "401"},
         Replied(c, sid, x)
  PROVE  asks' \subseteq AskRecord
<1>1. asks \subseteq AskRecord
  BY DEF ShellTypeOK, AskRecord, JarSid
<1>2. [c EXCEPT !.sid = sid, !.answer = x] \in AskRecord
  BY <1>1 DEF AskRecord
<1> QED
  BY <1>1, <1>2 DEF Replied

\* Each way to the screens keeps the timer and the dialogs under a mounted shell.
LEMMA ScreenMoves ==
  ASSUME ShellTypeOK,
         LoadPage \/ Mounted \/ Unmounted \/ UNCHANGED Tabs
  PROVE  (timer' # "off") = (screen' = "authed") /\ (dialog' => screen' = "authed")
BY DEF ShellTypeOK, LoadPage, Mounted, Unmounted, Tabs

\* Every step of the tab keeps the types.
LEMMA ShellTypeStep ==
  ASSUME ShellTypeOK, [ShellNext]_shellVars
  PROVE  ShellTypeOK'
<1> DEFINE Fit == /\ jar' \in JarSid /\ store' \subseteq Cookie \cup {"other"}
                  /\ asks' \subseteq AskRecord
           Mount == (timer' # "off") = (screen' = "authed") /\ (dialog' => screen' = "authed")
<1>1. Fit /\ Mount => ShellTypeOK'
  BY DEF ShellTypeOK, JarSid, AskRecord
<1>2. /\ jar \in JarSid /\ store \subseteq Cookie \cup {"other"} /\ asks \subseteq AskRecord
      /\ (timer # "off") = (screen = "authed") /\ (dialog => screen = "authed")
  BY DEF ShellTypeOK, JarSid, AskRecord
<1>3. "me" \in Kind /\ "login" \in Kind /\ "logout" \in Kind
  BY DEF Kind
<1>4. LoadPage /\ jar' \in JarSid => asks' \subseteq AskRecord /\ Mount
  <2>1. LoadPage /\ jar' \in JarSid => asks' \subseteq AskRecord
    BY <1>3, SentKinds DEF LoadPage
  <2> QED
    BY <2>1, ScreenMoves
<1>5. CASE OpenTab
  BY <1>1, <1>2, <1>4, <1>5 DEF OpenTab
<1>6. CASE ToProvider
  BY <1>1, <1>2, <1>6 DEF ToProvider, ShouldAutostart, OnContinue
<1>7. CASE Returns
  <2>1. LoadPage /\ jar' \in JarSid /\ store' \subseteq Cookie \cup {"other"}
    BY <1>2, <1>7, EstablishKinds DEF Returns, JarSid
  <2> QED
    BY <1>1, <1>4, <2>1
<1>8. CASE OnSignIn \/ LogOut \/ OnIdle
  <2>1. /\ asks' \subseteq asks \cup {Sent("login", jar), Sent("logout", jar)}
        /\ UNCHANGED <<jar, store, screen, dialog>>
        /\ timer' = timer \/ (timer = "elapsed" /\ timer' = "fired")
    BY <1>8 DEF OnSignIn, LogOut, OnIdle, Tabs
  <2>2. asks' \subseteq AskRecord
    BY <1>2, <1>3, <2>1, SentKinds
  <2> QED
    BY <1>1, <1>2, <2>1, <2>2
<1>9. CASE Touch \/ Dialog \/ Elapse
  BY <1>1, <1>2, <1>9 DEF Touch, Dialog, Elapse
<1>10. CASE Leave \/ SessionEnds \/ UNCHANGED shellVars
  BY <1>1, <1>2, <1>10 DEF Leave, SessionEnds, Tabs, shellVars
<1>11. CASE Elsewhere
  <2>1. jar' \in JarSid /\ store' \subseteq Cookie \cup {"other"} /\ UNCHANGED <<Tabs, asks>>
    BY <1>2, <1>11, EstablishKinds DEF Elsewhere, JarSid
  <2> QED
    BY <1>1, <1>2, <2>1 DEF Tabs
<1>12. CASE PollPage
  BY <1>1, <1>2, <1>4, <1>12 DEF PollPage, LoadViews, OnSessionExpired, Tabs
<1>13. ASSUME NEW c \in asks, ServeCall(c) PROVE ShellTypeOK'
  <2>1. UNCHANGED <<jar, Tabs>> /\ c \in AskRecord
    BY <1>2, <1>13 DEF ServeCall
  <2>2. asks' \subseteq AskRecord
    <3>1. CASE \E sid \in JarSid, x \in {"ok", "401"} : Replied(c, sid, x)
      BY <3>1, RepliedKinds
    <3>2. CASE Dropped(c)
      BY <1>2, <3>2 DEF Dropped
    <3> QED
      BY <1>13, <3>1, <3>2 DEF ServeCall, JarSid
  <2>3. store' \subseteq Cookie \cup {"other"}
    BY <1>2, <1>13, EstablishKinds DEF ServeCall
  <2> QED
    BY <1>1, <1>2, <2>1, <2>2, <2>3 DEF Tabs
<1>14. ASSUME NEW c \in asks, Arrives(c) PROVE ShellTypeOK'
  <2>1. CASE MeAnswered(c)
    <3>1. Mounted \/ Unmounted
      BY <2>1 DEF MeAnswered
    <3>2. Mount
      BY <3>1, ScreenMoves
    <3>3. Fit
      BY <1>2, <1>14, <2>1 DEF MeAnswered, Arrives, Dropped
    <3> QED
      BY <1>1, <3>2, <3>3
  <2>2. CASE CookieAnswered(c)
    <3>1. jar' \in JarSid /\ UNCHANGED <<store, Tabs>>
      BY <1>2, <1>14, <2>2 DEF CookieAnswered, Arrives, AskRecord, JarSid
    <3>2. asks' \subseteq AskRecord
      BY <1>2, <1>3, <2>2, <3>1, SentKinds DEF CookieAnswered
    <3> QED
      BY <1>1, <1>2, <3>1, <3>2 DEF Tabs
  <2> QED
    BY <1>14, <2>1, <2>2 DEF Arrives
<1>15. ASSUME NEW c \in asks, CallLost(c) PROVE ShellTypeOK'
  <2>1. Mount
    BY <1>15, ScreenMoves DEF CallLost
  <2> QED
    BY <1>1, <1>2, <1>15, <2>1 DEF CallLost, Dropped
<1> QED
  BY <1>5, <1>6, <1>7, <1>8, <1>9, <1>10, <1>11, <1>12, <1>13, <1>14, <1>15 DEF ShellNext

\* A tab as it is opened.
LEMMA ShellTypeInit == ShellInit => ShellTypeOK
  BY DEF ShellInit, ShellTypeOK

-----------------------------------------------------------------------------
(***************************************************************************)
(* Side by side.                                                           *)
(***************************************************************************)
\* One service runs while the others rest, so each has its own behaviours.
LEMMA EachRunsAlone ==
  [ServicesNext]_servicesVars =>
    /\ [OutboxNext]_outboxVars /\ [DigestNext]_digestVars /\ [SessionsNext]_sessionVars
    /\ [RolesNext]_rolesVars /\ [CatalogueNext]_catalogueVars /\ [LiveNext]_liveVars
    /\ [ShellNext]_shellVars
BY DEF ServicesNext, servicesVars

\* Each service does, beside the others, what it does by itself.
LEMMA ServicesImplement ==
  ServicesSpec => /\ OutboxSpec /\ DigestSpec /\ SessionsSpec
                  /\ RolesSpec /\ CatalogueSpec
                  /\ LiveInit /\ [][LiveNext]_liveVars
                  /\ ShellSpec
<1>1. ServicesInit => /\ OutboxInit /\ DigestInit /\ SessionsInit /\ RolesInit /\ CatalogueInit
                      /\ LiveInit /\ ShellInit
  BY DEF ServicesInit
<1> QED
  BY <1>1, EachRunsAlone, PTL DEF ServicesSpec, OutboxSpec, DigestSpec, SessionsSpec,
     RolesSpec, CatalogueSpec, ShellSpec

\* All of the services keep to their types, whichever of them runs.
THEOREM ServicesTypeCorrect == ServicesSpec => []ServicesTypeOK
<1>1. ServicesSpec => []ShellTypeOK
  BY ShellTypeInit, ShellTypeStep, ServicesImplement, PTL DEF ShellSpec
<1> QED
  BY <1>1, OutboxTypes, DigestTypeCorrect, SessionsTypeCorrect, ServicesImplement, PTL
     DEF ServicesTypeOK

\* The process has one listener, or is about to open it, unless a client told of
\* its loss twice; and a view behind what its tab was told of loads again.
THEOREM LiveStaysSound == LiveInit /\ [][LiveNext]_liveVars => []LiveSound
<1>1. LiveInv => LiveSound
  BY DEF LiveInv
<1> QED
  BY <1>1, LiveInvInit, LiveInvStep, PTL

\* What each service promises by itself, it promises beside the others.
THEOREM ServicesKeepTheirWord ==
  ServicesSpec => /\ [](CopiesExplained /\ DigestOnce /\ TokenSpentOnce /\ OneRoleInOneGroup)
                  /\ [](FlowAgrees /\ NoOrphans /\ LiveSound)
                  /\ EndedStaysEnded /\ LastAdminFallsToARace /\ RevocationTakesEffect
BY ServicesImplement, CopiesAreExplained, OneDigestADay, TokensSpentOnce, OneGroupEach, FlowsAgree,
   NoneOrphaned, LiveStaysSound, EndedForGood, LastAdminOnlyRaced, OnlyAdminsBegin, PTL
=============================================================================
