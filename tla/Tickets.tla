------------------------------ MODULE Tickets ------------------------------
(***************************************************************************)
(* The ticket back end: the rows of `ticket', `ticket_lock',               *)
(* `number_counter' and `notification_outbox', and one action for each     *)
(* request the API or its schedulers serve.  A handler that runs in one    *)
(* SELECT ... FOR UPDATE transaction is one atomic action.  A handler that *)
(* reads without that lock and writes later is two actions with the        *)
(* captured values kept in `requests' between them, and any other request  *)
(* may be served there.                                                    *)
(***************************************************************************)
EXTENDS Naturals, FiniteSets, TicketMachine

CONSTANTS Ticket,           \* ids of tickets
          Applicant,        \* subs acting as Applicant
          Dcc1, Dcc2, Dcc3, \* subs acting as DCC1, DCC2, DCC3
          Numbers,          \* valid Document Nos (uppercase, not 'N/A')
          NA,               \* the 'N/A' sentinel and the NULL of a number
          MaxRound,         \* bound: no ticket goes past this round
          MaxInFlight       \* bound: no request starts beyond this many

User == Applicant \cup Dcc1 \cup Dcc2 \cup Dcc3 \cup {System}

ASSUME NullAssumption == NoOne \notin User /\ NA \notin Numbers
ASSUME NullIsNoRole == NoOne \notin Role
ASSUME SomeApplicant == Applicant # {}
ASSUME BoundAssumption == MaxRound \in Nat /\ MaxInFlight \in Nat

VARIABLES ticket,    \* ticket[t]: the row of ticket t
          lock,      \* lock[t]: DCC1 whose soft lock on t is live, or NoOne
          nextSeq,   \* nextSeq[p]: number_counter of prefix p (one year)
          outbox,    \* <<t, round, kind>>: rows of notification_outbox
          requests   \* requests between an unlocked read and their write

vars == <<ticket, lock, nextSeq, outbox, requests>>

-----------------------------------------------------------------------------
(***************************************************************************)
(* Rows.                                                                   *)
(***************************************************************************)
Prefix == {"G", "CT"}
PrefixForFlow(flow) == IF flow = "General" THEN "G" ELSE "CT"

Code == [prefix : Prefix, seq : Nat]
NoCode == [prefix |-> "G", seq |-> 0]      \* code IS NULL; codes count from 1

Event == {e.event : e \in Edges}
Audit == [event : Event \cup {"undo", "created"}, from : Status]

Row == [status : Status \cup {"Absent"}, flow : Flow, applicant : Applicant,
        holder : User \cup {NoOne}, round : 0..MaxRound, flag : BOOLEAN,
        code : Code, contractNo : Numbers \cup {NA},
        paymentNo : Numbers \cup {NA}, last : Audit]

NewRow(a, flow, contractNo) ==
  [status |-> "Submitted", flow |-> flow, applicant |-> a, holder |-> NoOne,
   round |-> 0, flag |-> FALSE, code |-> NoCode, contractNo |-> contractNo,
   paymentNo |-> NA,
   last |-> [event |-> "created", from |-> "Submitted"]]

Exists(t) == ticket[t].status # "Absent"
Minted(row) == row.code # NoCode

\* The partial unique indexes: a live ticket's number is the flow's own one.
OwnNumber(row) ==
  IF row.status \in {"Absent", "Cancelled"} THEN NA
  ELSE CASE row.flow = "Contract" -> row.contractNo
         [] row.flow = "Payment" -> row.paymentNo
         [] OTHER -> NA

Clash(r1, r2) == /\ r1.flow = r2.flow
                 /\ OwnNumber(r1) = OwnNumber(r2)
                 /\ OwnNumber(r1) # NA

UniqueNumber(t, row) == \A o \in Ticket \ {t} : ~Clash(row, ticket[o])

-----------------------------------------------------------------------------
(***************************************************************************)
(* Requests in flight.                                                     *)
(***************************************************************************)
InFlight == [kind : {"confirm", "pick"}, ticket : Ticket, user : Dcc1]
       \cup [kind : {"undo"}, ticket : Ticket, user : Dcc1, target : Audit]
       \cup [kind : {"edit"}, ticket : Ticket, flow : Flow,
             contractNo : Numbers \cup {NA}]
       \cup [kind : {"notice"}, ticket : Ticket, round : 0..MaxRound]

Begin(request) == /\ Cardinality(requests) < MaxInFlight
                  /\ requests' = requests \cup {request}
Finish(request) == requests' = requests \ {request}

\* A confirm-flow transaction holds the row lock: every other FOR UPDATE or
\* UPDATE of that ticket waits until it commits or rolls back.
RowFree(t) == \A r \in requests : r.kind = "confirm" => r.ticket # t

(***************************************************************************)
(* The write of a ticket's row, and the email intent of its new status.    *)
(***************************************************************************)
Write(t, row) == /\ row.round <= MaxRound
                 /\ UniqueNumber(t, row)
                 /\ ticket' = [ticket EXCEPT ![t] = row]

EmailIntent(t, row) ==
  IF row.status \in {"Completed", "Returned"}
    THEN {<<t, row.round, row.status>>} ELSE {}

Update(t, row) == /\ RowFree(t)
                  /\ Write(t, row)
                  /\ UNCHANGED <<lock, nextSeq>>

Silently(t, row) == Update(t, row) /\ UNCHANGED <<outbox, requests>>

WithIntent(t, row) == /\ Update(t, row)
                      /\ outbox' = outbox \cup EmailIntent(t, row)
                      /\ UNCHANGED requests

-----------------------------------------------------------------------------
(***************************************************************************)
(* The Applicant.                                                          *)
(***************************************************************************)

\* Fault: the applicant's text is stored verbatim on every flow.
AnyContractNo(flow, n) == n

\* normalizeContractNo: on the Contract flow the applicant's slot is 'N/A'.
NormalizeContractNo(flow, n) == IF flow = "Contract" THEN NA ELSE n

Create(t, a, flow, n) ==
  /\ ~Exists(t)
  /\ Silently(t, NewRow(a, flow, NormalizeContractNo(flow, n)))

Editable == {"Submitted", "ReturnFixing"}

\* updateFields reads the row without a lock: the window, the minted code and
\* the number it pins are those of the read.
EditBegin(t, flow, n) ==
  LET row == ticket[t]
      no  == IF flow = "Contract" /\ Minted(row)
               THEN row.contractNo ELSE NormalizeContractNo(flow, n)
  IN  /\ row.status \in Editable
      /\ Minted(row) => flow = row.flow
      /\ Begin([kind |-> "edit", ticket |-> t, flow |-> flow, contractNo |-> no])
      /\ UNCHANGED <<ticket, lock, nextSeq, outbox>>

\* Fault: the UPDATE trusts the status of the earlier read.
EditCommitUnguarded(r) ==
  /\ r.kind = "edit"
  /\ Update(r.ticket, [ticket[r.ticket] EXCEPT !.flow = r.flow,
                                               !.contractNo = r.contractNo])
  /\ Finish(r)
  /\ UNCHANGED outbox

\* The guarded UPDATE re-checks the status, and nothing else.
EditCommit(r) ==
  /\ r.kind = "edit"
  /\ ticket[r.ticket].status \in Editable
  /\ Update(r.ticket, [ticket[r.ticket] EXCEPT !.flow = r.flow,
                                               !.contractNo = r.contractNo])
  /\ Finish(r)
  /\ UNCHANGED outbox

ByApplicant(t, event) ==
  \E row \in Transition(ticket[t], event, ticket[t].applicant, "Applicant") :
     WithIntent(t, row)

\* Withdrawn only from the Pool and while no one holds the ticket.
Cancel(t) == /\ ticket[t].status = "Submitted"
             /\ ticket[t].holder = NoOne
             /\ ByApplicant(t, "cancel")
ConfirmReturnReceipt(t) == ByApplicant(t, "confirmReturnReceipt")
Resubmit(t) == ByApplicant(t, "resubmit")

-----------------------------------------------------------------------------
(***************************************************************************)
(* The Pool: soft lock, confirm-flow, auto-return.                         *)
(***************************************************************************)
LockableBy(t, u) == lock[t] \in {NoOne, u}

\* pickFromPool reads the status, then upserts the lock and audits the pick; the
\* audit row's foreign key waits for whoever holds the ticket's row.
PickBegin(t, u) ==
  /\ ticket[t].status = "Submitted"
  /\ Begin([kind |-> "pick", ticket |-> t, user |-> u])
  /\ UNCHANGED <<ticket, lock, nextSeq, outbox>>

PickCommit(r) ==
  /\ r.kind = "pick"
  /\ RowFree(r.ticket)
  /\ LockableBy(r.ticket, r.user)
  /\ lock' = [lock EXCEPT ![r.ticket] = r.user]
  /\ Finish(r)
  /\ UNCHANGED <<ticket, nextSeq, outbox>>

\* seize takes a free or expired lock at any status; a free one, of which there
\* is no earlier holder to audit, without touching the ticket's row.
Seize(t, u) ==
  /\ Exists(t)
  /\ lock[t] = NoOne
  /\ lock' = [lock EXCEPT ![t] = u]
  /\ UNCHANGED <<ticket, nextSeq, outbox, requests>>

LockExpires(t) ==
  /\ lock[t] # NoOne
  /\ lock' = [lock EXCEPT ![t] = NoOne]
  /\ UNCHANGED <<ticket, nextSeq, outbox, requests>>

\* Confirm-flow locks the ticket's row, then reads the soft lock, which is a
\* row of its own that it does not lock.
ConfirmBegin(t, u) ==
  /\ RowFree(t)
  /\ LockableBy(t, u)
  /\ Transition(ticket[t], "submitToAndy", u, "DCC1") # {}
  /\ Begin([kind |-> "confirm", ticket |-> t, user |-> u])
  /\ UNCHANGED <<ticket, lock, nextSeq, outbox>>

\* Fault: every intake mints, a resubmitted ticket too.
MintAlways(row) ==
  LET p == PrefixForFlow(row.flow) IN [prefix |-> p, seq |-> nextSeq[p]]

\* Fault: the counter moves for a ticket that keeps its code.
CounterAlwaysMoves(row) == [nextSeq EXCEPT ![PrefixForFlow(row.flow)] = @ + 1]

\* A code is minted once, and the counter moves only with the commit.
Mint(row) ==
  IF Minted(row) THEN row.code
  ELSE LET p == PrefixForFlow(row.flow) IN [prefix |-> p, seq |-> nextSeq[p]]

CounterAfter(row) ==
  IF Minted(row) THEN nextSeq
  ELSE [nextSeq EXCEPT ![PrefixForFlow(row.flow)] = @ + 1]

ConfirmCommit(r) ==
  /\ r.kind = "confirm"
  /\ \E row \in Transition(ticket[r.ticket], "submitToAndy", r.user, "DCC1") :
        Write(r.ticket, [row EXCEPT !.code = Mint(row)])
  /\ nextSeq' = CounterAfter(ticket[r.ticket])
  /\ lock' = [lock EXCEPT ![r.ticket] = NoOne]
  /\ Finish(r)
  /\ UNCHANGED outbox

\* The hourly scan returns one ticket at a time, then files a notice for it.
AutoReturn(t) ==
  /\ \A r \in requests : r.kind # "notice"
  /\ \E row \in Transition(ticket[t], "auto_return", System, "DCC1") :
        /\ Update(t, row)
        /\ requests' = requests \cup
             {[kind |-> "notice", ticket |-> t, round |-> row.round]}
  /\ UNCHANGED outbox

EnqueueNotice(r) ==
  /\ r.kind = "notice"
  /\ outbox' = outbox \cup {<<r.ticket, r.round, "auto_returned">>}
  /\ Finish(r)
  /\ UNCHANGED <<ticket, lock, nextSeq>>

-----------------------------------------------------------------------------
(***************************************************************************)
(* DCC1's desk.                                                            *)
(***************************************************************************)

GenericAction(t, u, event) ==
  \E row \in Transition(ticket[t], event, u, "DCC1") : WithIntent(t, row)

Reopen(t, u) == \E row \in ReopenChain(ticket[t], u) : WithIntent(t, row)

\* Undo reads the last transition without a lock, and compensates it later.
Undoable(last) ==
  \E e \in Edges : e.event = last.event /\ e.from = last.from /\ e.reversible

UndoBegin(t, u) ==
  /\ Exists(t)
  /\ Undoable(ticket[t].last)
  /\ Begin([kind |-> "undo", ticket |-> t, user |-> u,
            target |-> ticket[t].last])
  /\ UNCHANGED <<ticket, lock, nextSeq, outbox>>

UndoCommit(r) ==
  /\ r.kind = "undo"
  /\ \E row \in UndoTransition(ticket[r.ticket], r.target, r.user, "DCC1") :
        /\ Update(r.ticket, row)
        /\ outbox' = outbox \cup EmailIntent(r.ticket, row)
  /\ Finish(r)

-----------------------------------------------------------------------------
(***************************************************************************)
(* The two-phase handover and its reconcile lane.                          *)
(***************************************************************************)
\* Fault: the receipt is confirmed without a look at the reconcile flag.
ConfirmReceivedUnchecked(t, u, role, event) ==
  \E row \in Transition(ticket[t], event, u, role) : Silently(t, row)

ConfirmReceived(t, u, role, event) ==
  /\ ~ticket[t].flag
  /\ \E row \in Transition(ticket[t], event, u, role) : Silently(t, row)

ConfirmReceivedByDcc2(t, u) ==
  ConfirmReceived(t, u, "DCC2", "confirmReceivedByDcc2")
ConfirmReceivedByDcc3(t, u) ==
  ConfirmReceived(t, u, "DCC3", "confirmReceivedByDcc3")

SetReconcile(t, next) ==
  /\ ticket[t].status \in HandoverStates
  /\ ticket[t].flag # next
  /\ Silently(t, [ticket[t] EXCEPT !.flag = next])

FlagMissingPaper(t) == SetReconcile(t, TRUE)
ClearMissingPaper(t) == SetReconcile(t, FALSE)

\* Fault: the return from the reconcile lane writes no email intent.
ReturnFromPushbackSilently(t, u) ==
  /\ ticket[t].flag
  /\ \E row \in Transition(ticket[t], "sendBack", u, "DCC1") :
        Silently(t, [row EXCEPT !.flag = FALSE])

ReturnFromPushback(t, u) ==
  /\ ticket[t].flag
  /\ \E row \in Transition(ticket[t], "sendBack", u, "DCC1") :
        WithIntent(t, [row EXCEPT !.flag = FALSE])

-----------------------------------------------------------------------------
(***************************************************************************)
(* Accounting and the close.                                               *)
(***************************************************************************)
WithNumber(row, n) == IF row.flow = "Payment" THEN [row EXCEPT !.paymentNo = n]
                                              ELSE [row EXCEPT !.contractNo = n]

SubmitToAccounting(t, u, role, n) ==
  /\ ~ticket[t].flag
  /\ \E row \in Transition(ticket[t], "sendToAccounting", u, role) :
        Silently(t, WithNumber(row, n))

\* Whether a number is required depends on the document type's capabilities:
\* without the requirement DCC2 may send 'N/A'.  DCC3 always enters one.
SubmitToAccountingByDcc2(t, u, n) == SubmitToAccounting(t, u, "DCC2", n)
SendAccountingDcc3(t, u, n) == n # NA /\ SubmitToAccounting(t, u, "DCC3", n)

\* Fault: a blank skip stores its sentinel as it would a number.
SkipWithSentinel(t, n) ==
  /\ ~ticket[t].flag
  /\ ticket[t].flow = "Contract"
  /\ ticket[t].status = "ReceivedByDcc2"
  /\ n # NA => ticket[t].round = 0
  /\ \E row \in SkipChain(ticket[t]) : WithIntent(t, [row EXCEPT !.contractNo = n])

\* Skip Completed: the whole rest of the Contract line in one transaction.  A
\* real number only in round 0; 'N/A' leaves the stored number alone.
SkipToCompleted(t, n) ==
  /\ ~ticket[t].flag
  /\ ticket[t].flow = "Contract"
  /\ ticket[t].status = "ReceivedByDcc2"
  /\ n # NA => ticket[t].round = 0
  /\ \E row \in SkipChain(ticket[t]) :
        WithIntent(t, IF n = NA THEN row ELSE [row EXCEPT !.contractNo = n])

CompleteContract(t, u) ==
  /\ ~ticket[t].flag
  /\ \E row \in Transition(ticket[t], "completeContract", u, "DCC2") :
        WithIntent(t, row)

-----------------------------------------------------------------------------
(***************************************************************************)
(* A request dies: its client gives up, its transaction is rolled back, or *)
(* the process crashes before its last write.                              *)
(***************************************************************************)
Abandon(r) == /\ Finish(r)
              /\ UNCHANGED <<ticket, lock, nextSeq, outbox>>

-----------------------------------------------------------------------------
(***************************************************************************)
(* The specification.                                                      *)
(***************************************************************************)
AbsentRow == [status |-> "Absent", flow |-> "General",
              applicant |-> CHOOSE a \in Applicant : TRUE, holder |-> NoOne,
              round |-> 0, flag |-> FALSE, code |-> NoCode, contractNo |-> NA,
              paymentNo |-> NA,
              last |-> [event |-> "created", from |-> "Submitted"]]

Init == /\ ticket = [t \in Ticket |-> AbsentRow]
        /\ lock = [t \in Ticket |-> NoOne]
        /\ nextSeq = [p \in Prefix |-> 1]
        /\ outbox = {}
        /\ requests = {}

ApplicantStep(t) ==
  \/ \E a \in Applicant, f \in Flow, n \in Numbers : Create(t, a, f, n)
  \/ \E f \in Flow, n \in Numbers : EditBegin(t, f, n)
  \/ Cancel(t)
  \/ ConfirmReturnReceipt(t)
  \/ Resubmit(t)

Dcc1Step(t) == \E u \in Dcc1 :
  \/ PickBegin(t, u)
  \/ Seize(t, u)
  \/ ConfirmBegin(t, u)
  \/ \E event \in GenericEvents : GenericAction(t, u, event)
  \/ Reopen(t, u)
  \/ UndoBegin(t, u)
  \/ ReturnFromPushback(t, u)

ReconcileStep(t) == FlagMissingPaper(t) \/ ClearMissingPaper(t)

Dcc2Step(t) == \E u \in Dcc2 :
  \/ ConfirmReceivedByDcc2(t, u)
  \/ \E n \in Numbers \cup {NA} : SubmitToAccountingByDcc2(t, u, n)
  \/ \E n \in Numbers \cup {NA} : SkipToCompleted(t, n)
  \/ CompleteContract(t, u)

Dcc3Step(t) == \E u \in Dcc3 :
  \/ ConfirmReceivedByDcc3(t, u)
  \/ \E n \in Numbers : SendAccountingDcc3(t, u, n)

RequestStep(r) ==
  \/ EditCommit(r)
  \/ PickCommit(r)
  \/ ConfirmCommit(r)
  \/ UndoCommit(r)
  \/ EnqueueNotice(r)
  \/ Abandon(r)

SystemStep(t) == LockExpires(t) \/ AutoReturn(t)

Next == \/ \E t \in Ticket : \/ ApplicantStep(t)
                             \/ Dcc1Step(t)
                             \/ ReconcileStep(t)
                             \/ Dcc2Step(t)
                             \/ Dcc3Step(t)
                             \/ SystemStep(t)
        \/ \E r \in requests : RequestStep(r)

Spec == Init /\ [][Next]_vars

-----------------------------------------------------------------------------
(***************************************************************************)
(* Properties that hold.                                                   *)
(***************************************************************************)

\* Every column keeps its type, every captured request too: no handler stores
\* a role for a user, a null where a number is due, or a round past the bound.
TypeOK == /\ ticket \in [Ticket -> Row]
          /\ lock \in [Ticket -> Dcc1 \cup {NoOne}]
          /\ nextSeq \in [Prefix -> Nat \ {0}]
          /\ outbox \subseteq Ticket \X (0..MaxRound)
                              \X {"Completed", "Returned", "auto_returned"}
          /\ requests \subseteq InFlight

\* The statuses after a receipt, where a reconcile flag would lock the ticket:
\* receipt, accounting and close refuse it, and no return leads out of them.
AfterReceipt == {"ReceivedByDcc2", "ReceivedByDcc3", "Hardcopy",
                 "SubmittedToAccounting", "SentToAccounting"}

\* A ticket flagged for missing paper never gets past the receipt of that
\* paper, however the flag, an undo, a return and a confirmation interleave.
FlagBlocksReceipt ==
  \A t \in Ticket : ticket[t].flag => ticket[t].status \notin AfterReceipt

CanMove(row) ==
  \E role \in Role : \E event \in LegalActions(row.status, role, row.flow) :
     row.flag => event \notin FlagGuarded

\* No live ticket is ever stuck: whatever edits, undos and flags went before,
\* somebody is offered an action on it that its handler would not refuse.
NeverStranded ==
  \A t \in Ticket : \/ ticket[t].status \in Terminal \cup {"Absent"}
                    \/ CanMove(ticket[t])

\* The statuses a ticket may have without a code.
Uncoded == {"Absent", "Submitted", "Returned", "ReturnFixing", "Cancelled"}

\* No ticket is processed or closed without a code: every way out of the Pool
\* to a desk mints it, and no undo or return takes it away again.
CodeBeyondPool ==
  \A t \in Ticket : ticket[t].status \notin Uncoded => Minted(ticket[t])

CodeOf(t) == ticket[t].code

\* The codes of a prefix are the numbers 1, 2, ... below its counter, each on
\* one ticket: concurrent confirms and rollbacks skip and reuse none.
NumberingContiguous ==
  /\ \A p \in Prefix : \A n \in 1..nextSeq[p] - 1 :
        \E t \in Ticket : CodeOf(t) = [prefix |-> p, seq |-> n]
  /\ \A t \in Ticket : Minted(ticket[t]) =>
        CodeOf(t).seq \in 1..nextSeq[CodeOf(t).prefix] - 1
  /\ \A t1, t2 \in Ticket : t1 # t2 /\ Minted(ticket[t1]) => CodeOf(t1) # CodeOf(t2)

\* A minted code stays with its ticket through every return, undo and reopen.
CodeImmutable ==
  [][\A t \in Ticket : Minted(ticket[t]) => ticket'[t].code = ticket[t].code]_vars

\* Until a Contract ticket of round 0 goes to Accounting it carries no number,
\* which is why Skip Completed may write one in round 0 without losing any.
RoundZeroNumberless ==
  \A t \in Ticket :
    LET row == ticket[t]
    IN  (/\ row.flow = "Contract"
         /\ row.round = 0
         /\ row.status \in {"Submitted", "SubmittedToVpAndy",
                            "SubmittedToDcc2", "ReceivedByDcc2"})
        => row.contractNo = NA

\* A real number, once on a ticket, is replaced only by a further send to Accounting or
\* by an edit of the applicant's; no skip, return, undo or reopening loses it.
NumberStays(new, old) ==
  /\ old.contractNo # NA /\ new.contractNo # old.contractNo =>
       new.status = "SubmittedToAccounting" \/ old.status \in Editable
  /\ old.paymentNo # NA /\ new.paymentNo # old.paymentNo =>
       new.status = "SentToAccounting"
NumbersKept == [][\A t \in Ticket : Exists(t) => NumberStays(ticket'[t], ticket[t])]_vars

\* A ticket lies with one person exactly where the line says so: with its
\* applicant, with a user of the desk that owns the status, or with nobody in
\* the Pool, in a receiver's inbox, at Accounting and once closed.
HolderFits ==
  \A t \in Ticket :
    LET row == ticket[t]
    IN  row.holder \in
          CASE row.status \in {"Returned", "ReturnFixing"} -> {row.applicant}
            [] row.status \in {"SubmittedToVpAndy", "SubmittedToBop",
                               "ReceivedFromAcc"} -> Dcc1
            [] row.status \in {"ReceivedByDcc2", "Hardcopy"} -> Dcc2
            [] row.status = "ReceivedByDcc3" -> Dcc3
            [] OTHER -> {NoOne}

\* A ticket that is closed as Completed or lies Returned with its applicant has
\* an email intent of its round: no path into these statuses forgets it.
OutcomeMailed ==
  \A t \in Ticket : ticket[t].status \in {"Completed", "Returned"} =>
                    <<t, ticket[t].round, ticket[t].status>> \in outbox

-----------------------------------------------------------------------------
(***************************************************************************)
(* What the comments and docs of the code promise and the code does not do.*)
(***************************************************************************)

\* handover.repo.ts: toggles lock the row so nothing can strand the flag, that
\* is, a flag stands only where the paper is waited for.
FlagOnlyAtHandover ==
  \A t \in Ticket : ticket[t].flag => ticket[t].status \in HandoverStates

\* ticket-write.repo.ts: a minted code encodes the flow, which is immutable.
CodeEncodesFlow ==
  \A t \in Ticket : Minted(ticket[t]) =>
    ticket[t].code.prefix = PrefixForFlow(ticket[t].flow)

Becomes(t, status) == ticket[t].status # status /\ ticket'[t].status = status

\* cancel-ticket.usecase.ts: withdrawn only with no one having picked it up.
CancelOnlyUnpicked ==
  [][\A t \in Ticket : Becomes(t, "Cancelled") => lock[t] = NoOne]_vars

\* email-intent.ts: a step into Returned always emails.
ReturnedAlwaysMails ==
  [][\A t \in Ticket : Becomes(t, "Returned") => outbox' # outbox]_vars

\* lock.ts: two people do not process a ticket at once, that is, nobody takes a
\* ticket out of the Pool onto his desk while another holds its soft lock.
TakenByLockHolder ==
  [][\A t \in Ticket :
       Becomes(t, "SubmittedToVpAndy") /\ ticket[t].status = "Submitted"
       => lock[t] \in {NoOne, ticket'[t].holder}]_vars

=============================================================================
