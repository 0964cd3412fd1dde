--------------------------- MODULE TicketsProofs ---------------------------
(***************************************************************************)
(* Theorems about Tickets, for any sets of tickets and users, any document *)
(* numbers and any bounds.  What they say of codes and document numbers    *)
(* follows from StepOfRow, which says what one step of any handler does to *)
(* a ticket's code; what they say of the desks from DesksInv: a ticket     *)
(* keeps to its flow's line and can leave every open status, it lies with  *)
(* the right person, its outcome is mailed, and a Contract ticket carries  *)
(* no number in round 0.                                                   *)
(***************************************************************************)
EXTENDS Tickets, TLAPS

-----------------------------------------------------------------------------
(***************************************************************************)
(* The edges.                                                              *)
(***************************************************************************)

\* The edges of every flow run between statuses and are owned by a role.
LEMMA EdgesTyped ==
  \A e \in Edges : e.from \in Status /\ e.to \in Status /\ e.owner \in Role
<1>1. \A e \in SharedEdges :
         e.from \in Status /\ e.to \in Status /\ e.owner \in Role
  BY DEF SharedEdges, HeavyReturn, Reversible, Plain, EdgeOf, Status, Role
<1>2. \A e \in GeneralEdges :
         e.from \in Status /\ e.to \in Status /\ e.owner \in Role
  BY DEF GeneralEdges, Reversible, Plain, EdgeOf, Status, Role
<1>3. \A e \in ContractEdges :
         e.from \in Status /\ e.to \in Status /\ e.owner \in Role
  BY DEF ContractEdges, HeavyReturn, Reversible, Plain, EdgeOf, Status, Role
<1>4. \A e \in PaymentEdges :
         e.from \in Status /\ e.to \in Status /\ e.owner \in Role
  BY DEF PaymentEdges, HeavyReturn, Reversible, Plain, EdgeOf, Status, Role
<1>5. QED
  BY <1>1, <1>2, <1>3, <1>4 DEF Edges

\* Only events that refuse a flagged ticket lead to the statuses after a
\* receipt, and no undoable edge starts in one of them.
LEMMA EdgesIntoReceipt ==
  \A e \in Edges : /\ e.to \in AfterReceipt => e.event \in FlagGuarded
                   /\ e.reversible => e.from \notin AfterReceipt
<1>1. \A e \in SharedEdges : /\ e.to \in AfterReceipt => e.event \in FlagGuarded
                             /\ e.reversible => e.from \notin AfterReceipt
  BY DEF SharedEdges, HeavyReturn, Reversible, Plain, EdgeOf, AfterReceipt
<1>2. \A e \in GeneralEdges : /\ e.to \in AfterReceipt => e.event \in FlagGuarded
                              /\ e.reversible => e.from \notin AfterReceipt
  BY DEF GeneralEdges, Reversible, Plain, EdgeOf, AfterReceipt
<1>3. \A e \in ContractEdges : /\ e.to \in AfterReceipt => e.event \in FlagGuarded
                               /\ e.reversible => e.from \notin AfterReceipt
  BY DEF ContractEdges, HeavyReturn, Reversible, Plain, EdgeOf, AfterReceipt,
         FlagGuarded
<1>4. \A e \in PaymentEdges : /\ e.to \in AfterReceipt => e.event \in FlagGuarded
                              /\ e.reversible => e.from \notin AfterReceipt
  BY DEF PaymentEdges, HeavyReturn, Reversible, Plain, EdgeOf, AfterReceipt,
         FlagGuarded
<1>5. QED
  BY <1>1, <1>2, <1>3, <1>4 DEF Edges

\* An edge found for an event is one of that event.
LEMMA FoundEdges ==
  ASSUME NEW from, NEW event, NEW flow
  PROVE  \A e \in FindEdge(from, event, flow) :
            e \in Edges /\ e.from = from /\ e.event = event
BY DEF FindEdge

-----------------------------------------------------------------------------
(***************************************************************************)
(* The two operations that change a status.                                *)
(***************************************************************************)

\* A row whose round no bound cuts off: what a transition computes before the
\* write checks it.
OpenRow ==
  [status : Status \cup {"Absent"}, flow : Flow, applicant : Applicant,
   holder : User \cup {NoOne}, round : Nat, flag : BOOLEAN,
   code : Code, contractNo : Numbers \cup {NA},
   paymentNo : Numbers \cup {NA}, last : Audit]

\* A row of the table is one a transition can start from.
LEMMA RowIsOpen == Row \subseteq OpenRow
BY BoundAssumption DEF Row, OpenRow

\* A row that passes the bound check of the write is a row of the table.
LEMMA BoundedRow ==
  ASSUME NEW row \in OpenRow, row.round <= MaxRound
  PROVE  row \in Row
<1>1. row.round \in 0..MaxRound
  BY BoundAssumption DEF OpenRow
<1>2. QED
  BY <1>1 DEF OpenRow, Row

\* deriveHolder stores a user or nobody, never a role.
LEMMA HolderTyped ==
  ASSUME NEW to, NEW a \in Applicant, NEW u \in User, NEW role
  PROVE  DeriveHolder(to, a, u, role) \in User \cup {NoOne}
BY DEF DeriveHolder, User

\* What no transition and no undo touches in a row.
Untouched(new, row) == /\ new.flag = row.flag
                       /\ new.code = row.code
                       /\ new.flow = row.flow
                       /\ new.applicant = row.applicant
                       /\ new.contractNo = row.contractNo
                       /\ new.paymentNo = row.paymentNo

\* A transition keeps the row's type, its flag, its code, its flow and its
\* numbers, and reaches a status after a receipt only by a flag-guarded event.
LEMMA TransitionFacts ==
  ASSUME NEW row \in OpenRow, NEW event, NEW u \in User, NEW role,
         NEW new \in Transition(row, event, u, role)
  PROVE  /\ new \in OpenRow
         /\ Untouched(new, row)
         /\ new.status \in AfterReceipt => event \in FlagGuarded
<1>1. PICK e \in FindEdge(row.status, event, row.flow) :
         new = [row EXCEPT
                  !.status = e.to,
                  !.holder = DeriveHolder(e.to, row.applicant, u, role),
                  !.round  = IF e.heavy THEN row.round + 1 ELSE row.round,
                  !.last   = [event |-> event, from |-> row.status]]
  BY DEF Transition
<1>2. e \in Edges /\ e.from = row.status /\ e.event = event
  BY FoundEdges
<1>3. e.to \in Status /\ row.status \in Status /\ event \in Event
  BY <1>2, EdgesTyped DEF Event
<1>4. DeriveHolder(e.to, row.applicant, u, role) \in User \cup {NoOne}
  BY HolderTyped DEF OpenRow
<1>5. (IF e.heavy THEN row.round + 1 ELSE row.round) \in Nat
  BY DEF OpenRow
<1>6. [event |-> event, from |-> row.status] \in Audit
  BY <1>3 DEF Audit
<1>7. new \in OpenRow
  BY <1>1, <1>3, <1>4, <1>5, <1>6 DEF OpenRow
<1>8. Untouched(new, row) /\ new.status = e.to
  BY <1>1 DEF Untouched, OpenRow
<1>9. QED
  BY <1>2, <1>7, <1>8, EdgesIntoReceipt

\* An undo keeps them too, and never leads to a status after a receipt.
LEMMA UndoFacts ==
  ASSUME NEW row \in OpenRow, NEW target \in Audit, NEW u \in User, NEW role,
         NEW new \in UndoTransition(row, target, u, role)
  PROVE  /\ new \in OpenRow
         /\ Untouched(new, row)
         /\ new.status \notin AfterReceipt
<1>1. PICK e \in FindEdge(target.from, target.event, row.flow) :
         /\ e.reversible /\ e.to = row.status
         /\ new = [row EXCEPT
                     !.status = target.from,
                     !.holder = DeriveHolder(target.from, row.applicant, u, role),
                     !.last   = [event |-> "undo", from |-> row.status]]
  BY DEF UndoTransition
<1>2. e \in Edges /\ e.from = target.from
  BY FoundEdges
<1>3. target.from \in Status /\ row.status \in Status
  BY <1>1, <1>2, EdgesTyped
<1>4. DeriveHolder(target.from, row.applicant, u, role) \in User \cup {NoOne}
  BY HolderTyped DEF OpenRow
<1>5. [event |-> "undo", from |-> row.status] \in Audit
  BY <1>3 DEF Audit
<1>6. new \in OpenRow
  BY <1>1, <1>3, <1>4, <1>5 DEF OpenRow
<1>7. Untouched(new, row) /\ new.status = target.from
  BY <1>1 DEF Untouched, OpenRow
<1>8. QED
  BY <1>1, <1>2, <1>6, <1>7, EdgesIntoReceipt

\* The chains of transitions keep them as well, whatever they pass through.
LEMMA AndThenFacts ==
  ASSUME NEW row \in OpenRow, NEW rows, NEW event, NEW u \in User, NEW role,
         \A mid \in rows : mid \in OpenRow /\ Untouched(mid, row),
         NEW new \in AndThen(rows, event, u, role)
  PROVE  /\ new \in OpenRow
         /\ Untouched(new, row)
         /\ new.status \in AfterReceipt => event \in FlagGuarded
<1>1. PICK mid \in rows : new \in Transition(mid, event, u, role)
  BY DEF AndThen
<1>2. /\ new \in OpenRow
      /\ Untouched(new, mid)
      /\ new.status \in AfterReceipt => event \in FlagGuarded
  BY <1>1, TransitionFacts
<1>3. QED
  BY <1>1, <1>2 DEF Untouched

\* Reopen, then sendBack: the row ends before any receipt.
LEMMA ReopenFacts ==
  ASSUME NEW row \in OpenRow, NEW u \in User, NEW new \in ReopenChain(row, u)
  PROVE  /\ new \in OpenRow
         /\ Untouched(new, row)
         /\ new.status \notin AfterReceipt
<1> DEFINE reopened == Transition(row, "reopen", u, "DCC1")
<1>1. \A mid \in reopened : mid \in OpenRow /\ Untouched(mid, row)
  BY TransitionFacts
<1>2. new \in AndThen(reopened, "sendBack", u, "DCC1")
  BY DEF ReopenChain
<1> HIDE DEF reopened
<1>3. "sendBack" \notin FlagGuarded
  BY DEF FlagGuarded
<1>4. QED
  BY <1>1, <1>2, <1>3, AndThenFacts

\* The six steps of Skip Completed leave flag, code and numbers alone.
LEMMA SkipFacts ==
  ASSUME NEW row \in OpenRow, NEW new \in SkipChain(row)
  PROVE  new \in OpenRow /\ Untouched(new, row)
<1> DEFINE s1 == Transition(row, "sendToAccounting", System, "DCC2")
           s2 == AndThen(s1, "receiveFromAcc", System, "DCC1")
           s3 == AndThen(s2, "submitToBop", System, "DCC1")
           s4 == AndThen(s3, "bopApprove", System, "DCC1")
           s5 == AndThen(s4, "confirmReceivedByDcc2", System, "DCC2")
           Good(rows) == \A mid \in rows : mid \in OpenRow /\ Untouched(mid, row)
<1>0. System \in User
  BY DEF User
<1>1. Good(s1)
  BY <1>0, TransitionFacts
<1>2. new \in AndThen(s5, "completeContract", System, "DCC2")
  BY DEF SkipChain
<1> HIDE DEF s1
<1>3. Good(s2)
  BY <1>0, <1>1, AndThenFacts
<1> HIDE DEF s2
<1>4. Good(s3)
  BY <1>0, <1>3, AndThenFacts
<1> HIDE DEF s3
<1>5. Good(s4)
  BY <1>0, <1>4, AndThenFacts
<1> HIDE DEF s4
<1>6. Good(s5)
  BY <1>0, <1>5, AndThenFacts
<1> HIDE DEF s5
<1>7. QED
  BY <1>0, <1>2, <1>6, AndThenFacts

-----------------------------------------------------------------------------
(***************************************************************************)
(* Types, and the reconcile flag.  Inv is inductive: a write keeps it when *)
(* the row it stores is typed and safe, and every handler stores such rows.*)
(***************************************************************************)
Inv == TypeOK /\ FlagBlocksReceipt

Safe(row) == row.flag => row.status \notin AfterReceipt

\* A stored row that is typed and safe keeps the table typed and safe.
LEMMA WriteKeepsTable ==
  ASSUME Inv, NEW t \in Ticket, NEW row \in OpenRow, Safe(row), Write(t, row)
  PROVE  /\ ticket' \in [Ticket -> Row]
         /\ FlagBlocksReceipt'
         /\ row \in Row
<1>1. row \in Row
  BY BoundedRow DEF Write
<1>2. ticket' = [ticket EXCEPT ![t] = row] /\ ticket \in [Ticket -> Row]
  BY DEF Write, Inv, TypeOK
<1>3. ticket' \in [Ticket -> Row]
  BY <1>1, <1>2
<1>4. ASSUME NEW o \in Ticket PROVE Safe(ticket'[o])
  <2>1. CASE o = t
    BY <1>2, <2>1
  <2>2. CASE o # t
    BY <1>2, <2>2 DEF Inv, FlagBlocksReceipt, Safe
  <2>3. QED
    BY <2>1, <2>2
<1>5. QED
  BY <1>1, <1>3, <1>4 DEF FlagBlocksReceipt, Safe

\* The email intent of a stored row is a typed row of the outbox.
LEMMA IntentTyped ==
  ASSUME NEW t \in Ticket, NEW row \in Row
  PROVE  EmailIntent(t, row) \subseteq
           Ticket \X (0..MaxRound) \X {"Completed", "Returned", "auto_returned"}
<1>1. CASE row.status \in {"Completed", "Returned"}
  <2>1. row.round \in 0..MaxRound
    BY DEF Row
  <2>2. <<t, row.round, row.status>> \in
          Ticket \X (0..MaxRound) \X {"Completed", "Returned", "auto_returned"}
    BY <1>1, <2>1
  <2>3. QED
    BY <1>1, <2>2 DEF EmailIntent
<1>2. CASE row.status \notin {"Completed", "Returned"}
  BY <1>2 DEF EmailIntent
<1>3. QED
  BY <1>1, <1>2

\* The two ways a one-transaction handler stores a row.
LEMMA SilentlyKeepsInv ==
  ASSUME Inv, NEW t \in Ticket, NEW row \in OpenRow, Safe(row), Silently(t, row)
  PROVE  Inv'
<1>1. Write(t, row) /\ UNCHANGED <<lock, nextSeq, outbox, requests>>
  BY DEF Silently, Update
<1>2. ticket' \in [Ticket -> Row] /\ FlagBlocksReceipt'
  BY <1>1, WriteKeepsTable
<1>3. QED
  BY <1>1, <1>2 DEF Inv, TypeOK

\* The same with an email intent in the outbox.
LEMMA WithIntentKeepsInv ==
  ASSUME Inv, NEW t \in Ticket, NEW row \in OpenRow, Safe(row),
         WithIntent(t, row)
  PROVE  Inv'
<1>1. /\ Write(t, row)
      /\ UNCHANGED <<lock, nextSeq, requests>>
      /\ outbox' = outbox \cup EmailIntent(t, row)
  BY DEF WithIntent, Update
<1>2. ticket' \in [Ticket -> Row] /\ FlagBlocksReceipt' /\ row \in Row
  BY <1>1, WriteKeepsTable
<1>3. outbox' \subseteq
        Ticket \X (0..MaxRound) \X {"Completed", "Returned", "auto_returned"}
  BY <1>1, <1>2, IntentTyped DEF Inv, TypeOK
<1>4. QED
  BY <1>1, <1>2, <1>3 DEF Inv, TypeOK

\* A request that only joins or leaves those in flight disturbs nothing else.
LEMMA BeginKeepsInv ==
  ASSUME Inv, NEW request \in InFlight, Begin(request),
         UNCHANGED <<ticket, lock, nextSeq, outbox>>
  PROVE  Inv'
BY DEF Inv, TypeOK, FlagBlocksReceipt, Begin

\* And one that leaves.
LEMMA FinishKeepsInv ==
  ASSUME Inv, NEW request, Finish(request),
         UNCHANGED <<ticket, lock, nextSeq, outbox>>
  PROVE  Inv'
BY DEF Inv, TypeOK, FlagBlocksReceipt, Finish

\* The row of a ticket that is there, as the operations see it.
LEMMA RowOf ==
  ASSUME Inv, NEW t \in Ticket
  PROVE  ticket[t] \in Row /\ ticket[t] \in OpenRow /\ Safe(ticket[t])
<1>1. ticket[t] \in Row
  BY DEF Inv, TypeOK
<1>2. QED
  BY <1>1, RowIsOpen DEF Inv, FlagBlocksReceipt, Safe

-----------------------------------------------------------------------------
(***************************************************************************)
(* One lemma per actor: each of its handlers keeps Inv.                    *)
(***************************************************************************)
\* The null code is a value of the column.
LEMMA NoCodeTyped == NoCode \in Code
BY DEF NoCode, Code, Prefix

\* So is the audit row of a creation.
LEMMA CreatedTyped == [event |-> "created", from |-> "Submitted"] \in Audit
BY DEF Audit, Status

\* A plain transition stored by a handler that accepts no flagged ticket, or
\* takes no flag-guarded event.
LEMMA TransitionSafe ==
  ASSUME Inv, NEW t \in Ticket, NEW event, NEW u \in User, NEW role,
         NEW row \in Transition(ticket[t], event, u, role),
         ticket[t].flag => event \notin FlagGuarded
  PROVE  row \in OpenRow /\ Safe(row)
<1>1. ticket[t] \in OpenRow
  BY RowOf
<1>2. /\ row \in OpenRow
      /\ Untouched(row, ticket[t])
      /\ row.status \in AfterReceipt => event \in FlagGuarded
  BY <1>1, TransitionFacts
<1>3. QED
  BY <1>2 DEF Safe, Untouched

\* Creation, edits and the applicant's own transitions keep Inv.
LEMMA ApplicantKeepsInv ==
  ASSUME Inv, NEW t \in Ticket, ApplicantStep(t)
  PROVE  Inv'
<1>1. ASSUME NEW a \in Applicant, NEW f \in Flow, NEW n \in Numbers,
             Create(t, a, f, n)
      PROVE  Inv'
  <2> DEFINE row == NewRow(a, f, NormalizeContractNo(f, n))
  <2>1. NormalizeContractNo(f, n) \in Numbers \cup {NA}
    BY DEF NormalizeContractNo
  <2>2. row \in OpenRow /\ Safe(row)
    BY <2>1, NoCodeTyped, CreatedTyped DEF NewRow, OpenRow, Status, Safe
  <2>3. Silently(t, row)
    BY <1>1 DEF Create
  <2> HIDE DEF row
  <2>4. QED
    BY <2>2, <2>3, SilentlyKeepsInv
<1>2. ASSUME NEW f \in Flow, NEW n \in Numbers, EditBegin(t, f, n)
      PROVE  Inv'
  <2> DEFINE no == IF f = "Contract" /\ Minted(ticket[t])
                     THEN ticket[t].contractNo ELSE NormalizeContractNo(f, n)
             request == [kind |-> "edit", ticket |-> t, flow |-> f,
                         contractNo |-> no]
  <2>1. no \in Numbers \cup {NA}
    BY RowOf DEF NormalizeContractNo, Row
  <2>2. Begin(request) /\ UNCHANGED <<ticket, lock, nextSeq, outbox>>
    BY <1>2 DEF EditBegin
  <2> HIDE DEF no
  <2>3. request \in InFlight
    BY <2>1 DEF InFlight
  <2> HIDE DEF request
  <2>4. QED
    BY <2>2, <2>3, BeginKeepsInv
<1>3. ASSUME NEW event, event \notin FlagGuarded, ByApplicant(t, event)
      PROVE  Inv'
  <2>1. PICK row \in Transition(ticket[t], event, ticket[t].applicant, "Applicant") :
           WithIntent(t, row)
    BY <1>3 DEF ByApplicant
  <2>2. ticket[t].applicant \in User
    BY RowOf DEF Row, User
  <2>3. row \in OpenRow /\ Safe(row)
    BY <1>3, <2>2, TransitionSafe
  <2>4. QED
    BY <2>1, <2>3, WithIntentKeepsInv
<1>4. ASSUME Cancel(t) PROVE Inv'
  BY <1>3, <1>4 DEF Cancel, FlagGuarded
<1>5. ASSUME ConfirmReturnReceipt(t) PROVE Inv'
  BY <1>3, <1>5 DEF ConfirmReturnReceipt, FlagGuarded
<1>6. ASSUME Resubmit(t) PROVE Inv'
  BY <1>3, <1>6 DEF Resubmit, FlagGuarded
<1>7. QED
  BY <1>1, <1>2, <1>4, <1>5, <1>6 DEF ApplicantStep

\* So does whatever a DCC1 user does in the Pool and at the desk.
LEMMA Dcc1KeepsInv ==
  ASSUME Inv, NEW t \in Ticket, Dcc1Step(t)
  PROVE  Inv'
<1> PICK u \in Dcc1 : \/ PickBegin(t, u)
                      \/ Seize(t, u)
                      \/ ConfirmBegin(t, u)
                      \/ \E event \in GenericEvents : GenericAction(t, u, event)
                      \/ Reopen(t, u)
                      \/ UndoBegin(t, u)
                      \/ ReturnFromPushback(t, u)
  BY DEF Dcc1Step
<1>0. u \in User
  BY DEF User
<1>1. ASSUME PickBegin(t, u) PROVE Inv'
  <2>1. [kind |-> "pick", ticket |-> t, user |-> u] \in InFlight
    BY DEF InFlight
  <2>2. QED
    BY <1>1, <2>1, BeginKeepsInv DEF PickBegin
<1>2. ASSUME Seize(t, u) PROVE Inv'
  BY <1>2 DEF Seize, Inv, TypeOK, FlagBlocksReceipt
<1>3. ASSUME ConfirmBegin(t, u) PROVE Inv'
  <2>1. [kind |-> "confirm", ticket |-> t, user |-> u] \in InFlight
    BY DEF InFlight
  <2>2. QED
    BY <1>3, <2>1, BeginKeepsInv DEF ConfirmBegin
<1>4. ASSUME NEW event \in GenericEvents, GenericAction(t, u, event) PROVE Inv'
  <2>1. PICK row \in Transition(ticket[t], event, u, "DCC1") : WithIntent(t, row)
    BY <1>4 DEF GenericAction
  <2>2. event \notin FlagGuarded
    BY DEF GenericEvents, FlagGuarded
  <2>3. row \in OpenRow /\ Safe(row)
    BY <1>0, <2>2, TransitionSafe
  <2>4. QED
    BY <2>1, <2>3, WithIntentKeepsInv
<1>5. ASSUME Reopen(t, u) PROVE Inv'
  <2>1. PICK row \in ReopenChain(ticket[t], u) : WithIntent(t, row)
    BY <1>5 DEF Reopen
  <2>2. row \in OpenRow /\ Safe(row)
    BY <1>0, RowOf, ReopenFacts DEF Safe
  <2>3. QED
    BY <2>1, <2>2, WithIntentKeepsInv
<1>6. ASSUME UndoBegin(t, u) PROVE Inv'
  <2>1. [kind |-> "undo", ticket |-> t, user |-> u, target |-> ticket[t].last]
          \in InFlight
    BY RowOf DEF Row, InFlight
  <2>2. QED
    BY <1>6, <2>1, BeginKeepsInv DEF UndoBegin
<1>7. ASSUME ReturnFromPushback(t, u) PROVE Inv'
  <2>1. PICK row \in Transition(ticket[t], "sendBack", u, "DCC1") :
           WithIntent(t, [row EXCEPT !.flag = FALSE])
    BY <1>7 DEF ReturnFromPushback
  <2>2. row \in OpenRow
    BY <1>0, RowOf, TransitionFacts
  <2>3. /\ [row EXCEPT !.flag = FALSE] \in OpenRow
        /\ Safe([row EXCEPT !.flag = FALSE])
    BY <2>2 DEF OpenRow, Safe
  <2>4. QED
    BY <2>1, <2>3, WithIntentKeepsInv
<1>8. QED
  BY <1>1, <1>2, <1>3, <1>4, <1>5, <1>6, <1>7

\* A flag is set or cleared at a handover only, before the receipt.
LEMMA ReconcileKeepsInv ==
  ASSUME Inv, NEW t \in Ticket, ReconcileStep(t)
  PROVE  Inv'
<1>1. PICK next \in BOOLEAN : SetReconcile(t, next)
  BY DEF ReconcileStep, FlagMissingPaper, ClearMissingPaper
<1> DEFINE row == [ticket[t] EXCEPT !.flag = next]
<1>2. Silently(t, row) /\ ticket[t].status \in HandoverStates
  BY <1>1 DEF SetReconcile
<1>3. row \in OpenRow /\ row.status = ticket[t].status
  BY RowOf DEF OpenRow
<1>4. Safe(row)
  BY <1>2, <1>3 DEF Safe, HandoverStates, AfterReceipt
<1> HIDE DEF row
<1>5. QED
  BY <1>2, <1>3, <1>4, SilentlyKeepsInv

\* A receipt: refused while the ticket is flagged.
LEMMA ReceiptKeepsInv ==
  ASSUME Inv, NEW t \in Ticket, NEW u \in User, NEW role, NEW event,
         ConfirmReceived(t, u, role, event)
  PROVE  Inv'
<1>1. PICK row \in Transition(ticket[t], event, u, role) : Silently(t, row)
  BY DEF ConfirmReceived
<1>2. row \in OpenRow /\ Safe(row)
  BY TransitionSafe DEF ConfirmReceived
<1>3. QED
  BY <1>1, <1>2, SilentlyKeepsInv

\* Writing a document number changes nothing the invariant reads.
LEMMA NumberedRow ==
  ASSUME NEW row \in OpenRow, Safe(row), NEW n \in Numbers \cup {NA}
  PROVE  /\ [row EXCEPT !.contractNo = n] \in OpenRow
         /\ Safe([row EXCEPT !.contractNo = n])
         /\ [row EXCEPT !.paymentNo = n] \in OpenRow
         /\ Safe([row EXCEPT !.paymentNo = n])
BY DEF OpenRow, Safe

\* Going to Accounting is refused while the ticket is flagged.
LEMMA AccountingKeepsInv ==
  ASSUME Inv, NEW t \in Ticket, NEW u \in User, NEW role,
         NEW n \in Numbers \cup {NA}, SubmitToAccounting(t, u, role, n)
  PROVE  Inv'
<1>1. PICK row \in Transition(ticket[t], "sendToAccounting", u, role) :
         Silently(t, WithNumber(row, n))
  BY DEF SubmitToAccounting
<1>2. row \in OpenRow /\ Safe(row)
  BY TransitionSafe DEF SubmitToAccounting
<1>3. WithNumber(row, n) \in OpenRow /\ Safe(WithNumber(row, n))
  BY <1>2, NumberedRow DEF WithNumber
<1>4. QED
  BY <1>1, <1>3, SilentlyKeepsInv

\* DCC2's receipts, accounting, skip and close keep Inv.
LEMMA Dcc2KeepsInv ==
  ASSUME Inv, NEW t \in Ticket, Dcc2Step(t)
  PROVE  Inv'
<1> PICK u \in Dcc2 :
      \/ ConfirmReceivedByDcc2(t, u)
      \/ \E n \in Numbers \cup {NA} : SubmitToAccountingByDcc2(t, u, n)
      \/ \E n \in Numbers \cup {NA} : SkipToCompleted(t, n)
      \/ CompleteContract(t, u)
  BY DEF Dcc2Step
<1>0. u \in User
  BY DEF User
<1>1. ASSUME ConfirmReceivedByDcc2(t, u) PROVE Inv'
  BY <1>0, <1>1, ReceiptKeepsInv DEF ConfirmReceivedByDcc2
<1>2. ASSUME NEW n \in Numbers \cup {NA}, SubmitToAccountingByDcc2(t, u, n)
      PROVE  Inv'
  BY <1>0, <1>2, AccountingKeepsInv DEF SubmitToAccountingByDcc2
<1>3. ASSUME NEW n \in Numbers \cup {NA}, SkipToCompleted(t, n) PROVE Inv'
  <2>1. PICK row \in SkipChain(ticket[t]) :
           WithIntent(t, IF n = NA THEN row ELSE [row EXCEPT !.contractNo = n])
    BY <1>3 DEF SkipToCompleted
  <2>2. row \in OpenRow /\ Untouched(row, ticket[t])
    BY RowOf, SkipFacts
  <2>3. ~row.flag
    BY <1>3, <2>2 DEF SkipToCompleted, Untouched
  <2>4. Safe(row)
    BY <2>3 DEF Safe
  <2>5. CASE n = NA
    BY <2>1, <2>2, <2>4, <2>5, WithIntentKeepsInv
  <2>6. CASE n # NA
    BY <2>1, <2>2, <2>4, <2>6, NumberedRow, WithIntentKeepsInv
  <2>7. QED
    BY <2>5, <2>6
<1>4. ASSUME CompleteContract(t, u) PROVE Inv'
  <2>1. PICK row \in Transition(ticket[t], "completeContract", u, "DCC2") :
           WithIntent(t, row)
    BY <1>4 DEF CompleteContract
  <2>2. row \in OpenRow /\ Safe(row)
    BY <1>0, <1>4, TransitionSafe DEF CompleteContract
  <2>3. QED
    BY <2>1, <2>2, WithIntentKeepsInv
<1>5. QED
  BY <1>1, <1>2, <1>3, <1>4

\* DCC3's receipt and close keep Inv.
LEMMA Dcc3KeepsInv ==
  ASSUME Inv, NEW t \in Ticket, Dcc3Step(t)
  PROVE  Inv'
<1> PICK u \in Dcc3 : \/ ConfirmReceivedByDcc3(t, u)
                      \/ \E n \in Numbers : SendAccountingDcc3(t, u, n)
  BY DEF Dcc3Step
<1>0. u \in User
  BY DEF User
<1>1. ASSUME ConfirmReceivedByDcc3(t, u) PROVE Inv'
  BY <1>0, <1>1, ReceiptKeepsInv DEF ConfirmReceivedByDcc3
<1>2. ASSUME NEW n \in Numbers, SendAccountingDcc3(t, u, n) PROVE Inv'
  BY <1>0, <1>2, AccountingKeepsInv DEF SendAccountingDcc3
<1>3. QED
  BY <1>1, <1>2

\* The automated steps keep Inv.
LEMMA SystemKeepsInv ==
  ASSUME Inv, NEW t \in Ticket, SystemStep(t)
  PROVE  Inv'
<1>1. ASSUME LockExpires(t) PROVE Inv'
  BY <1>1 DEF LockExpires, Inv, TypeOK, FlagBlocksReceipt
<1>2. ASSUME AutoReturn(t) PROVE Inv'
  <2>1. PICK row \in Transition(ticket[t], "auto_return", System, "DCC1") :
           /\ Update(t, row)
           /\ requests' = requests \cup
                {[kind |-> "notice", ticket |-> t, round |-> row.round]}
    BY <1>2 DEF AutoReturn
  <2>2. System \in User /\ "auto_return" \notin FlagGuarded
    BY DEF User, FlagGuarded
  <2>3. row \in OpenRow /\ Safe(row)
    BY <2>2, TransitionSafe
  <2>4. /\ ticket' \in [Ticket -> Row]
        /\ FlagBlocksReceipt'
        /\ row \in Row
    BY <2>1, <2>3, WriteKeepsTable DEF Update
  <2>5. [kind |-> "notice", ticket |-> t, round |-> row.round] \in InFlight
    BY <2>4 DEF InFlight, Row
  <2>6. UNCHANGED <<lock, nextSeq, outbox>>
    BY <1>2, <2>1 DEF AutoReturn, Update
  <2>7. QED
    BY <2>1, <2>4, <2>5, <2>6 DEF Inv, TypeOK
<1>3. QED
  BY <1>1, <1>2 DEF SystemStep

\* What the captured values of a request in flight may be.
LEMMA RequestTyped ==
  ASSUME Inv, NEW r \in requests
  PROVE  /\ r.ticket \in Ticket
         /\ r.kind \in {"confirm", "pick", "undo"} => r.user \in Dcc1
         /\ r.kind = "undo" => r.target \in Audit
         /\ r.kind = "edit" => r.flow \in Flow /\ r.contractNo \in Numbers \cup {NA}
         /\ r.kind = "notice" => r.round \in 0..MaxRound
<1>1. r \in InFlight
  BY DEF Inv, TypeOK
<1>2. QED
  BY <1>1 DEF InFlight

\* A request that commits with the values it captured keeps Inv as well.
LEMMA RequestKeepsInv ==
  ASSUME Inv, NEW r \in requests, RequestStep(r)
  PROVE  Inv'
<1> DEFINE t == r.ticket
<1>0. t \in Ticket /\ ticket[t] \in OpenRow /\ Safe(ticket[t])
  BY RequestTyped, RowOf
<1>r. requests \ {r} \subseteq InFlight
  BY DEF Inv, TypeOK
<1> HIDE DEF t
<1>1. ASSUME EditCommit(r) PROVE Inv'
  <2> DEFINE row == [ticket[t] EXCEPT !.flow = r.flow, !.contractNo = r.contractNo]
  <2>1. /\ Write(t, row)
        /\ UNCHANGED <<lock, nextSeq, outbox>>
        /\ requests' = requests \ {r}
    BY <1>1 DEF EditCommit, Update, Finish, t
  <2>2. r.flow \in Flow /\ r.contractNo \in Numbers \cup {NA}
    BY <1>1, RequestTyped DEF EditCommit
  <2>3. row \in OpenRow /\ Safe(row)
    BY <1>0, <2>2 DEF OpenRow, Safe
  <2> HIDE DEF row
  <2>4. ticket' \in [Ticket -> Row] /\ FlagBlocksReceipt'
    BY <1>0, <2>1, <2>3, WriteKeepsTable
  <2>5. QED
    BY <1>r, <2>1, <2>4 DEF Inv, TypeOK
<1>2. ASSUME PickCommit(r) PROVE Inv'
  <2>1. r.user \in Dcc1
    BY <1>2, RequestTyped DEF PickCommit
  <2>2. lock' \in [Ticket -> Dcc1 \cup {NoOne}]
    BY <1>0, <1>2, <2>1 DEF PickCommit, Inv, TypeOK
  <2>3. UNCHANGED <<ticket, nextSeq, outbox>> /\ requests' = requests \ {r}
    BY <1>2 DEF PickCommit, Finish
  <2>4. QED
    BY <1>r, <2>2, <2>3 DEF Inv, TypeOK, FlagBlocksReceipt
<1>3. ASSUME ConfirmCommit(r) PROVE Inv'
  <2>1. PICK row \in Transition(ticket[t], "submitToAndy", r.user, "DCC1") :
           Write(t, [row EXCEPT !.code = Mint(ticket[t])])
    <3>1. PICK row \in Transition(ticket[t], "submitToAndy", r.user, "DCC1") :
             Write(t, [row EXCEPT !.code = Mint(row)])
      BY <1>3 DEF ConfirmCommit, t
    <3>2. row.code = ticket[t].code /\ row.flow = ticket[t].flow
      <4>1. r.user \in User
        BY <1>3, RequestTyped DEF ConfirmCommit, User
      <4>2. Untouched(row, ticket[t])
        BY <1>0, <4>1, TransitionFacts
      <4>3. QED
        BY <4>2 DEF Untouched
    <3>3. Mint(row) = Mint(ticket[t])
      BY <3>2 DEF Mint, Minted
    <3>4. QED
      BY <3>1, <3>3
  <2>2. PrefixForFlow(ticket[t].flow) \in Prefix
    BY DEF PrefixForFlow, Prefix
  <2>3. nextSeq \in [Prefix -> Nat \ {0}]
    BY DEF Inv, TypeOK
  <2>4. Mint(ticket[t]) \in Code
    BY <1>0, <2>2, <2>3 DEF Mint, Code, OpenRow
  <2>5. row \in OpenRow /\ Safe(row)
    <3>1. r.user \in User /\ "submitToAndy" \notin FlagGuarded
      BY <1>3, RequestTyped DEF ConfirmCommit, User, FlagGuarded
    <3>2. QED
      BY <1>0, <3>1, TransitionSafe
  <2> DEFINE coded == [row EXCEPT !.code = Mint(ticket[t])]
  <2>6. coded \in OpenRow /\ Safe(coded)
    BY <2>4, <2>5 DEF OpenRow, Safe
  <2>7. Write(t, coded)
    BY <2>1
  <2> HIDE DEF coded
  <2>8. ticket' \in [Ticket -> Row] /\ FlagBlocksReceipt'
    BY <1>0, <2>6, <2>7, WriteKeepsTable
  <2>9. nextSeq' \in [Prefix -> Nat \ {0}]
    <3>1. nextSeq' = CounterAfter(ticket[t])
      BY <1>3 DEF ConfirmCommit, t
    <3>2. nextSeq[PrefixForFlow(ticket[t].flow)] + 1 \in Nat \ {0}
      BY <2>2, <2>3
    <3>3. QED
      BY <2>2, <2>3, <3>1, <3>2 DEF CounterAfter
  <2>10. lock' \in [Ticket -> Dcc1 \cup {NoOne}]
    BY <1>0, <1>3 DEF ConfirmCommit, Inv, TypeOK
  <2>11. UNCHANGED outbox /\ requests' = requests \ {r}
    BY <1>3 DEF ConfirmCommit, Finish
  <2>12. QED
    BY <1>r, <2>8, <2>9, <2>10, <2>11 DEF Inv, TypeOK
<1>4. ASSUME UndoCommit(r) PROVE Inv'
  <2>1. PICK row \in UndoTransition(ticket[t], r.target, r.user, "DCC1") :
           /\ Update(t, row)
           /\ outbox' = outbox \cup EmailIntent(t, row)
    BY <1>4 DEF UndoCommit, t
  <2>2. r.user \in User /\ r.target \in Audit
    BY <1>4, RequestTyped DEF UndoCommit, User
  <2>3. row \in OpenRow /\ Safe(row)
    BY <1>0, <2>2, UndoFacts DEF Safe
  <2>4. ticket' \in [Ticket -> Row] /\ FlagBlocksReceipt' /\ row \in Row
    BY <1>0, <2>1, <2>3, WriteKeepsTable DEF Update
  <2>5. outbox' \subseteq
          Ticket \X (0..MaxRound) \X {"Completed", "Returned", "auto_returned"}
    BY <1>0, <2>1, <2>4, IntentTyped DEF Inv, TypeOK
  <2>6. UNCHANGED <<lock, nextSeq>> /\ requests' = requests \ {r}
    BY <1>4, <2>1 DEF UndoCommit, Update, Finish
  <2>7. QED
    BY <1>r, <2>4, <2>5, <2>6 DEF Inv, TypeOK
<1>5. ASSUME EnqueueNotice(r) PROVE Inv'
  <2>1. <<t, r.round, "auto_returned">> \in
          Ticket \X (0..MaxRound) \X {"Completed", "Returned", "auto_returned"}
    BY <1>0, <1>5, RequestTyped DEF EnqueueNotice
  <2>2. /\ outbox' = outbox \cup {<<t, r.round, "auto_returned">>}
        /\ UNCHANGED <<ticket, lock, nextSeq>>
        /\ requests' = requests \ {r}
    BY <1>5 DEF EnqueueNotice, Finish, t
  <2>3. QED
    BY <1>r, <2>1, <2>2 DEF Inv, TypeOK, FlagBlocksReceipt
<1>6. ASSUME Abandon(r) PROVE Inv'
  BY <1>6, FinishKeepsInv DEF Abandon
<1>7. QED
  BY <1>1, <1>2, <1>3, <1>4, <1>5, <1>6 DEF RequestStep

-----------------------------------------------------------------------------
(***************************************************************************)
(* The theorems.                                                           *)
(***************************************************************************)
\* The empty database satisfies Inv.
LEMMA InitInv == Init => Inv
<1> SUFFICES ASSUME Init PROVE Inv
  OBVIOUS
<1>1. (CHOOSE a \in Applicant : TRUE) \in Applicant
  BY SomeApplicant
<1>2. AbsentRow \in Row /\ ~AbsentRow.flag
  BY <1>1, NoCodeTyped, CreatedTyped, BoundAssumption DEF AbsentRow, Row, Flow
<1>3. QED
  BY <1>2 DEF Init, Inv, TypeOK, FlagBlocksReceipt

\* Every step of every handler keeps Inv.
LEMMA NextInv == Inv /\ [Next]_vars => Inv'
<1> SUFFICES ASSUME Inv, [Next]_vars PROVE Inv'
  OBVIOUS
<1>1. CASE Next
  BY <1>1, ApplicantKeepsInv, Dcc1KeepsInv, ReconcileKeepsInv, Dcc2KeepsInv,
     Dcc3KeepsInv, SystemKeepsInv, RequestKeepsInv DEF Next
<1>2. CASE UNCHANGED vars
  BY <1>2 DEF vars, Inv, TypeOK, FlagBlocksReceipt
<1>3. QED
  BY <1>1, <1>2

\* Types and the reconcile rule hold together in every reachable state.
THEOREM Invariance == Spec => []Inv
BY InitInv, NextInv, PTL DEF Spec

\* Type correctness: no handler ever stores a value outside its column's type.
THEOREM TypeCorrect == Spec => []TypeOK
<1>1. Inv => TypeOK
  BY DEF Inv
<1>2. QED
  BY <1>1, Invariance, PTL

\* A ticket flagged for missing paper is never past the receipt of that paper,
\* for any number of tickets, users, rounds and requests in flight.
THEOREM FlagNeverPassesReceipt == Spec => []FlagBlocksReceipt
<1>1. Inv => FlagBlocksReceipt
  BY DEF Inv
<1>2. QED
  BY <1>1, Invariance, PTL

-----------------------------------------------------------------------------
(***************************************************************************)
(* What an operation does to the code of a row.                            *)
(***************************************************************************)

\* The edge leads to a status that needs a code only from such a status, or
\* when it is the intake.
Intake(e) == e.to \notin Uncoded => e.from \notin Uncoded \/ e.event = "submitToAndy"

\* A move that can be undone leads to a status that needs a code.
Forward(e) == e.reversible => e.to \notin Uncoded

\* The only edge out of the statuses without a code is the intake, and every
\* undo starts from a status with one.
LEMMA EdgesOutOfUncoded == \A e \in Edges : Intake(e) /\ Forward(e)
<1>1. \A e \in SharedEdges : Intake(e) /\ Forward(e)
  BY DEF SharedEdges, HeavyReturn, Reversible, Plain, EdgeOf, Uncoded, Intake,
         Forward
<1>2. \A e \in GeneralEdges : Intake(e) /\ Forward(e)
  BY DEF GeneralEdges, Reversible, Plain, EdgeOf, Uncoded, Intake, Forward
<1>3. \A e \in ContractEdges : Intake(e) /\ Forward(e)
  BY DEF ContractEdges, HeavyReturn, Reversible, Plain, EdgeOf, Uncoded, Intake,
         Forward
<1>4. \A e \in PaymentEdges : Intake(e) /\ Forward(e)
  BY DEF PaymentEdges, HeavyReturn, Reversible, Plain, EdgeOf, Uncoded, Intake,
         Forward
<1>5. QED
  BY <1>1, <1>2, <1>3, <1>4 DEF Edges

\* The row is stored with the code it had, and does not come to need one.
Kept(new, row) == /\ new.code = row.code
                  /\ new.status \in Status
                  /\ new.status \notin Uncoded => row.status \notin Uncoded

\* Every transition but the intake keeps the code and needs none it did not.
LEMMA TransitionKept ==
  ASSUME NEW row \in OpenRow, NEW event, event # "submitToAndy", NEW u \in User,
         NEW role, NEW new \in Transition(row, event, u, role)
  PROVE  Kept(new, row)
<1>1. PICK e \in FindEdge(row.status, event, row.flow) : new.status = e.to
  BY DEF Transition, OpenRow
<1>2. e \in Edges /\ e.from = row.status /\ e.event = event
  BY FoundEdges
<1>3. Untouched(new, row)
  BY TransitionFacts
<1>4. QED
  BY <1>1, <1>2, <1>3, EdgesTyped, EdgesOutOfUncoded DEF Kept, Intake, Untouched

\* So does an undo.
LEMMA UndoKept ==
  ASSUME NEW row \in OpenRow, NEW target \in Audit, NEW u \in User, NEW role,
         NEW new \in UndoTransition(row, target, u, role)
  PROVE  Kept(new, row)
<1>1. PICK e \in FindEdge(target.from, target.event, row.flow) :
         e.reversible /\ e.to = row.status /\ new.status = target.from
  BY DEF UndoTransition, OpenRow
<1>2. e \in Edges /\ e.from = target.from
  BY FoundEdges
<1>3. Untouched(new, row)
  BY UndoFacts
<1>4. QED
  BY <1>1, <1>2, <1>3, EdgesTyped, EdgesOutOfUncoded DEF Kept, Forward, Untouched

\* One more step of a chain.
LEMMA AndThenKept ==
  ASSUME NEW row \in OpenRow, NEW rows, NEW event, event # "submitToAndy",
         NEW u \in User, NEW role,
         \A mid \in rows : mid \in OpenRow /\ Kept(mid, row)
  PROVE  \A new \in AndThen(rows, event, u, role) : new \in OpenRow /\ Kept(new, row)
<1> SUFFICES ASSUME NEW new \in AndThen(rows, event, u, role)
             PROVE  new \in OpenRow /\ Kept(new, row)
  OBVIOUS
<1>1. PICK mid \in rows : new \in Transition(mid, event, u, role)
  BY DEF AndThen
<1>2. new \in OpenRow /\ Kept(new, mid)
  BY <1>1, TransitionFacts, TransitionKept
<1>3. QED
  BY <1>1, <1>2 DEF Kept

\* The chain of a reopen.
LEMMA ReopenKept ==
  ASSUME NEW row \in OpenRow, NEW u \in User, NEW new \in ReopenChain(row, u)
  PROVE  Kept(new, row)
<1> DEFINE reopened == Transition(row, "reopen", u, "DCC1")
<1>1. \A mid \in reopened : mid \in OpenRow /\ Kept(mid, row)
  BY TransitionFacts, TransitionKept
<1>2. new \in AndThen(reopened, "sendBack", u, "DCC1")
  BY DEF ReopenChain
<1> HIDE DEF reopened
<1>3. QED
  BY <1>1, <1>2, AndThenKept

\* The chain of Skip Completed.
LEMMA SkipKept ==
  ASSUME NEW row \in OpenRow, NEW new \in SkipChain(row)
  PROVE  Kept(new, row)
<1> DEFINE s1 == Transition(row, "sendToAccounting", System, "DCC2")
           s2 == AndThen(s1, "receiveFromAcc", System, "DCC1")
           s3 == AndThen(s2, "submitToBop", System, "DCC1")
           s4 == AndThen(s3, "bopApprove", System, "DCC1")
           s5 == AndThen(s4, "confirmReceivedByDcc2", System, "DCC2")
           Good(rows) == \A mid \in rows : mid \in OpenRow /\ Kept(mid, row)
<1>0. System \in User
  BY DEF User
<1>1. Good(s1)
  BY <1>0, TransitionFacts, TransitionKept
<1>2. new \in AndThen(s5, "completeContract", System, "DCC2")
  BY DEF SkipChain
<1> HIDE DEF s1
<1>3. Good(s2)
  BY <1>0, <1>1, AndThenKept
<1> HIDE DEF s2
<1>4. Good(s3)
  BY <1>0, <1>3, AndThenKept
<1> HIDE DEF s3
<1>5. Good(s4)
  BY <1>0, <1>4, AndThenKept
<1> HIDE DEF s4
<1>6. Good(s5)
  BY <1>0, <1>5, AndThenKept
<1> HIDE DEF s5
<1>7. QED
  BY <1>0, <1>2, <1>6, AndThenKept

-----------------------------------------------------------------------------
(***************************************************************************)
(* What a step does to the table and to the counter: nothing, or it stores *)
(* one row, which keeps its code or is given one by the intake.            *)
(***************************************************************************)

\* A row that is not there has no code.
AbsentUncoded == \A t \in Ticket : ~Exists(t) => ~Minted(ticket[t])

Stored(t) == ticket' = [ticket EXCEPT ![t] = ticket'[t]]

Keeps(t) == /\ Stored(t)
            /\ Kept(ticket'[t], ticket[t])
            /\ UNCHANGED nextSeq

Mints(t) == /\ Stored(t)
            /\ ticket'[t].status \in Status
            /\ ticket'[t].code = Mint(ticket[t])
            /\ nextSeq' = CounterAfter(ticket[t])

RowStep == \/ UNCHANGED <<ticket, nextSeq>>
           \/ \E t \in Ticket : Keeps(t) \/ Mints(t)

\* The table after a write holds the row written.
LEMMA WriteStores ==
  ASSUME Inv, NEW t \in Ticket, NEW row, Write(t, row)
  PROVE  ticket'[t] = row /\ Stored(t)
BY DEF Write, Stored, Inv, TypeOK

\* A handler that stores a row which keeps its code makes such a step.
LEMMA UpdateKeeps ==
  ASSUME Inv, NEW t \in Ticket, NEW row, Update(t, row), Kept(row, ticket[t])
  PROVE  RowStep
<1>1. Write(t, row) /\ UNCHANGED nextSeq
  BY DEF Update
<1>2. ticket'[t] = row /\ Stored(t)
  BY <1>1, WriteStores
<1>3. QED
  BY <1>1, <1>2 DEF RowStep, Keeps

\* A transition other than the intake, stored with another flag or number.
LEMMA TransitionKeeps ==
  ASSUME Inv, NEW t \in Ticket, NEW event, event # "submitToAndy",
         NEW u \in User, NEW role,
         NEW row \in Transition(ticket[t], event, u, role),
         NEW new, new.code = row.code, new.status = row.status, Update(t, new)
  PROVE  RowStep
<1>1. Kept(row, ticket[t])
  BY RowOf, TransitionKept
<1>2. Kept(new, ticket[t])
  BY <1>1 DEF Kept
<1>3. QED
  BY <1>2, UpdateKeeps

\* The applicant's steps.
LEMMA ApplicantRowStep ==
  ASSUME Inv, AbsentUncoded, NEW t \in Ticket, ApplicantStep(t)
  PROVE  RowStep
<1>1. ASSUME NEW a \in Applicant, NEW f \in Flow, NEW n \in Numbers,
             Create(t, a, f, n)
      PROVE  RowStep
  <2> DEFINE row == NewRow(a, f, NormalizeContractNo(f, n))
  <2>1. Update(t, row)
    BY <1>1 DEF Create, Silently
  <2>2. ticket[t].code = NoCode
    BY <1>1 DEF Create, AbsentUncoded, Minted
  <2>3. row.code = NoCode /\ row.status = "Submitted"
    BY DEF NewRow
  <2> HIDE DEF row
  <2>4. Kept(row, ticket[t])
    BY <2>2, <2>3 DEF Kept, Uncoded, Status
  <2>5. QED
    BY <2>1, <2>4, UpdateKeeps
<1>2. ASSUME NEW f \in Flow, NEW n \in Numbers, EditBegin(t, f, n)
      PROVE  RowStep
  BY <1>2 DEF EditBegin, RowStep
<1>3. ASSUME NEW event, event # "submitToAndy", ByApplicant(t, event)
      PROVE  RowStep
  <2>1. ticket[t].applicant \in User
    BY RowOf DEF Row, User
  <2>2. PICK row \in Transition(ticket[t], event, ticket[t].applicant,
                                "Applicant") : Update(t, row)
    BY <1>3 DEF ByApplicant, WithIntent
  <2>3. QED
    BY <1>3, <2>1, <2>2, TransitionKeeps
<1>4. ASSUME Cancel(t) PROVE RowStep
  BY <1>3, <1>4 DEF Cancel
<1>5. ASSUME ConfirmReturnReceipt(t) PROVE RowStep
  BY <1>3, <1>5 DEF ConfirmReturnReceipt
<1>6. ASSUME Resubmit(t) PROVE RowStep
  BY <1>3, <1>6 DEF Resubmit
<1>7. QED
  BY <1>1, <1>2, <1>4, <1>5, <1>6 DEF ApplicantStep

\* DCC1's steps, but for the commit of an intake or an undo.
LEMMA Dcc1RowStep ==
  ASSUME Inv, NEW t \in Ticket, Dcc1Step(t)
  PROVE  RowStep
<1> PICK u \in Dcc1 : \/ PickBegin(t, u)
                      \/ Seize(t, u)
                      \/ ConfirmBegin(t, u)
                      \/ \E event \in GenericEvents : GenericAction(t, u, event)
                      \/ Reopen(t, u)
                      \/ UndoBegin(t, u)
                      \/ ReturnFromPushback(t, u)
  BY DEF Dcc1Step
<1>0. u \in User
  BY DEF User
<1>1. ASSUME PickBegin(t, u) \/ Seize(t, u) \/ ConfirmBegin(t, u) \/ UndoBegin(t, u)
      PROVE  RowStep
  BY <1>1 DEF PickBegin, Seize, ConfirmBegin, UndoBegin, RowStep
<1>2. ASSUME NEW event \in GenericEvents, GenericAction(t, u, event)
      PROVE  RowStep
  <2>1. PICK row \in Transition(ticket[t], event, u, "DCC1") : Update(t, row)
    BY <1>2 DEF GenericAction, WithIntent
  <2>2. event # "submitToAndy"
    BY DEF GenericEvents
  <2>3. QED
    BY <1>0, <2>1, <2>2, TransitionKeeps
<1>3. ASSUME Reopen(t, u) PROVE RowStep
  <2>1. PICK row \in ReopenChain(ticket[t], u) : Update(t, row)
    BY <1>3 DEF Reopen, WithIntent
  <2>2. Kept(row, ticket[t])
    BY <1>0, RowOf, ReopenKept
  <2>3. QED
    BY <2>1, <2>2, UpdateKeeps
<1>4. ASSUME ReturnFromPushback(t, u) PROVE RowStep
  <2>1. PICK row \in Transition(ticket[t], "sendBack", u, "DCC1") :
           Update(t, [row EXCEPT !.flag = FALSE])
    BY <1>4 DEF ReturnFromPushback, WithIntent
  <2> DEFINE new == [row EXCEPT !.flag = FALSE]
  <2>2. row \in OpenRow
    BY <1>0, RowOf, TransitionFacts
  <2>3. Update(t, new) /\ new.code = row.code /\ new.status = row.status
    BY <2>1, <2>2 DEF OpenRow
  <2> HIDE DEF new
  <2>4. QED
    BY <1>0, <2>3, TransitionKeeps
<1>5. QED
  BY <1>1, <1>2, <1>3, <1>4

\* The reconcile flag.
LEMMA ReconcileRowStep ==
  ASSUME Inv, NEW t \in Ticket, ReconcileStep(t)
  PROVE  RowStep
<1>1. PICK next \in BOOLEAN : SetReconcile(t, next)
  BY DEF ReconcileStep, FlagMissingPaper, ClearMissingPaper
<1> DEFINE row == [ticket[t] EXCEPT !.flag = next]
<1>2. Update(t, row) /\ ticket[t].status \in HandoverStates
  BY <1>1 DEF SetReconcile, Silently
<1>3. row.status = ticket[t].status /\ row.code = ticket[t].code
  BY RowOf DEF OpenRow
<1> HIDE DEF row
<1>4. Kept(row, ticket[t])
  BY <1>2, <1>3 DEF Kept, HandoverStates, Status
<1>5. QED
  BY <1>2, <1>4, UpdateKeeps

\* A receipt.
LEMMA ReceiptRowStep ==
  ASSUME Inv, NEW t \in Ticket, NEW u \in User, NEW role, NEW event,
         event # "submitToAndy", ConfirmReceived(t, u, role, event)
  PROVE  RowStep
<1>1. PICK row \in Transition(ticket[t], event, u, role) : Update(t, row)
  BY DEF ConfirmReceived, Silently
<1>2. QED
  BY <1>1, TransitionKeeps

\* A send to Accounting, with the number it writes.
LEMMA AccountingRowStep ==
  ASSUME Inv, NEW t \in Ticket, NEW u \in User, NEW role, NEW n,
         SubmitToAccounting(t, u, role, n)
  PROVE  RowStep
<1>1. PICK row \in Transition(ticket[t], "sendToAccounting", u, role) :
         Update(t, WithNumber(row, n))
  BY DEF SubmitToAccounting, Silently
<1>2. row \in OpenRow
  BY RowOf, TransitionFacts
<1>3. /\ WithNumber(row, n).code = row.code
      /\ WithNumber(row, n).status = row.status
  BY <1>2 DEF WithNumber, OpenRow
<1>4. QED
  BY <1>1, <1>3, TransitionKeeps

\* DCC2's steps.
LEMMA Dcc2RowStep ==
  ASSUME Inv, NEW t \in Ticket, Dcc2Step(t)
  PROVE  RowStep
<1> PICK u \in Dcc2 :
      \/ ConfirmReceivedByDcc2(t, u)
      \/ \E n \in Numbers \cup {NA} : SubmitToAccountingByDcc2(t, u, n)
      \/ \E n \in Numbers \cup {NA} : SkipToCompleted(t, n)
      \/ CompleteContract(t, u)
  BY DEF Dcc2Step
<1>0. u \in User
  BY DEF User
<1>1. ASSUME ConfirmReceivedByDcc2(t, u) PROVE RowStep
  BY <1>0, <1>1, ReceiptRowStep DEF ConfirmReceivedByDcc2
<1>2. ASSUME NEW n, SubmitToAccountingByDcc2(t, u, n) PROVE RowStep
  BY <1>0, <1>2, AccountingRowStep DEF SubmitToAccountingByDcc2
<1>3. ASSUME NEW n \in Numbers \cup {NA}, SkipToCompleted(t, n) PROVE RowStep
  <2>1. PICK row \in SkipChain(ticket[t]) :
           Update(t, IF n = NA THEN row ELSE [row EXCEPT !.contractNo = n])
    BY <1>3 DEF SkipToCompleted, WithIntent
  <2> DEFINE new == IF n = NA THEN row ELSE [row EXCEPT !.contractNo = n]
  <2>2. row \in OpenRow /\ Kept(row, ticket[t])
    BY RowOf, SkipFacts, SkipKept
  <2>3. Update(t, new) /\ new.code = row.code /\ new.status = row.status
    BY <2>1, <2>2 DEF OpenRow
  <2> HIDE DEF new
  <2>4. Kept(new, ticket[t])
    BY <2>2, <2>3 DEF Kept
  <2>5. QED
    BY <2>3, <2>4, UpdateKeeps
<1>4. ASSUME CompleteContract(t, u) PROVE RowStep
  <2>1. PICK row \in Transition(ticket[t], "completeContract", u, "DCC2") :
           Update(t, row)
    BY <1>4 DEF CompleteContract, WithIntent
  <2>2. QED
    BY <1>0, <2>1, TransitionKeeps
<1>5. QED
  BY <1>1, <1>2, <1>3, <1>4

\* DCC3's steps.
LEMMA Dcc3RowStep ==
  ASSUME Inv, NEW t \in Ticket, Dcc3Step(t)
  PROVE  RowStep
<1> PICK u \in Dcc3 : \/ ConfirmReceivedByDcc3(t, u)
                      \/ \E n \in Numbers : SendAccountingDcc3(t, u, n)
  BY DEF Dcc3Step
<1>0. u \in User
  BY DEF User
<1>1. ASSUME ConfirmReceivedByDcc3(t, u) PROVE RowStep
  BY <1>0, <1>1, ReceiptRowStep DEF ConfirmReceivedByDcc3
<1>2. ASSUME NEW n, SendAccountingDcc3(t, u, n) PROVE RowStep
  BY <1>0, <1>2, AccountingRowStep DEF SendAccountingDcc3
<1>3. QED
  BY <1>1, <1>2

\* The automated steps.
LEMMA SystemRowStep ==
  ASSUME Inv, NEW t \in Ticket, SystemStep(t)
  PROVE  RowStep
<1>1. ASSUME LockExpires(t) PROVE RowStep
  BY <1>1 DEF LockExpires, RowStep
<1>2. ASSUME AutoReturn(t) PROVE RowStep
  <2>1. PICK row \in Transition(ticket[t], "auto_return", System, "DCC1") :
           Update(t, row)
    BY <1>2 DEF AutoReturn
  <2>2. System \in User
    BY DEF User
  <2>3. QED
    BY <2>1, <2>2, TransitionKeeps
<1>3. QED
  BY <1>1, <1>2 DEF SystemStep

\* The commits of requests in flight; only that of an intake mints.
LEMMA RequestRowStep ==
  ASSUME Inv, NEW r \in requests, RequestStep(r)
  PROVE  RowStep
<1> DEFINE t == r.ticket
<1>0. t \in Ticket /\ ticket[t] \in OpenRow
  BY RequestTyped, RowOf
<1> HIDE DEF t
<1>1. ASSUME EditCommit(r) PROVE RowStep
  <2> DEFINE row == [ticket[t] EXCEPT !.flow = r.flow, !.contractNo = r.contractNo]
  <2>1. Update(t, row) /\ ticket[t].status \in Editable
    BY <1>1 DEF EditCommit, t
  <2>2. row.code = ticket[t].code /\ row.status = ticket[t].status
    BY <1>0 DEF OpenRow
  <2> HIDE DEF row
  <2>3. Kept(row, ticket[t])
    BY <2>1, <2>2 DEF Kept, Editable, Status
  <2>4. QED
    BY <1>0, <2>1, <2>3, UpdateKeeps
<1>2. ASSUME ConfirmCommit(r) PROVE RowStep
  <2>1. PICK row \in Transition(ticket[t], "submitToAndy", r.user, "DCC1") :
           Write(t, [row EXCEPT !.code = Mint(row)])
    BY <1>2 DEF ConfirmCommit, t
  <2>2. r.user \in User
    BY <1>2, RequestTyped DEF ConfirmCommit, User
  <2>3. row \in OpenRow /\ Untouched(row, ticket[t])
    BY <1>0, <2>2, TransitionFacts
  <2>4. Mint(row) = Mint(ticket[t])
    BY <2>3 DEF Mint, Minted, Untouched
  <2>5. row.status \in Status
    <3>1. PICK e \in FindEdge(ticket[t].status, "submitToAndy", ticket[t].flow) :
             row.status = e.to
      BY <1>0 DEF Transition, OpenRow
    <3>2. QED
      BY <3>1, FoundEdges, EdgesTyped
  <2> DEFINE coded == [row EXCEPT !.code = Mint(row)]
  <2>6. coded.code = Mint(ticket[t]) /\ coded.status \in Status
    BY <2>3, <2>4, <2>5 DEF OpenRow
  <2>7. Write(t, coded)
    BY <2>1
  <2> HIDE DEF coded
  <2>8. ticket'[t] = coded /\ Stored(t)
    BY <1>0, <2>7, WriteStores
  <2>9. nextSeq' = CounterAfter(ticket[t])
    BY <1>2 DEF ConfirmCommit, t
  <2>10. QED
    BY <1>0, <2>6, <2>8, <2>9 DEF RowStep, Mints
<1>3. ASSUME UndoCommit(r) PROVE RowStep
  <2>1. PICK row \in UndoTransition(ticket[t], r.target, r.user, "DCC1") :
           Update(t, row)
    BY <1>3 DEF UndoCommit, t
  <2>2. r.user \in User /\ r.target \in Audit
    BY <1>3, RequestTyped DEF UndoCommit, User
  <2>3. Kept(row, ticket[t])
    BY <1>0, <2>2, UndoKept
  <2>4. QED
    BY <1>0, <2>1, <2>3, UpdateKeeps
<1>4. ASSUME PickCommit(r) \/ EnqueueNotice(r) \/ Abandon(r) PROVE RowStep
  BY <1>4 DEF PickCommit, EnqueueNotice, Abandon, RowStep
<1>5. QED
  BY <1>1, <1>2, <1>3, <1>4 DEF RequestStep

\* Every step of every handler is a step of this kind.
LEMMA StepOfRow ==
  ASSUME Inv, AbsentUncoded, [Next]_vars
  PROVE  RowStep
<1>1. CASE Next
  BY <1>1, ApplicantRowStep, Dcc1RowStep, ReconcileRowStep, Dcc2RowStep,
     Dcc3RowStep, SystemRowStep, RequestRowStep DEF Next
<1>2. CASE UNCHANGED vars
  BY <1>2 DEF vars, RowStep
<1>3. QED
  BY <1>1, <1>2

-----------------------------------------------------------------------------
(***************************************************************************)
(* The invariant: the properties of codes, which no step can break one at a *)
(* time, and that a ticket that is not there has no code.                  *)
(***************************************************************************)
CodesInv == /\ Inv
            /\ AbsentUncoded
            /\ CodeBeyondPool
            /\ NumberingContiguous

\* What is stored of the ticket written, and of all the others.
LEMMA StoredRows ==
  ASSUME Inv, NEW t \in Ticket, Stored(t)
  PROVE  \A o \in Ticket \ {t} : ticket'[o] = ticket[o]
BY DEF Stored, Inv, TypeOK

\* A ticket that has a code is given no other one.
LEMMA RowStepKeepsCodes ==
  ASSUME Inv, RowStep, NEW o \in Ticket, Minted(ticket[o])
  PROVE  ticket'[o].code = ticket[o].code
<1>1. CASE UNCHANGED <<ticket, nextSeq>>
  BY <1>1
<1>2. ASSUME NEW t \in Ticket, Keeps(t) PROVE ticket'[o].code = ticket[o].code
  BY <1>2, StoredRows DEF Keeps, Kept
<1>3. ASSUME NEW t \in Ticket, Mints(t) PROVE ticket'[o].code = ticket[o].code
  BY <1>3, StoredRows DEF Mints, Mint
<1>4. QED
  BY <1>1, <1>2, <1>3 DEF RowStep

\* A code just minted is not the null code.
LEMMA MintIsACode ==
  ASSUME Inv, NEW t \in Ticket
  PROVE  Mint(ticket[t]) # NoCode
<1>1. CASE Minted(ticket[t])
  BY <1>1 DEF Mint, Minted
<1>2. CASE ~Minted(ticket[t])
  <2>1. nextSeq[PrefixForFlow(ticket[t].flow)] \in Nat \ {0}
    BY DEF Inv, TypeOK, PrefixForFlow, Prefix
  <2>2. QED
    BY <1>2, <2>1 DEF Mint, NoCode
<1>3. QED
  BY <1>1, <1>2

\* A row that is stored exists, and has a code where its status needs one.
LEMMA RowStepKeepsNeeds ==
  ASSUME CodesInv, RowStep
  PROVE  AbsentUncoded' /\ CodeBeyondPool'
<1> DEFINE Fits(row) == /\ row.status = "Absent" => row.code = NoCode
                        /\ row.status \notin Uncoded => row.code # NoCode
<1>1. \A o \in Ticket : Fits(ticket[o])
  BY DEF CodesInv, AbsentUncoded, CodeBeyondPool, Exists, Minted
<1>2. CASE UNCHANGED <<ticket, nextSeq>>
  BY <1>2 DEF CodesInv, AbsentUncoded, CodeBeyondPool, Exists, Minted
<1>3. ASSUME NEW t \in Ticket, Keeps(t) \/ Mints(t)
      PROVE  \A o \in Ticket : Fits(ticket'[o])
  <2>1. \A o \in Ticket \ {t} : ticket'[o] = ticket[o]
    BY <1>3, StoredRows DEF CodesInv, Keeps, Mints
  <2>2. "Absent" \notin Status
    BY DEF Status
  <2>3. ASSUME Keeps(t) PROVE Fits(ticket'[t])
    BY <1>1, <2>2, <2>3 DEF Keeps, Kept
  <2>4. ASSUME Mints(t) PROVE Fits(ticket'[t])
    BY <2>2, <2>4, MintIsACode DEF Mints, CodesInv
  <2>5. Fits(ticket'[t])
    BY <1>3, <2>3, <2>4
  <2>6. QED
    BY <1>1, <2>1, <2>5
<1>4. QED
  BY <1>2, <1>3 DEF RowStep, AbsentUncoded, CodeBeyondPool, Exists, Minted

\* Where all codes and the counters stay, so does the numbering.
LEMMA SameNumbering ==
  ASSUME NumberingContiguous, UNCHANGED nextSeq,
         \A o \in Ticket : ticket'[o].code = ticket[o].code
  PROVE  NumberingContiguous'
BY DEF NumberingContiguous, CodeOf, Minted

\* An intake that mints takes the counter's value and moves it by one, so the
\* codes of its prefix still are the numbers below the counter, each once.
LEMMA MintingKeepsNumbering ==
  ASSUME CodesInv, NEW t \in Ticket, Mints(t), ~Minted(ticket[t])
  PROVE  NumberingContiguous'
<1> DEFINE p == PrefixForFlow(ticket[t].flow)
           new == [prefix |-> p, seq |-> nextSeq[p]]
<1>1. p \in Prefix
  BY DEF PrefixForFlow, Prefix
<1>2. nextSeq \in [Prefix -> Nat \ {0}]
  BY DEF CodesInv, Inv, TypeOK
<1>3. ticket'[t].code = new /\ ticket[t].code = NoCode
  BY DEF Mints, Mint, Minted
<1>4. nextSeq' = [nextSeq EXCEPT ![p] = @ + 1]
  BY DEF Mints, CounterAfter
<1>5. \A o \in Ticket \ {t} : ticket'[o].code = ticket[o].code
  BY StoredRows DEF CodesInv, Mints
<1>6. \A q \in Prefix : nextSeq[q] \in Nat \ {0}
  BY <1>2
<1>7. \A q \in Prefix :
         nextSeq'[q] = IF q = p THEN nextSeq[p] + 1 ELSE nextSeq[q]
  BY <1>1, <1>2, <1>4
<1>8. new.prefix = p /\ new.seq = nextSeq[p] /\ NoCode.seq = 0
  BY DEF NoCode
<1> HIDE DEF p
<1>9. ASSUME NEW q \in Prefix, NEW n \in 1..nextSeq'[q] - 1
      PROVE  \E o \in Ticket : ticket'[o].code = [prefix |-> q, seq |-> n]
  <2>1. CASE q = p /\ n = nextSeq[p]
    BY <1>3, <2>1
  <2>2. CASE ~(q = p /\ n = nextSeq[p])
    <3>1. n \in 1..nextSeq[q] - 1
      BY <1>6, <1>7, <1>9, <2>2
    <3>2. PICK o \in Ticket : ticket[o].code = [prefix |-> q, seq |-> n]
      BY <3>1 DEF CodesInv, NumberingContiguous, CodeOf
    <3>3. ticket[o].code.seq # 0
      BY <3>1, <3>2
    <3>4. o # t
      BY <1>3, <1>8, <3>3
    <3>5. QED
      BY <1>5, <3>2, <3>4
  <2>3. QED
    BY <2>1, <2>2
<1>10. ASSUME NEW o \in Ticket, o # t, ticket[o].code # NoCode
       PROVE  /\ ticket[o].code.prefix \in Prefix
              /\ ticket[o].code.seq \in 1..nextSeq[ticket[o].code.prefix] - 1
  <2>1. ticket[o].code \in Code
    BY RowOf DEF CodesInv, Row
  <2>2. QED
    BY <1>10, <2>1 DEF CodesInv, NumberingContiguous, CodeOf, Minted, Code
<1>11. ASSUME NEW o \in Ticket, ticket'[o].code # NoCode
       PROVE  ticket'[o].code.seq \in 1..nextSeq'[ticket'[o].code.prefix] - 1
  <2>1. CASE o = t
    <3>1. nextSeq'[p] = nextSeq[p] + 1 /\ nextSeq[p] \in Nat \ {0}
      BY <1>1, <1>6, <1>7
    <3>2. nextSeq[p] \in 1..nextSeq'[p] - 1
      BY <3>1
    <3>3. QED
      BY <1>3, <1>8, <2>1, <3>2
  <2>2. CASE o # t
    <3> DEFINE c == ticket[o].code
    <3>1. ticket'[o].code = c /\ c.prefix \in Prefix
          /\ c.seq \in 1..nextSeq[c.prefix] - 1
      BY <1>5, <1>10, <1>11, <2>2
    <3> HIDE DEF c
    <3>2. c.seq \in 1..nextSeq'[c.prefix] - 1
      BY <1>6, <1>7, <3>1
    <3>3. QED
      BY <3>1, <3>2
  <2>3. QED
    BY <2>1, <2>2
<1>12. ASSUME NEW o \in Ticket, o # t PROVE ticket[o].code # new
  <2>1. CASE ticket[o].code = NoCode
    <3>1. new.seq # 0
      BY <1>1, <1>6, <1>8
    <3>2. QED
      BY <1>8, <2>1, <3>1
  <2>2. CASE ticket[o].code # NoCode
    <3>1. ticket[o].code.seq \in 1..nextSeq[ticket[o].code.prefix] - 1
      BY <1>10, <1>12, <2>2
    <3>2. ASSUME ticket[o].code = new PROVE FALSE
      <4>1. nextSeq[p] \in 1..nextSeq[p] - 1
        BY <1>8, <3>1, <3>2
      <4>2. QED
        BY <1>1, <1>6, <4>1
    <3>3. QED
      BY <3>2
  <2>3. QED
    BY <2>1, <2>2
<1> HIDE DEF new
<1>13. ASSUME NEW t1 \in Ticket, NEW t2 \in Ticket, t1 # t2,
              ticket'[t1].code # NoCode
       PROVE  ticket'[t1].code # ticket'[t2].code
  <2>1. CASE t1 = t
    BY <1>3, <1>5, <1>12, <1>13, <2>1
  <2>2. CASE t2 = t
    BY <1>3, <1>5, <1>12, <1>13, <2>2
  <2>3. CASE t1 # t /\ t2 # t
    BY <1>5, <1>13, <2>3 DEF CodesInv, NumberingContiguous, CodeOf, Minted
  <2>4. QED
    BY <2>1, <2>2, <2>3
<1>14. QED
  BY <1>9, <1>11, <1>13 DEF NumberingContiguous, CodeOf, Minted

\* Every step keeps the numbering.
LEMMA RowStepKeepsNumbering ==
  ASSUME CodesInv, RowStep
  PROVE  NumberingContiguous'
<1>1. CASE UNCHANGED <<ticket, nextSeq>>
  BY <1>1, SameNumbering DEF CodesInv
<1>2. ASSUME NEW t \in Ticket, Keeps(t) PROVE NumberingContiguous'
  <2>1. \A o \in Ticket : ticket'[o].code = ticket[o].code
    BY <1>2, StoredRows DEF CodesInv, Keeps, Kept
  <2>2. QED
    BY <1>2, <2>1, SameNumbering DEF CodesInv, Keeps
<1>3. ASSUME NEW t \in Ticket, Mints(t), Minted(ticket[t])
      PROVE  NumberingContiguous'
  <2>1. \A o \in Ticket : ticket'[o].code = ticket[o].code
    BY <1>3, StoredRows DEF CodesInv, Mints, Mint
  <2>2. UNCHANGED nextSeq
    BY <1>3 DEF Mints, CounterAfter
  <2>3. QED
    BY <2>1, <2>2, SameNumbering DEF CodesInv
<1>4. QED
  BY <1>1, <1>2, <1>3, MintingKeepsNumbering DEF RowStep

-----------------------------------------------------------------------------
(***************************************************************************)
(* The theorems.                                                           *)
(***************************************************************************)
\* The empty database satisfies the invariant.
LEMMA InitCodes == Init => CodesInv
<1> SUFFICES ASSUME Init PROVE CodesInv
  OBVIOUS
<1>1. \A t \in Ticket : ticket[t] = AbsentRow
  BY DEF Init
<1>2. /\ AbsentRow.status = "Absent"
      /\ ~Minted(AbsentRow)
  BY DEF AbsentRow, Minted
<1>4. AbsentUncoded /\ CodeBeyondPool
  BY <1>1, <1>2 DEF AbsentUncoded, CodeBeyondPool, Uncoded
<1>5. NumberingContiguous
  <2>1. \A p \in Prefix : 1..nextSeq[p] - 1 = {}
    BY DEF Init
  <2>2. QED
    BY <1>1, <1>2, <2>1 DEF NumberingContiguous
<1>6. QED
  BY <1>4, <1>5, InitInv DEF CodesInv

\* Every step of every handler keeps it.
LEMMA NextCodes == CodesInv /\ [Next]_vars => CodesInv'
<1> SUFFICES ASSUME CodesInv, [Next]_vars PROVE CodesInv'
  OBVIOUS
<1>1. Inv /\ AbsentUncoded
  BY DEF CodesInv
<1>2. RowStep
  BY <1>1, StepOfRow
<1>3. Inv'
  BY <1>1, NextInv
<1>4. AbsentUncoded' /\ CodeBeyondPool' /\ NumberingContiguous'
  BY <1>2, RowStepKeepsNeeds, RowStepKeepsNumbering
<1>5. QED
  BY <1>3, <1>4 DEF CodesInv

\* The invariant of the codes holds in every reachable state.
THEOREM CodesInvariance == Spec => []CodesInv
BY InitCodes, NextCodes, PTL DEF Spec

\* No ticket is processed or closed without a code, whatever returns, undos and
\* edits it went through.
THEOREM NoneProcessedUncoded == Spec => []CodeBeyondPool
<1>1. CodesInv => CodeBeyondPool
  BY DEF CodesInv
<1>2. QED
  BY <1>1, CodesInvariance, PTL

\* The codes of a prefix are the numbers below its counter, each on one ticket,
\* for any number of concurrent intakes and of intakes rolled back.
THEOREM CodesHaveNoGaps == Spec => []NumberingContiguous
<1>1. CodesInv => NumberingContiguous
  BY DEF CodesInv
<1>2. QED
  BY <1>1, CodesInvariance, PTL

\* A minted code is never taken away or replaced by any step.
THEOREM CodesAreForever == Spec => CodeImmutable
<1>1. CodesInv /\ [Next]_vars =>
        [\A t \in Ticket : Minted(ticket[t]) => ticket'[t].code = ticket[t].code]_vars
  <2> SUFFICES ASSUME CodesInv, [Next]_vars
               PROVE  \A t \in Ticket :
                        Minted(ticket[t]) => ticket'[t].code = ticket[t].code
    OBVIOUS
  <2>1. Inv /\ AbsentUncoded
    BY DEF CodesInv
  <2>2. RowStep
    BY <2>1, StepOfRow
  <2>3. QED
    BY <2>1, <2>2, RowStepKeepsCodes
<1>2. QED
  BY <1>1, CodesInvariance, PTL DEF Spec, CodeImmutable


-----------------------------------------------------------------------------
(***************************************************************************)
(* What is said of one row.                                                *)
(***************************************************************************)
Shared == {"Submitted", "SubmittedToVpAndy", "Completed", "Returned",
           "ReturnFixing", "Reopened", "Cancelled"}

\* The statuses on the line of a flow.
Line(flow) ==
  CASE flow = "General" -> Shared \cup {"SubmittedToBop"}
    [] flow = "Payment" -> Shared \cup {"SubmittedToDcc3", "ReceivedByDcc3",
                                        "SentToAccounting"}
    [] OTHER -> Shared \cup {"SubmittedToDcc2", "ReceivedByDcc2",
                             "SubmittedToAccounting", "ReceivedFromAcc",
                             "SubmittedToBop", "SubmittedToDcc2Hardcopy", "Hardcopy"}

OnLine(row) == row.status \in Line(row.flow) \cup {"Absent"}

\* The statuses a Contract ticket may have before it ever went to Accounting.
Early == {"Submitted", "SubmittedToVpAndy", "SubmittedToDcc2", "ReceivedByDcc2",
          "Returned", "ReturnFixing"}

Numberless(row) ==
  /\ row.flow = "Contract" /\ row.round = 0 /\ row.status \in Early =>
       row.contractNo = NA
  /\ row.status = "Absent" => row.round = 0

Sound(row) == OnLine(row) /\ Numberless(row)

Desk1 == {"SubmittedToVpAndy", "SubmittedToBop", "ReceivedFromAcc"}
Desk2 == {"ReceivedByDcc2", "Hardcopy"}

\* HolderFits, of one row; and no row is left Reopened, where only a chain passes.
Fits(row) ==
  /\ row.status # "Reopened"
  /\ row.status \in {"Returned", "ReturnFixing"} => row.holder = row.applicant
  /\ row.status \in Desk1 => row.holder \in Dcc1
  /\ row.status \in Desk2 => row.holder \in Dcc2
  /\ row.status = "ReceivedByDcc3" => row.holder \in Dcc3
  /\ row.status \notin Desk1 \cup Desk2 \cup {"Returned", "ReturnFixing", "ReceivedByDcc3"}
       => row.holder = NoOne

Mailing == {"Completed", "Returned"}

-----------------------------------------------------------------------------
(***************************************************************************)
(* The edges.                                                              *)
(***************************************************************************)
\* An edge of a flow, or one all flows share, stays on the flow's line.
Along(e) == \A f \in Flow : e.flow \in {f, "*"} =>
              /\ e.from \in Line(f) => e.to \in Line(f)
              /\ e.reversible => e.from \in Line(f)

\* No way of the Contract line leads back to before Accounting but a return
\* that opens a round.
Counted(e) == e.flow \in {"Contract", "*"} =>
                /\ e.to \in Early /\ ~e.heavy => e.from \in Early
                /\ e.reversible /\ e.from \in Early => e.to \in Early

\* Where a move by somebody of a role leaves the ticket on his own desk.
Lands(status, role) ==
  /\ status # "Reopened"
  /\ status \in Desk1 => role = "DCC1"
  /\ status \in Desk2 => role = "DCC2"
  /\ status = "ReceivedByDcc3" => role = "DCC3"
  /\ status \notin Desk1 \cup Desk2 \cup {"Returned", "ReturnFixing", "ReceivedByDcc3"}
       => status \in Terminal \/ StateOwner(status) \notin {role, "Applicant"}

\* A ticket gets onto a desk only by that desk's own move.
Landing(e) == /\ e.event # "reopen" => Lands(e.to, e.owner)
              /\ e.reversible => Lands(e.from, e.owner) /\ e.owner = "DCC1"

\* Where the events lead whose handlers write no intent, or that end a chain.
Ends(e) ==
  /\ e.event \in {"confirmReceivedByDcc2", "confirmReceivedByDcc3",
                  "sendToAccounting", "auto_return", "submitToAndy"}
       => e.to \notin Mailing
  /\ e.event = "sendBack" => e.to = "Returned"
  /\ e.event = "completeContract" => e.to = "Completed"
  /\ e.event = "auto_return" => e.to = "ReturnFixing"

\* A status that is no role's own is nobody's.
LEMMA NobodysStatus == NoOne \notin {"Applicant", "DCC1", "DCC2", "DCC3"}
BY NullIsNoRole DEF Role

\* Every edge has these four qualities.
LEMMA EdgesKeepLine == \A e \in Edges : Along(e) /\ Counted(e)
<1> USE DEF Along, Counted, Line, Shared, Early, Flow, HeavyReturn, Reversible, Plain, EdgeOf
<1>1. \A e \in SharedEdges : Along(e) /\ Counted(e)
  BY DEF SharedEdges
<1>2. \A e \in GeneralEdges : Along(e) /\ Counted(e)
  BY DEF GeneralEdges
<1>3. \A e \in ContractEdges : Along(e) /\ Counted(e)
  BY DEF ContractEdges
<1>4. \A e \in PaymentEdges : Along(e) /\ Counted(e)
  BY DEF PaymentEdges
<1>5. QED
  BY <1>1, <1>2, <1>3, <1>4 DEF Edges

\* The two about desks.
LEMMA EdgesLand == \A e \in Edges : Landing(e) /\ Ends(e)
<1> USE NobodysStatus DEF Landing, Lands, Ends, Desk1, Desk2, Mailing, Terminal,
        StateOwner, HeavyReturn, Reversible, Plain, EdgeOf
<1>1. \A e \in SharedEdges : Landing(e) /\ Ends(e)
  BY DEF SharedEdges
<1>2. \A e \in GeneralEdges : Landing(e) /\ Ends(e)
  BY DEF GeneralEdges
<1>3. \A e \in ContractEdges : Landing(e) /\ Ends(e)
  BY DEF ContractEdges
<1>4. \A e \in PaymentEdges : Landing(e) /\ Ends(e)
  BY DEF PaymentEdges
<1>5. QED
  BY <1>1, <1>2, <1>3, <1>4 DEF Edges

\* An edge found for a flow is the flow's own or a shared one.
LEMMA FoundFlow ==
  ASSUME NEW from, NEW event, NEW flow
  PROVE  \A e \in FindEdge(from, event, flow) : e.flow \in {flow, "*"}
BY DEF FindEdge

-----------------------------------------------------------------------------
(***************************************************************************)
(* The operations on a row.                                                *)
(***************************************************************************)
\* Who acts in a role is one of its users.
Seated(role, u) == /\ role = "DCC1" => u \in Dcc1
                   /\ role = "DCC2" => u \in Dcc2
                   /\ role = "DCC3" => u \in Dcc3

\* deriveHolder fits wherever such a user's move leaves the ticket.
LEMMA HolderLands ==
  ASSUME NEW to, NEW a, NEW u, NEW role, Lands(to, role),
         Seated(role, u) \/ to \in {"Returned", "ReturnFixing"} \cup Terminal
  PROVE  LET h == DeriveHolder(to, a, u, role)
         IN  /\ to # "Reopened"
             /\ to \in {"Returned", "ReturnFixing"} => h = a
             /\ to \in Desk1 => h \in Dcc1
             /\ to \in Desk2 => h \in Dcc2
             /\ to = "ReceivedByDcc3" => h \in Dcc3
             /\ to \notin Desk1 \cup Desk2 \cup {"Returned", "ReturnFixing", "ReceivedByDcc3"}
                  => h = NoOne
<1>1. CASE to \in {"Returned", "ReturnFixing"}
  BY <1>1 DEF DeriveHolder, StateOwner, Terminal, Desk1, Desk2
<1>2. CASE to \in Desk1
  BY <1>2 DEF DeriveHolder, StateOwner, Terminal, Desk1, Desk2, Lands, Seated
<1>3. CASE to \in Desk2
  BY <1>3 DEF DeriveHolder, StateOwner, Terminal, Desk1, Desk2, Lands, Seated
<1>4. CASE to = "ReceivedByDcc3"
  BY <1>4 DEF DeriveHolder, StateOwner, Terminal, Desk1, Desk2, Lands, Seated
<1>5. CASE to \notin Desk1 \cup Desk2 \cup {"Returned", "ReturnFixing", "ReceivedByDcc3"}
  BY <1>5 DEF DeriveHolder, Lands
<1>6. to # "Reopened"
  BY DEF Lands
<1>7. QED
  BY <1>1, <1>2, <1>3, <1>4, <1>5, <1>6

\* A transition keeps a row on its line and counts its returns.
LEMMA TransitionSound ==
  ASSUME NEW row \in OpenRow, Sound(row), NEW event, NEW u \in User, NEW role,
         NEW new \in Transition(row, event, u, role)
  PROVE  /\ new \in OpenRow /\ Sound(new) /\ new.round >= row.round
         /\ \E e \in Edges : /\ e.event = event /\ e.owner = role /\ new.status = e.to
                             /\ new.holder = DeriveHolder(e.to, row.applicant, u, role)
                             /\ new.applicant = row.applicant
<1>1. PICK e \in FindEdge(row.status, event, row.flow) :
         /\ e.owner = role
         /\ new = [row EXCEPT
                  !.status = e.to,
                  !.holder = DeriveHolder(e.to, row.applicant, u, role),
                  !.round  = IF e.heavy THEN row.round + 1 ELSE row.round,
                  !.last   = [event |-> event, from |-> row.status]]
  BY DEF Transition
<1>2. e \in Edges /\ e.from = row.status /\ e.event = event /\ e.flow \in {row.flow, "*"}
  BY FoundEdges, FoundFlow
<1>3. new \in OpenRow /\ Untouched(new, row)
  BY TransitionFacts
<1>4. /\ new.status = e.to
      /\ new.holder = DeriveHolder(e.to, row.applicant, u, role)
      /\ new.round = IF e.heavy THEN row.round + 1 ELSE row.round
  BY <1>1 DEF OpenRow
<1>5. row.flow \in Flow /\ row.round \in Nat /\ row.status # "Absent"
  BY <1>2, EdgesTyped DEF OpenRow, Status
<1>6. new.round >= row.round /\ (e.heavy => new.round > 0)
  BY <1>4, <1>5
<1>7. OnLine(new)
  BY <1>2, <1>3, <1>4, <1>5, EdgesKeepLine DEF Sound, OnLine, Along, Untouched
<1>8. Numberless(new)
  <2>1. new.status # "Absent"
    BY <1>2, <1>4, EdgesTyped DEF Status
  <2>2. ASSUME new.flow = "Contract", new.round = 0, new.status \in Early
        PROVE  new.contractNo = NA
    <3>1. ~e.heavy /\ row.round = 0 /\ row.flow = "Contract"
      BY <1>3, <1>4, <1>5, <2>2 DEF Untouched
    <3>2. row.status \in Early
      BY <1>2, <1>4, <2>2, <3>1, EdgesKeepLine DEF Counted
    <3>3. QED
      BY <1>3, <3>1, <3>2 DEF Sound, Numberless, Untouched
  <2>3. QED
    BY <2>1, <2>2 DEF Numberless
<1>9. QED
  BY <1>1, <1>2, <1>3, <1>4, <1>6, <1>7, <1>8 DEF Sound, Untouched

\* What a transition stores, and where its event may lead.
LEMMA TransitionGood ==
  ASSUME NEW row \in OpenRow, Sound(row), NEW event, event # "reopen", NEW u \in User,
         NEW role, Seated(role, u) \/ event \in {"sendBack", "auto_return", "completeContract"},
         NEW new \in Transition(row, event, u, role)
  PROVE  /\ new \in OpenRow /\ Sound(new) /\ Fits(new) /\ new.round >= row.round
         /\ event \in {"confirmReceivedByDcc2", "confirmReceivedByDcc3",
                       "sendToAccounting", "auto_return", "submitToAndy"}
              => new.status \notin Mailing
<1>1. new \in OpenRow /\ Sound(new) /\ new.round >= row.round
  BY TransitionSound
<1>2. PICK e \in Edges : /\ e.event = event /\ e.owner = role /\ new.status = e.to
                         /\ new.holder = DeriveHolder(e.to, row.applicant, u, role)
                         /\ new.applicant = row.applicant
  BY TransitionSound
<1>3. Lands(e.to, role) /\ Ends(e)
  BY <1>2, EdgesLand DEF Landing
<1>4. Seated(role, u) \/ e.to \in {"Returned", "ReturnFixing"} \cup Terminal
  BY <1>2, <1>3 DEF Ends, Terminal
<1>5. Fits(new)
  BY <1>2, <1>3, <1>4, HolderLands DEF Fits
<1>6. QED
  BY <1>1, <1>2, <1>3, <1>5 DEF Ends

\* So does an undo.
LEMMA UndoGood ==
  ASSUME NEW row \in OpenRow, Sound(row), NEW target \in Audit, NEW u \in Dcc1,
         NEW new \in UndoTransition(row, target, u, "DCC1")
  PROVE  new \in OpenRow /\ Sound(new) /\ Fits(new) /\ new.round = row.round
<1>1. PICK e \in FindEdge(target.from, target.event, row.flow) :
         /\ e.reversible /\ e.owner = "DCC1" /\ e.to = row.status
         /\ new = [row EXCEPT
                     !.status = target.from,
                     !.holder = DeriveHolder(target.from, row.applicant, u, "DCC1"),
                     !.last   = [event |-> "undo", from |-> row.status]]
  BY DEF UndoTransition
<1>2. e \in Edges /\ e.from = target.from /\ e.flow \in {row.flow, "*"}
  BY FoundEdges, FoundFlow
<1>3. u \in User
  BY DEF User
<1>4. new \in OpenRow /\ Untouched(new, row)
  BY <1>3, UndoFacts
<1>5. /\ new.status = e.from /\ new.round = row.round
      /\ new.holder = DeriveHolder(e.from, row.applicant, u, "DCC1")
  BY <1>1, <1>2 DEF OpenRow
<1>6. row.flow \in Flow
  BY DEF OpenRow
<1>7. OnLine(new)
  BY <1>1, <1>2, <1>4, <1>5, <1>6, EdgesKeepLine DEF OnLine, Along, Untouched
<1>8. Numberless(new)
  <2>1. new.status # "Absent"
    BY <1>2, <1>5, EdgesTyped DEF Status
  <2>2. ASSUME new.flow = "Contract", new.round = 0, new.status \in Early
        PROVE  new.contractNo = NA
    <3>1. row.status \in Early
      BY <1>1, <1>2, <1>4, <1>5, <2>2, EdgesKeepLine DEF Counted, Untouched
    <3>2. QED
      BY <1>4, <1>5, <2>2, <3>1 DEF Sound, Numberless, Untouched
  <2>3. QED
    BY <2>1, <2>2 DEF Numberless
<1>9. Fits(new)
  <2>1. Lands(e.from, "DCC1") /\ Seated("DCC1", u)
    BY <1>1, <1>2, EdgesLand DEF Landing, Seated
  <2>2. QED
    BY <1>4, <1>5, <2>1, HolderLands DEF Fits, Untouched
<1>10. QED
  BY <1>4, <1>5, <1>7, <1>8, <1>9 DEF Sound

\* The row a chain has got to.
Reached(mid, row) == mid \in OpenRow /\ Sound(mid) /\ mid.round >= row.round

\* One more step of a chain.
LEMMA AndThenSound ==
  ASSUME NEW row \in OpenRow, NEW rows, NEW event, NEW u \in User, NEW role,
         \A mid \in rows : Reached(mid, row)
  PROVE  \A new \in AndThen(rows, event, u, role) :
           /\ Reached(new, row)
           /\ event \in {"sendBack", "completeContract"} => Fits(new)
<1> SUFFICES ASSUME NEW new \in AndThen(rows, event, u, role)
             PROVE  /\ Reached(new, row)
                    /\ event \in {"sendBack", "completeContract"} => Fits(new)
  OBVIOUS
<1>1. PICK mid \in rows : new \in Transition(mid, event, u, role)
  BY DEF AndThen
<1>2. mid \in OpenRow /\ Sound(mid) /\ mid.round >= row.round
  BY <1>1 DEF Reached
<1>3. new \in OpenRow /\ Sound(new) /\ new.round >= mid.round
  BY <1>1, <1>2, TransitionSound
<1>4. new.round \in Nat /\ mid.round \in Nat /\ row.round \in Nat
  BY <1>2, <1>3 DEF OpenRow
<1>5. event \in {"sendBack", "completeContract"} => Fits(new)
  BY <1>1, <1>2, TransitionGood
<1>6. QED
  BY <1>2, <1>3, <1>4, <1>5 DEF Reached

\* The chain of a reopen ends Returned, with the applicant.
LEMMA ReopenGood ==
  ASSUME NEW row \in OpenRow, Sound(row), NEW u \in User, NEW new \in ReopenChain(row, u)
  PROVE  Reached(new, row) /\ Fits(new)
<1> DEFINE reopened == Transition(row, "reopen", u, "DCC1")
<1>1. \A mid \in reopened : Reached(mid, row)
  BY TransitionSound DEF Reached
<1>2. new \in AndThen(reopened, "sendBack", u, "DCC1")
  BY DEF ReopenChain
<1> HIDE DEF reopened
<1>3. QED
  BY <1>1, <1>2, AndThenSound

\* That of Skip Completed ends closed, with nobody.
LEMMA SkipGood ==
  ASSUME NEW row \in OpenRow, Sound(row), NEW new \in SkipChain(row)
  PROVE  Reached(new, row) /\ Fits(new) /\ new.status = "Completed"
<1> DEFINE s1 == Transition(row, "sendToAccounting", System, "DCC2")
           s2 == AndThen(s1, "receiveFromAcc", System, "DCC1")
           s3 == AndThen(s2, "submitToBop", System, "DCC1")
           s4 == AndThen(s3, "bopApprove", System, "DCC1")
           s5 == AndThen(s4, "confirmReceivedByDcc2", System, "DCC2")
           Good(rows) == \A mid \in rows : Reached(mid, row)
<1>0. System \in User
  BY DEF User
<1>1. Good(s1)
  BY <1>0, TransitionSound DEF Reached
<1>2. new \in AndThen(s5, "completeContract", System, "DCC2")
  BY DEF SkipChain
<1> HIDE DEF s1
<1>3. Good(s2)
  BY <1>0, <1>1, AndThenSound
<1> HIDE DEF s2
<1>4. Good(s3)
  BY <1>0, <1>3, AndThenSound
<1> HIDE DEF s3
<1>5. Good(s4)
  BY <1>0, <1>4, AndThenSound
<1> HIDE DEF s4
<1>6. Good(s5)
  BY <1>0, <1>5, AndThenSound
<1> HIDE DEF s5
<1>7. Reached(new, row) /\ Fits(new)
  BY <1>0, <1>2, <1>6, AndThenSound
<1>8. PICK mid \in s5 : new \in Transition(mid, "completeContract", System, "DCC2")
  BY <1>2 DEF AndThen
<1>9. mid \in OpenRow /\ Sound(mid)
  BY <1>6, <1>8 DEF Reached
<1>10. PICK e \in Edges : e.event = "completeContract" /\ new.status = e.to
  BY <1>0, <1>8, <1>9, TransitionSound
<1>11. new.status = "Completed"
  BY <1>10, EdgesLand DEF Ends
<1>12. QED
  BY <1>7, <1>11

-----------------------------------------------------------------------------
(***************************************************************************)
(* What a step does to the table, the outbox and the requests: it stores   *)
(* at most one row, which is sound, fits and is mailed if it is an         *)
(* outcome, and an edit that begins carries a number only beyond round 0.  *)
(***************************************************************************)
\* The number an edit of a Contract ticket carries was read beyond round 0.
Held(r) == r.kind = "edit" /\ r.flow = "Contract" /\ r.contractNo # NA =>
             ticket[r.ticket].round > 0

Joins == \A r \in requests' : r \in requests \/ Held(r)

Mailed(t, row, mails) == row.status \in Mailing => <<t, row.round, row.status>> \in mails

Lays(t) == /\ Stored(t)
           /\ Sound(ticket'[t]) /\ Fits(ticket'[t])
           /\ ticket'[t].round >= ticket[t].round
           /\ Mailed(t, ticket'[t], outbox')

DeskStep == /\ outbox \subseteq outbox'
            /\ Joins
            /\ UNCHANGED ticket \/ \E t \in Ticket : Lays(t)

SoundTable == \A t \in Ticket : Sound(ticket[t])

\* A handler that stores such a row makes such a step.
LEMMA WriteLays ==
  ASSUME Inv, NEW t \in Ticket, NEW row, Write(t, row), Sound(row), Fits(row),
         row.round >= ticket[t].round, Mailed(t, row, outbox'),
         outbox \subseteq outbox', requests' \subseteq requests
  PROVE  DeskStep
<1>1. ticket'[t] = row /\ Stored(t)
  BY WriteStores
<1>2. QED
  BY <1>1 DEF DeskStep, Lays, Joins

\* One without an intent must not store an outcome.
LEMMA SilentlyLays ==
  ASSUME Inv, NEW t \in Ticket, NEW row, Silently(t, row), Sound(row), Fits(row),
         row.round >= ticket[t].round, row.status \notin Mailing
  PROVE  DeskStep
<1>1. Write(t, row) /\ UNCHANGED <<outbox, requests>>
  BY DEF Silently, Update
<1>2. Mailed(t, row, outbox')
  BY DEF Mailed
<1>3. QED
  BY <1>1, <1>2, WriteLays

\* One with its intent may.
LEMMA WithIntentLays ==
  ASSUME Inv, NEW t \in Ticket, NEW row, WithIntent(t, row), Sound(row), Fits(row),
         row.round >= ticket[t].round
  PROVE  DeskStep
<1>1. /\ Write(t, row) /\ UNCHANGED requests
      /\ outbox' = outbox \cup EmailIntent(t, row)
  BY DEF WithIntent, Update
<1>2. Mailed(t, row, outbox')
  BY <1>1 DEF Mailed, Mailing, EmailIntent
<1>3. QED
  BY <1>1, <1>2, WriteLays

\* The row of a ticket, with what is said of it.
LEMMA SoundRowOf ==
  ASSUME Inv, SoundTable, NEW t \in Ticket
  PROVE  ticket[t] \in OpenRow /\ Sound(ticket[t])
BY RowOf DEF SoundTable

\* A request that begins, and is no edit with a number, changes nothing else.
LEMMA BeginJoins ==
  ASSUME NEW request, Begin(request), Held(request), UNCHANGED <<ticket, outbox>>
  PROVE  DeskStep
BY DEF Begin, DeskStep, Joins

\* A transition of a seated user, with or without its intent.
LEMMA MoveLays ==
  ASSUME Inv, SoundTable, NEW t \in Ticket, NEW event, event # "reopen", NEW u \in User,
         NEW role, Seated(role, u),
         \/ \E row \in Transition(ticket[t], event, u, role) : WithIntent(t, row)
         \/ /\ event \in {"confirmReceivedByDcc2", "confirmReceivedByDcc3"}
            /\ \E row \in Transition(ticket[t], event, u, role) : Silently(t, row)
  PROVE  DeskStep
<1>1. ticket[t] \in OpenRow /\ Sound(ticket[t])
  BY SoundRowOf
<1>2. ASSUME NEW row \in Transition(ticket[t], event, u, role)
      PROVE  /\ Sound(row) /\ Fits(row) /\ row.round >= ticket[t].round
             /\ event \in {"confirmReceivedByDcc2", "confirmReceivedByDcc3"} =>
                  row.status \notin Mailing
  BY <1>1, <1>2, TransitionGood
<1>3. QED
  BY <1>2, WithIntentLays, SilentlyLays

\* The applicant's steps.
LEMMA ApplicantDeskStep ==
  ASSUME Inv, SoundTable, NEW t \in Ticket, ApplicantStep(t)
  PROVE  DeskStep
<1>1. ASSUME NEW a \in Applicant, NEW f \in Flow, NEW n \in Numbers,
             Create(t, a, f, n)
      PROVE  DeskStep
  <2> DEFINE row == NewRow(a, f, NormalizeContractNo(f, n))
  <2>1. Silently(t, row) /\ ticket[t].status = "Absent"
    BY <1>1 DEF Create, Exists
  <2>2. ticket[t].round = 0
    BY <2>1 DEF SoundTable, Sound, Numberless
  <2>3. /\ row.status = "Submitted" /\ row.holder = NoOne /\ row.round = 0
        /\ row.flow = f /\ (f = "Contract" => row.contractNo = NA)
    BY DEF NewRow, NormalizeContractNo
  <2> HIDE DEF row
  <2>4. Sound(row)
    BY <2>3 DEF Sound, OnLine, Numberless, Line, Shared
  <2>5. Fits(row)
    BY <2>3 DEF Fits, Desk1, Desk2
  <2>6. row.status \notin Mailing /\ row.round >= ticket[t].round
    BY <2>2, <2>3 DEF Mailing
  <2>7. QED
    BY <2>1, <2>4, <2>5, <2>6, SilentlyLays
<1>2. ASSUME NEW f \in Flow, NEW n \in Numbers, EditBegin(t, f, n)
      PROVE  DeskStep
  <2> DEFINE no == IF f = "Contract" /\ Minted(ticket[t])
                     THEN ticket[t].contractNo ELSE NormalizeContractNo(f, n)
             request == [kind |-> "edit", ticket |-> t, flow |-> f,
                         contractNo |-> no]
  <2>1. /\ Begin(request) /\ UNCHANGED <<ticket, outbox>>
        /\ ticket[t].status \in Editable
        /\ Minted(ticket[t]) => f = ticket[t].flow
    BY <1>2 DEF EditBegin
  <2>2. f = "Contract" /\ no # NA => ticket[t].round > 0
    <3> SUFFICES ASSUME f = "Contract", no # NA
                 PROVE  ticket[t].round > 0
      OBVIOUS
    <3>1. Minted(ticket[t]) /\ no = ticket[t].contractNo
      BY DEF NormalizeContractNo
    <3>2. ticket[t].flow = "Contract" /\ ticket[t].status \in Early
      BY <2>1, <3>1 DEF Editable, Early
    <3>3. ticket[t].round # 0 /\ ticket[t].round \in Nat
      BY <3>1, <3>2, SoundRowOf DEF Sound, Numberless, OpenRow
    <3>4. QED
      BY <3>3
  <2>3. /\ request.kind = "edit" /\ request.ticket = t /\ request.flow = f
        /\ request.contractNo = no
    OBVIOUS
  <2> HIDE DEF no, request
  <2>4. Held(request)
    BY <2>2, <2>3 DEF Held
  <2>5. QED
    BY <2>1, <2>4, BeginJoins
<1>3. ASSUME NEW event, event # "reopen", ByApplicant(t, event)
      PROVE  DeskStep
  <2>1. ticket[t].applicant \in User
    BY RowOf DEF Row, User
  <2>2. Seated("Applicant", ticket[t].applicant)
    BY DEF Seated
  <2>3. QED
    BY <1>3, <2>1, <2>2, MoveLays DEF ByApplicant
<1>4. ASSUME Cancel(t) PROVE DeskStep
  BY <1>3, <1>4 DEF Cancel
<1>5. ASSUME ConfirmReturnReceipt(t) PROVE DeskStep
  BY <1>3, <1>5 DEF ConfirmReturnReceipt
<1>6. ASSUME Resubmit(t) PROVE DeskStep
  BY <1>3, <1>6 DEF Resubmit
<1>7. QED
  BY <1>1, <1>2, <1>4, <1>5, <1>6 DEF ApplicantStep

\* DCC1's steps, but for the commit of an intake or an undo.
LEMMA Dcc1DeskStep ==
  ASSUME Inv, SoundTable, NEW t \in Ticket, Dcc1Step(t)
  PROVE  DeskStep
<1> PICK u \in Dcc1 : \/ PickBegin(t, u)
                      \/ Seize(t, u)
                      \/ ConfirmBegin(t, u)
                      \/ \E event \in GenericEvents : GenericAction(t, u, event)
                      \/ Reopen(t, u)
                      \/ UndoBegin(t, u)
                      \/ ReturnFromPushback(t, u)
  BY DEF Dcc1Step
<1>0. u \in User /\ Seated("DCC1", u)
  BY DEF User, Seated
<1>1. CASE PickBegin(t, u)
  BY <1>1, BeginJoins DEF PickBegin, Held
<1>2. CASE Seize(t, u)
  BY <1>2 DEF Seize, DeskStep, Joins
<1>3. CASE ConfirmBegin(t, u)
  BY <1>3, BeginJoins DEF ConfirmBegin, Held
<1>4. CASE UndoBegin(t, u)
  BY <1>4, BeginJoins DEF UndoBegin, Held
<1>5. ASSUME NEW event \in GenericEvents, GenericAction(t, u, event)
      PROVE  DeskStep
  <2>1. event # "reopen"
    BY DEF GenericEvents
  <2>2. QED
    BY <1>0, <1>5, <2>1, MoveLays DEF GenericAction
<1>6. CASE Reopen(t, u)
  <2>1. PICK row \in ReopenChain(ticket[t], u) : WithIntent(t, row)
    BY <1>6 DEF Reopen
  <2>2. Sound(row) /\ Fits(row) /\ row.round >= ticket[t].round
    BY <1>0, SoundRowOf, ReopenGood DEF Reached
  <2>3. QED
    BY <2>1, <2>2, WithIntentLays
<1>7. CASE ReturnFromPushback(t, u)
  <2>1. PICK row \in Transition(ticket[t], "sendBack", u, "DCC1") :
           WithIntent(t, [row EXCEPT !.flag = FALSE])
    BY <1>7 DEF ReturnFromPushback
  <2> DEFINE new == [row EXCEPT !.flag = FALSE]
  <2>2. row \in OpenRow /\ Sound(row) /\ Fits(row) /\ row.round >= ticket[t].round
    BY <1>0, SoundRowOf, TransitionGood
  <2>3. /\ new.status = row.status /\ new.flow = row.flow /\ new.round = row.round
        /\ new.contractNo = row.contractNo /\ new.holder = row.holder
        /\ new.applicant = row.applicant
    BY <2>2 DEF OpenRow
  <2> HIDE DEF new
  <2>4. Sound(new) /\ Fits(new) /\ new.round >= ticket[t].round
    BY <2>2, <2>3 DEF Sound, OnLine, Numberless, Fits
  <2>5. QED
    BY <2>1, <2>4, WithIntentLays DEF new
<1>8. QED
  BY <1>1, <1>2, <1>3, <1>4, <1>5, <1>6, <1>7

\* The reconcile flag moves nothing.
LEMMA ReconcileDeskStep ==
  ASSUME Inv, SoundTable, NEW t \in Ticket, Fits(ticket[t]), ReconcileStep(t)
  PROVE  DeskStep
<1>1. PICK next \in BOOLEAN : SetReconcile(t, next)
  BY DEF ReconcileStep, FlagMissingPaper, ClearMissingPaper
<1> DEFINE row == [ticket[t] EXCEPT !.flag = next]
<1>2. Silently(t, row) /\ ticket[t].status \in HandoverStates
  BY <1>1 DEF SetReconcile
<1>3. /\ row.status = ticket[t].status /\ row.flow = ticket[t].flow
      /\ row.round = ticket[t].round /\ row.contractNo = ticket[t].contractNo
      /\ row.holder = ticket[t].holder /\ row.applicant = ticket[t].applicant
      /\ row.round \in Nat
  BY RowOf DEF OpenRow
<1> HIDE DEF row
<1>4. Sound(row) /\ Fits(row) /\ row.round >= ticket[t].round
  BY <1>3, SoundRowOf DEF Sound, OnLine, Numberless, Fits
<1>5. row.status \notin Mailing
  BY <1>2, <1>3 DEF HandoverStates, Mailing
<1>6. QED
  BY <1>2, <1>4, <1>5, SilentlyLays

\* A send to Accounting, with the number it writes.
LEMMA AccountingDeskStep ==
  ASSUME Inv, SoundTable, NEW t \in Ticket, NEW u \in User, NEW role, Seated(role, u),
         NEW n, SubmitToAccounting(t, u, role, n)
  PROVE  DeskStep
<1>1. PICK row \in Transition(ticket[t], "sendToAccounting", u, role) :
         Silently(t, WithNumber(row, n))
  BY DEF SubmitToAccounting
<1>2. /\ row \in OpenRow /\ Sound(row) /\ Fits(row) /\ row.round >= ticket[t].round
      /\ row.status \notin Mailing
  BY SoundRowOf, TransitionGood
<1> DEFINE new == WithNumber(row, n)
<1>3. /\ new.status = row.status /\ new.flow = row.flow /\ new.round = row.round
      /\ new.holder = row.holder /\ new.applicant = row.applicant
  BY <1>2 DEF WithNumber, OpenRow
<1>4. row.status \notin Early
  <2>1. PICK e \in Edges : e.event = "sendToAccounting" /\ row.status = e.to
    BY SoundRowOf, TransitionSound
  <2>2. \A x \in Edges : x.event = "sendToAccounting" => x.to \notin Early
    BY DEF Edges, SharedEdges, GeneralEdges, ContractEdges, PaymentEdges, Early,
       HeavyReturn, Reversible, Plain, EdgeOf
  <2>3. QED
    BY <2>1, <2>2
<1> HIDE DEF new
<1>5. Sound(new) /\ Fits(new)
  BY <1>2, <1>3, <1>4 DEF Sound, OnLine, Numberless, Fits
<1>6. QED
  BY <1>1, <1>2, <1>3, <1>5, SilentlyLays DEF new

\* DCC2's steps.
LEMMA Dcc2DeskStep ==
  ASSUME Inv, SoundTable, NEW t \in Ticket, Dcc2Step(t)
  PROVE  DeskStep
<1> PICK u \in Dcc2 :
      \/ ConfirmReceivedByDcc2(t, u)
      \/ \E n \in Numbers \cup {NA} : SubmitToAccountingByDcc2(t, u, n)
      \/ \E n \in Numbers \cup {NA} : SkipToCompleted(t, n)
      \/ CompleteContract(t, u)
  BY DEF Dcc2Step
<1>0. u \in User /\ Seated("DCC2", u)
  BY DEF User, Seated
<1>1. CASE ConfirmReceivedByDcc2(t, u)
  BY <1>0, <1>1, MoveLays DEF ConfirmReceivedByDcc2, ConfirmReceived
<1>2. ASSUME NEW n, SubmitToAccountingByDcc2(t, u, n) PROVE DeskStep
  BY <1>0, <1>2, AccountingDeskStep DEF SubmitToAccountingByDcc2
<1>3. ASSUME NEW n \in Numbers \cup {NA}, SkipToCompleted(t, n) PROVE DeskStep
  <2> DEFINE With(row) == IF n = NA THEN row ELSE [row EXCEPT !.contractNo = n]
  <2>1. PICK row \in SkipChain(ticket[t]) : WithIntent(t, With(row))
    BY <1>3 DEF SkipToCompleted
  <2>2. /\ row \in OpenRow /\ Sound(row) /\ Fits(row) /\ row.round >= ticket[t].round
        /\ row.status = "Completed"
    BY SoundRowOf, SkipGood DEF Reached
  <2> DEFINE new == With(row)
  <2>3. /\ new.status = row.status /\ new.flow = row.flow /\ new.round = row.round
        /\ new.holder = row.holder /\ new.applicant = row.applicant
    BY <2>2 DEF OpenRow
  <2> HIDE DEF new
  <2>4. Sound(new) /\ Fits(new) /\ new.round >= ticket[t].round
    BY <2>2, <2>3 DEF Sound, OnLine, Numberless, Fits, Early
  <2>5. QED
    BY <2>1, <2>4, WithIntentLays DEF new
<1>4. CASE CompleteContract(t, u)
  BY <1>0, <1>4, MoveLays DEF CompleteContract
<1>5. QED
  BY <1>1, <1>2, <1>3, <1>4

\* DCC3's steps.
LEMMA Dcc3DeskStep ==
  ASSUME Inv, SoundTable, NEW t \in Ticket, Dcc3Step(t)
  PROVE  DeskStep
<1> PICK u \in Dcc3 : \/ ConfirmReceivedByDcc3(t, u)
                      \/ \E n \in Numbers : SendAccountingDcc3(t, u, n)
  BY DEF Dcc3Step
<1>0. u \in User /\ Seated("DCC3", u)
  BY DEF User, Seated
<1>1. CASE ConfirmReceivedByDcc3(t, u)
  BY <1>0, <1>1, MoveLays DEF ConfirmReceivedByDcc3, ConfirmReceived
<1>2. ASSUME NEW n, SendAccountingDcc3(t, u, n) PROVE DeskStep
  BY <1>0, <1>2, AccountingDeskStep DEF SendAccountingDcc3
<1>3. QED
  BY <1>1, <1>2

\* The automated steps.
LEMMA SystemDeskStep ==
  ASSUME Inv, SoundTable, NEW t \in Ticket, SystemStep(t)
  PROVE  DeskStep
<1>1. CASE LockExpires(t)
  BY <1>1 DEF LockExpires, DeskStep, Joins
<1>2. CASE AutoReturn(t)
  <2>1. PICK row \in Transition(ticket[t], "auto_return", System, "DCC1") :
           /\ Write(t, row) /\ UNCHANGED outbox
           /\ requests' = requests \cup
                {[kind |-> "notice", ticket |-> t, round |-> row.round]}
    BY <1>2 DEF AutoReturn, Update
  <2>2. System \in User
    BY DEF User
  <2>3. /\ Sound(row) /\ Fits(row) /\ row.round >= ticket[t].round
        /\ row.status \notin Mailing
    BY <2>2, SoundRowOf, TransitionGood
  <2>4. ticket'[t] = row /\ Stored(t)
    BY <2>1, WriteStores
  <2>5. Joins
    BY <2>1 DEF Joins, Held
  <2>6. QED
    BY <2>1, <2>3, <2>4, <2>5 DEF DeskStep, Lays, Mailed
<1>3. QED
  BY <1>1, <1>2 DEF SystemStep

\* The commits of requests in flight.
LEMMA RequestDeskStep ==
  ASSUME Inv, SoundTable, NEW r \in requests, Held(r), Fits(ticket[r.ticket]), RequestStep(r)
  PROVE  DeskStep
<1> DEFINE t == r.ticket
<1>0. t \in Ticket /\ ticket[t] \in OpenRow /\ Sound(ticket[t])
  BY RequestTyped, SoundRowOf
<1>f. Fits(ticket[t])
  OBVIOUS
<1>h. r.kind = "edit" /\ r.flow = "Contract" /\ r.contractNo # NA => ticket[t].round > 0
  BY DEF Held
<1> HIDE DEF t
<1>1. CASE EditCommit(r)
  <2> DEFINE row == [ticket[t] EXCEPT !.flow = r.flow, !.contractNo = r.contractNo]
  <2>1. /\ Write(t, row) /\ ticket[t].status \in Editable /\ r.kind = "edit"
        /\ UNCHANGED outbox /\ requests' \subseteq requests
    BY <1>1 DEF EditCommit, Update, Finish, t
  <2>2. r.flow \in Flow
    BY <2>1, RequestTyped
  <2>3. /\ row.status = ticket[t].status /\ row.flow = r.flow
        /\ row.round = ticket[t].round /\ row.contractNo = r.contractNo
        /\ row.holder = ticket[t].holder /\ row.applicant = ticket[t].applicant
        /\ row.round \in Nat
    BY <1>0 DEF OpenRow
  <2> HIDE DEF row
  <2>4. Sound(row)
    <3>1. OnLine(row)
      BY <2>1, <2>2, <2>3 DEF OnLine, Editable, Line, Shared
    <3>2. Numberless(row)
      BY <1>h, <2>1, <2>3 DEF Numberless, Editable
    <3>3. QED
      BY <3>1, <3>2 DEF Sound
  <2>5. Fits(row) /\ row.round >= ticket[t].round
    BY <1>f, <2>3 DEF Fits
  <2>6. Mailed(t, row, outbox')
    BY <2>1, <2>3 DEF Mailed, Mailing, Editable
  <2>7. QED
    BY <1>0, <2>1, <2>4, <2>5, <2>6, WriteLays
<1>2. CASE ConfirmCommit(r)
  <2>1. PICK row \in Transition(ticket[t], "submitToAndy", r.user, "DCC1") :
           Write(t, [row EXCEPT !.code = Mint(row)])
    BY <1>2 DEF ConfirmCommit, t
  <2>2. UNCHANGED outbox /\ requests' \subseteq requests
    BY <1>2 DEF ConfirmCommit, Finish
  <2>3. r.user \in User /\ Seated("DCC1", r.user)
    BY <1>2, RequestTyped DEF ConfirmCommit, User, Seated
  <2>4. /\ row \in OpenRow /\ Sound(row) /\ Fits(row) /\ row.round >= ticket[t].round
        /\ row.status \notin Mailing
    BY <1>0, <2>3, TransitionGood
  <2> DEFINE new == [row EXCEPT !.code = Mint(row)]
  <2>5. /\ new.status = row.status /\ new.flow = row.flow /\ new.round = row.round
        /\ new.contractNo = row.contractNo /\ new.holder = row.holder
        /\ new.applicant = row.applicant
    BY <2>4 DEF OpenRow
  <2>6. Write(t, new)
    BY <2>1
  <2> HIDE DEF new
  <2>7. /\ Sound(new) /\ Fits(new) /\ new.round >= ticket[t].round
        /\ Mailed(t, new, outbox')
    BY <2>4, <2>5 DEF Sound, OnLine, Numberless, Fits, Mailed
  <2>8. QED
    BY <1>0, <2>2, <2>6, <2>7, WriteLays
<1>3. CASE UndoCommit(r)
  <2>1. PICK row \in UndoTransition(ticket[t], r.target, r.user, "DCC1") :
           /\ Write(t, row) /\ outbox' = outbox \cup EmailIntent(t, row)
    BY <1>3 DEF UndoCommit, Update, t
  <2>2. requests' \subseteq requests
    BY <1>3 DEF UndoCommit, Finish
  <2>3. r.user \in Dcc1 /\ r.target \in Audit
    BY <1>3, RequestTyped DEF UndoCommit
  <2>4. row \in OpenRow /\ Sound(row) /\ Fits(row) /\ row.round = ticket[t].round
    BY <1>0, <2>3, UndoGood
  <2>5. row.round >= ticket[t].round
    BY <2>4 DEF OpenRow
  <2>6. Mailed(t, row, outbox')
    BY <2>1 DEF Mailed, Mailing, EmailIntent
  <2>7. QED
    BY <1>0, <2>1, <2>2, <2>4, <2>5, <2>6, WriteLays
<1>4. CASE PickCommit(r) \/ EnqueueNotice(r) \/ Abandon(r)
  BY <1>4 DEF PickCommit, EnqueueNotice, Abandon, Finish, DeskStep, Joins
<1>5. QED
  BY <1>1, <1>2, <1>3, <1>4 DEF RequestStep

-----------------------------------------------------------------------------
(***************************************************************************)
(* The invariant of the desks.                                             *)
(***************************************************************************)
DesksInv == /\ Inv
            /\ SoundTable
            /\ \A t \in Ticket : Fits(ticket[t])
            /\ \A t \in Ticket : Mailed(t, ticket[t], outbox)
            /\ \A r \in requests : Held(r)

\* Every step of every handler is a step of this kind.
LEMMA StepOfDesk ==
  ASSUME DesksInv, [Next]_vars
  PROVE  DeskStep
<1>0. \A r \in requests : Held(r) /\ Fits(ticket[r.ticket])
  BY RequestTyped DEF DesksInv
<1>1. CASE Next
  BY <1>0, <1>1, ApplicantDeskStep, Dcc1DeskStep, ReconcileDeskStep, Dcc2DeskStep,
     Dcc3DeskStep, SystemDeskStep, RequestDeskStep DEF Next, DesksInv
<1>2. CASE UNCHANGED vars
  BY <1>2 DEF vars, DeskStep, Joins
<1>3. QED
  BY <1>1, <1>2

\* The empty database satisfies it.
THEOREM DesksInvInit == Init => DesksInv
<1> SUFFICES ASSUME Init PROVE DesksInv
  OBVIOUS
<1>1. Inv
  BY InitInv
<1>2. \A t \in Ticket : ticket[t] = AbsentRow
  BY DEF Init
<1>3. /\ AbsentRow.status = "Absent" /\ AbsentRow.holder = NoOne /\ AbsentRow.round = 0
  BY DEF AbsentRow
<1>4. Sound(AbsentRow) /\ Fits(AbsentRow)
  BY <1>3 DEF Sound, OnLine, Numberless, Early, Fits, Desk1, Desk2
<1>5. \A t \in Ticket : Mailed(t, AbsentRow, outbox)
  BY <1>3 DEF Mailed, Mailing
<1>6. QED
  BY <1>1, <1>2, <1>4, <1>5 DEF Init, DesksInv, SoundTable

\* Every step of every handler keeps it.
THEOREM DesksInvStep == DesksInv /\ [Next]_vars => DesksInv'
<1> SUFFICES ASSUME DesksInv, [Next]_vars PROVE DesksInv'
  OBVIOUS
<1>1. Inv'
  BY NextInv DEF DesksInv
<1>2. DeskStep
  BY StepOfDesk
<1>3. \A t \in Ticket :
        \/ ticket'[t] = ticket[t]
        \/ /\ Sound(ticket'[t]) /\ Fits(ticket'[t])
           /\ ticket'[t].round >= ticket[t].round
           /\ Mailed(t, ticket'[t], outbox')
  <2>1. CASE UNCHANGED ticket
    BY <2>1
  <2>2. ASSUME NEW t \in Ticket, Lays(t)
        PROVE  \A o \in Ticket : o # t => ticket'[o] = ticket[o]
    <3>1. ticket' = [ticket EXCEPT ![t] = ticket'[t]]
      BY <2>2 DEF Lays, Stored
    <3>2. QED
      BY <3>1 DEF DesksInv, Inv, TypeOK
  <2>3. QED
    BY <1>2, <2>1, <2>2 DEF DeskStep, Lays
<1>4. \A t \in Ticket : Sound(ticket'[t]) /\ Fits(ticket'[t])
  BY <1>3 DEF DesksInv, SoundTable
<1>5. \A t \in Ticket : Mailed(t, ticket'[t], outbox')
  BY <1>2, <1>3 DEF DesksInv, Mailed, DeskStep
<1>6. \A t \in Ticket : /\ ticket'[t].round >= ticket[t].round
                        /\ ticket'[t].round \in Nat /\ ticket[t].round \in Nat
  <2>1. \A t \in Ticket : ticket[t].round \in Nat
    BY RowOf DEF DesksInv, OpenRow
  <2>2. \A t \in Ticket : ticket'[t].round \in 0..MaxRound
    BY <1>1 DEF Inv, TypeOK, Row
  <2>3. QED
    BY <1>3, <2>1, <2>2
<1>7. \A r \in requests' : r.ticket \in Ticket
  BY <1>1 DEF Inv, TypeOK, InFlight
<1>8. \A r \in requests' : Held(r)
  BY <1>2 DEF DeskStep, Joins, DesksInv
<1>9. \A r \in requests' : r.kind = "edit" /\ r.flow = "Contract" /\ r.contractNo # NA =>
        ticket'[r.ticket].round > 0
  BY <1>6, <1>7, <1>8 DEF Held
<1>10. QED
  BY <1>1, <1>4, <1>5, <1>9 DEF DesksInv, SoundTable, Sound, OnLine, Numberless, Fits,
     Mailed, Held

\* It holds in every behaviour.
THEOREM DesksInvAlways == Spec => []DesksInv
BY DesksInvInit, DesksInvStep, PTL DEF Spec

-----------------------------------------------------------------------------
(***************************************************************************)
(* The theorems.                                                           *)
(***************************************************************************)
\* A ticket lies with one person exactly where the line says so, for any users
\* and whatever undos, edits and returns interleave.
THEOREM HoldersAlwaysFit == Spec => []HolderFits
<1>1. DesksInv => HolderFits
  BY DEF DesksInv, Fits, HolderFits, Desk1, Desk2
<1>2. QED
  BY <1>1, DesksInvAlways, PTL

\* Every outcome has its email intent: no path into Completed or Returned
\* forgets it.
THEOREM OutcomesAreMailed == Spec => []OutcomeMailed
<1>1. DesksInv => OutcomeMailed
  BY DEF DesksInv, Mailed, OutcomeMailed, Mailing
<1>2. QED
  BY <1>1, DesksInvAlways, PTL

\* A Contract ticket carries no number in round 0 before Accounting, though an
\* edit may write a number it read long ago.
THEOREM NoNumberInRoundZero == Spec => []RoundZeroNumberless
<1>1. DesksInv => RoundZeroNumberless
  BY DEF DesksInv, SoundTable, Sound, Numberless, RoundZeroNumberless, Early
<1>2. QED
  BY <1>1, DesksInvAlways, PTL

-----------------------------------------------------------------------------
(***************************************************************************)
(* The document numbers.                                                   *)
(***************************************************************************)
\* Sent to Accounting a ticket gets the number of its flow, and waits there.
LEMMA EdgesToAccounting ==
  \A e \in Edges : e.event = "sendToAccounting" =>
     \/ e.flow = "Contract" /\ e.to = "SubmittedToAccounting"
     \/ e.flow = "Payment" /\ e.to = "SentToAccounting"
BY DEF Edges, SharedEdges, GeneralEdges, ContractEdges, PaymentEdges, HeavyReturn,
       Reversible, Plain, EdgeOf

\* A write of one row leaves the numbers of all others.
NumbersHold == \A t \in Ticket : Exists(t) => NumberStays(ticket'[t], ticket[t])

LEMMA WriteHolds ==
  ASSUME Inv, NEW t \in Ticket, NEW row, Write(t, row),
         Exists(t) => NumberStays(row, ticket[t])
  PROVE  NumbersHold
<1>1. ticket'[t] = row /\ \A o \in Ticket \ {t} : ticket'[o] = ticket[o]
  BY WriteStores, StoredRows
<1> QED
  BY <1>1 DEF NumbersHold, NumberStays

\* A row whose numbers the handler left alone.
LEMMA UntouchedHolds ==
  ASSUME Inv, NEW t \in Ticket, NEW row, Update(t, row) \/ Write(t, row),
         row.contractNo = ticket[t].contractNo, row.paymentNo = ticket[t].paymentNo
  PROVE  NumbersHold
BY WriteHolds DEF Update, NumberStays

\* A transition, an undo or a chain, stored as it is.
LEMMA MoveHolds ==
  ASSUME Inv, NEW t \in Ticket, NEW row, row \in OpenRow, Untouched(row, ticket[t]),
         Update(t, row) \/ Update(t, [row EXCEPT !.flag = FALSE])
           \/ Write(t, [row EXCEPT !.code = Mint(row)])
  PROVE  NumbersHold
<1>1. ASSUME NEW new, new.contractNo = row.contractNo, new.paymentNo = row.paymentNo,
             Update(t, new) \/ Write(t, new)
      PROVE  NumbersHold
  BY <1>1, UntouchedHolds DEF Untouched
<1>2. /\ [row EXCEPT !.flag = FALSE].contractNo = row.contractNo
      /\ [row EXCEPT !.flag = FALSE].paymentNo = row.paymentNo
      /\ [row EXCEPT !.code = Mint(row)].contractNo = row.contractNo
      /\ [row EXCEPT !.code = Mint(row)].paymentNo = row.paymentNo
  BY DEF OpenRow
<1> QED
  BY <1>1, <1>2

\* A send to Accounting, with the number it writes.
LEMMA AccountingHolds ==
  ASSUME Inv, NEW t \in Ticket, NEW u \in User, NEW role, NEW n,
         SubmitToAccounting(t, u, role, n)
  PROVE  NumbersHold
<1>1. PICK row \in Transition(ticket[t], "sendToAccounting", u, role) :
         Update(t, WithNumber(row, n))
  BY DEF SubmitToAccounting, Silently
<1>2. row \in OpenRow /\ Untouched(row, ticket[t])
  BY RowOf, TransitionFacts
<1>3. PICK e \in FindEdge(ticket[t].status, "sendToAccounting", ticket[t].flow) :
         row.status = e.to
  BY RowOf DEF Transition, OpenRow
<1>4. \/ ticket[t].flow = "Contract" /\ row.status = "SubmittedToAccounting"
      \/ ticket[t].flow = "Payment" /\ row.status = "SentToAccounting"
  BY <1>3, EdgesToAccounting, FoundEdges, FoundFlow
<1> DEFINE new == WithNumber(row, n)
<1>5. /\ new.status = row.status
      /\ row.flow = "Payment" => new.contractNo = row.contractNo
      /\ row.flow # "Payment" => new.paymentNo = row.paymentNo
  BY <1>2 DEF WithNumber, OpenRow
<1>6. Write(t, new)
  BY <1>1 DEF Update
<1> HIDE DEF new
<1>7. NumberStays(new, ticket[t])
  BY <1>2, <1>4, <1>5 DEF NumberStays, Untouched
<1> QED
  BY <1>6, <1>7, WriteHolds

\* Skip Completed writes a number in round 0 only, where there is none yet.
LEMMA SkipHolds ==
  ASSUME Inv, RoundZeroNumberless, NEW t \in Ticket, NEW n \in Numbers \cup {NA},
         SkipToCompleted(t, n)
  PROVE  NumbersHold
<1>1. PICK row \in SkipChain(ticket[t]) :
         Update(t, IF n = NA THEN row ELSE [row EXCEPT !.contractNo = n])
  BY DEF SkipToCompleted, WithIntent
<1>2. row \in OpenRow /\ Untouched(row, ticket[t])
  BY RowOf, SkipFacts
<1>3. CASE n = NA
  BY <1>1, <1>2, <1>3, MoveHolds
<1>4. CASE n # NA
  <2> DEFINE new == [row EXCEPT !.contractNo = n]
  <2>1. new.paymentNo = row.paymentNo
    BY <1>2 DEF OpenRow
  <2>2. ticket[t].contractNo = NA
    BY <1>4 DEF SkipToCompleted, RoundZeroNumberless
  <2>3. Write(t, new)
    BY <1>1, <1>4 DEF Update
  <2> HIDE DEF new
  <2>4. NumberStays(new, ticket[t])
    BY <1>2, <2>1, <2>2 DEF NumberStays, Untouched
  <2> QED
    BY <2>3, <2>4, WriteHolds
<1> QED
  BY <1>3, <1>4

\* The desks.
LEMMA DeskHolds ==
  ASSUME Inv, RoundZeroNumberless, NEW t \in Ticket,
         Dcc1Step(t) \/ Dcc2Step(t) \/ Dcc3Step(t)
  PROVE  NumbersHold
<1>0. Dcc1 \cup Dcc2 \cup Dcc3 \subseteq User
  BY DEF User
<1>1. ASSUME NEW u \in User, NEW event, NEW role,
             NEW row \in Transition(ticket[t], event, u, role),
             Update(t, row) \/ Update(t, [row EXCEPT !.flag = FALSE])
      PROVE  NumbersHold
  BY <1>1, RowOf, TransitionFacts, MoveHolds
<1>2. CASE Dcc1Step(t)
  <2> PICK u \in Dcc1 : \/ PickBegin(t, u)
                        \/ Seize(t, u)
                        \/ ConfirmBegin(t, u)
                        \/ \E event \in GenericEvents : GenericAction(t, u, event)
                        \/ Reopen(t, u)
                        \/ UndoBegin(t, u)
                        \/ ReturnFromPushback(t, u)
    BY <1>2 DEF Dcc1Step
  <2>1. ASSUME PickBegin(t, u) \/ Seize(t, u) \/ ConfirmBegin(t, u) \/ UndoBegin(t, u)
        PROVE  NumbersHold
    BY <2>1 DEF PickBegin, Seize, ConfirmBegin, UndoBegin, NumbersHold, NumberStays
  <2>2. ASSUME NEW event \in GenericEvents, GenericAction(t, u, event) PROVE NumbersHold
    BY <1>0, <1>1, <2>2 DEF GenericAction, WithIntent
  <2>3. ASSUME Reopen(t, u) PROVE NumbersHold
    <3>1. PICK row \in ReopenChain(ticket[t], u) : Update(t, row)
      BY <2>3 DEF Reopen, WithIntent
    <3> QED
      BY <1>0, <3>1, RowOf, ReopenFacts, MoveHolds
  <2>4. ASSUME ReturnFromPushback(t, u) PROVE NumbersHold
    BY <1>0, <1>1, <2>4 DEF ReturnFromPushback, WithIntent
  <2> QED
    BY <2>1, <2>2, <2>3, <2>4
<1>3. CASE Dcc2Step(t)
  <2> PICK u \in Dcc2 :
        \/ ConfirmReceivedByDcc2(t, u)
        \/ \E n \in Numbers \cup {NA} : SubmitToAccountingByDcc2(t, u, n)
        \/ \E n \in Numbers \cup {NA} : SkipToCompleted(t, n)
        \/ CompleteContract(t, u)
    BY <1>3 DEF Dcc2Step
  <2>1. ASSUME ConfirmReceivedByDcc2(t, u) PROVE NumbersHold
    BY <1>0, <1>1, <2>1 DEF ConfirmReceivedByDcc2, ConfirmReceived, Silently
  <2>2. ASSUME CompleteContract(t, u) PROVE NumbersHold
    BY <1>0, <1>1, <2>2 DEF CompleteContract, WithIntent
  <2> QED
    BY <1>0, <2>1, <2>2, SkipHolds, AccountingHolds DEF SubmitToAccountingByDcc2
<1>4. CASE Dcc3Step(t)
  <2> PICK u \in Dcc3 : \/ ConfirmReceivedByDcc3(t, u)
                        \/ \E n \in Numbers : SendAccountingDcc3(t, u, n)
    BY <1>4 DEF Dcc3Step
  <2>1. ASSUME ConfirmReceivedByDcc3(t, u) PROVE NumbersHold
    BY <1>0, <1>1, <2>1 DEF ConfirmReceivedByDcc3, ConfirmReceived, Silently
  <2> QED
    BY <1>0, <2>1, AccountingHolds DEF SendAccountingDcc3
<1> QED
  BY <1>2, <1>3, <1>4

\* Applicants, the reconcile lane and the automated steps.
LEMMA OthersHold ==
  ASSUME Inv, NEW t \in Ticket, ApplicantStep(t) \/ ReconcileStep(t) \/ SystemStep(t)
  PROVE  NumbersHold
<1>1. ASSUME NEW u \in User, NEW event, NEW role,
             NEW row \in Transition(ticket[t], event, u, role), Update(t, row)
      PROVE  NumbersHold
  BY <1>1, RowOf, TransitionFacts, MoveHolds
<1>2. CASE ApplicantStep(t)
  <2>1. ASSUME NEW a \in Applicant, NEW f \in Flow, NEW n \in Numbers, Create(t, a, f, n)
        PROVE  NumbersHold
    BY <2>1, WriteHolds DEF Create, Silently, Update
  <2>2. ASSUME NEW f \in Flow, NEW n \in Numbers, EditBegin(t, f, n) PROVE NumbersHold
    BY <2>2 DEF EditBegin, NumbersHold, NumberStays
  <2>3. ASSUME NEW event, ByApplicant(t, event) PROVE NumbersHold
    <3>1. ticket[t].applicant \in User
      BY RowOf DEF Row, User
    <3> QED
      BY <1>1, <2>3, <3>1 DEF ByApplicant, WithIntent
  <2> QED
    BY <1>2, <2>1, <2>2, <2>3 DEF ApplicantStep, Cancel, ConfirmReturnReceipt, Resubmit
<1>3. CASE ReconcileStep(t)
  <2>1. PICK next \in BOOLEAN : Update(t, [ticket[t] EXCEPT !.flag = next])
    BY <1>3 DEF ReconcileStep, FlagMissingPaper, ClearMissingPaper, SetReconcile, Silently
  <2>2. /\ [ticket[t] EXCEPT !.flag = next].contractNo = ticket[t].contractNo
        /\ [ticket[t] EXCEPT !.flag = next].paymentNo = ticket[t].paymentNo
    BY RowOf DEF OpenRow
  <2> QED
    BY <2>1, <2>2, UntouchedHolds
<1>4. CASE SystemStep(t)
  <2>1. ASSUME LockExpires(t) PROVE NumbersHold
    BY <2>1 DEF LockExpires, NumbersHold, NumberStays
  <2>2. ASSUME AutoReturn(t) PROVE NumbersHold
    BY <1>1, <2>2 DEF AutoReturn, User
  <2> QED
    BY <1>4, <2>1, <2>2 DEF SystemStep
<1> QED
  BY <1>2, <1>3, <1>4

\* The second halves of requests.
LEMMA RequestHolds ==
  ASSUME Inv, NEW r \in requests, RequestStep(r)
  PROVE  NumbersHold
<1> DEFINE t == r.ticket
<1>0. t \in Ticket /\ ticket[t] \in OpenRow
  BY RequestTyped, RowOf
<1> HIDE DEF t
<1>1. ASSUME EditCommit(r) PROVE NumbersHold
  <2> DEFINE row == [ticket[t] EXCEPT !.flow = r.flow, !.contractNo = r.contractNo]
  <2>1. Write(t, row) /\ ticket[t].status \in Editable
    BY <1>1 DEF EditCommit, Update, t
  <2>2. row.paymentNo = ticket[t].paymentNo
    BY <1>0 DEF OpenRow
  <2> HIDE DEF row
  <2> QED
    BY <1>0, <2>1, <2>2, WriteHolds DEF NumberStays
<1>2. ASSUME ConfirmCommit(r) PROVE NumbersHold
  <2>1. PICK row \in Transition(ticket[t], "submitToAndy", r.user, "DCC1") :
           Write(t, [row EXCEPT !.code = Mint(row)])
    BY <1>2 DEF ConfirmCommit, t
  <2>2. r.user \in User
    BY <1>2, RequestTyped DEF ConfirmCommit, User
  <2> QED
    BY <1>0, <2>1, <2>2, TransitionFacts, MoveHolds
<1>3. ASSUME UndoCommit(r) PROVE NumbersHold
  <2>1. PICK row \in UndoTransition(ticket[t], r.target, r.user, "DCC1") : Update(t, row)
    BY <1>3 DEF UndoCommit, t
  <2>2. r.user \in User /\ r.target \in Audit
    BY <1>3, RequestTyped DEF UndoCommit, User
  <2> QED
    BY <1>0, <2>1, <2>2, UndoFacts, MoveHolds
<1>4. ASSUME PickCommit(r) \/ EnqueueNotice(r) \/ Abandon(r) PROVE NumbersHold
  BY <1>4 DEF PickCommit, EnqueueNotice, Abandon, NumbersHold, NumberStays
<1> QED
  BY <1>1, <1>2, <1>3, <1>4 DEF RequestStep

\* A real number is lost or replaced by no skip, return, undo or reopening: a blank skip
\* leaves it alone, and one with a number finds none, whatever edits crossed.
THEOREM NumbersAreKept == Spec => NumbersKept
<1>1. DesksInv => Inv /\ RoundZeroNumberless
  BY DEF DesksInv, SoundTable, Sound, Numberless, RoundZeroNumberless, Early
<1>2. DesksInv /\ [Next]_vars =>
        [\A t \in Ticket : Exists(t) => NumberStays(ticket'[t], ticket[t])]_vars
  <2> SUFFICES ASSUME DesksInv, Next PROVE NumbersHold
    BY DEF NumbersHold
  <2> QED
    BY <1>1, DeskHolds, OthersHold, RequestHolds DEF Next
<1> QED
  BY <1>2, DesksInvAlways, PTL DEF Spec, NumbersKept

-----------------------------------------------------------------------------
\* From every open status of a flow's line some move is offered whose handler
\* looks at no flag, or that leads on from where no flag can stand.
LEMMA WaysOut ==
  \A f \in Flow : \A s \in Line(f) \ Terminal : \E e \in Edges :
     /\ e.from = s /\ e.flow \in {f, "*"} /\ e.event # "auto_return" /\ e.owner \in Role
     /\ s \in AfterReceipt \/ e.event \notin FlagGuarded
<1> DEFINE Out(f, s, e) ==
      /\ e.from = s /\ e.flow \in {f, "*"} /\ e.event # "auto_return" /\ e.owner \in Role
      /\ s \in AfterReceipt \/ e.event \notin FlagGuarded
<1> USE DEF HeavyReturn, Reversible, Plain, EdgeOf, FlagGuarded, Role, AfterReceipt
<1>1. ASSUME NEW f \in Flow, NEW s \in {"Submitted", "SubmittedToVpAndy", "Returned",
                                        "ReturnFixing", "Reopened"}
      PROVE  \E e \in SharedEdges : Out(f, s, e)
  BY <1>1 DEF SharedEdges
<1>2. \E e \in GeneralEdges : Out("General", "SubmittedToBop", e)
  BY DEF GeneralEdges
<1>3. ASSUME NEW s \in {"SubmittedToDcc2", "ReceivedByDcc2", "SubmittedToAccounting",
                        "ReceivedFromAcc", "SubmittedToBop", "SubmittedToDcc2Hardcopy",
                        "Hardcopy"}
      PROVE  \E e \in ContractEdges : Out("Contract", s, e)
  BY <1>3 DEF ContractEdges
<1>4. ASSUME NEW s \in {"SubmittedToDcc3", "ReceivedByDcc3"}
      PROVE  \E e \in PaymentEdges : Out("Payment", s, e)
  BY <1>4 DEF PaymentEdges
<1> HIDE DEF Out
<1>5. ASSUME NEW f \in Flow, NEW s \in Line(f) \ Terminal
      PROVE  \E e \in Edges : Out(f, s, e)
  <2>1. CASE s \in Shared
    BY <1>1, <1>5, <2>1 DEF Shared, Terminal, Edges
  <2>2. CASE s \notin Shared /\ f = "General"
    BY <1>2, <1>5, <2>2 DEF Line, Edges
  <2>3. CASE s \notin Shared /\ f = "Contract"
    BY <1>3, <1>5, <2>3 DEF Line, Edges
  <2>4. CASE s \notin Shared /\ f = "Payment"
    BY <1>4, <1>5, <2>4 DEF Line, Edges, Terminal
  <2>5. QED
    BY <1>5, <2>1, <2>2, <2>3, <2>4 DEF Flow
<1>6. QED
  BY <1>5 DEF Out

\* No live ticket is ever stuck, for any tickets, users and requests in flight.
THEOREM NoneStranded == Spec => []NeverStranded
<1>1. DesksInv => NeverStranded
  <2> SUFFICES ASSUME DesksInv, NEW t \in Ticket,
                      ticket[t].status \notin Terminal \cup {"Absent"}
               PROVE  CanMove(ticket[t])
    BY DEF NeverStranded
  <2> DEFINE row == ticket[t]
  <2>1. row.flow \in Flow /\ row.status \in Line(row.flow) \ Terminal
    BY RowOf DEF DesksInv, SoundTable, Sound, OnLine, OpenRow
  <2>2. row.flag => row.status \notin AfterReceipt
    BY DEF DesksInv, Inv, FlagBlocksReceipt
  <2>3. PICK e \in Edges :
          /\ e.from = row.status /\ e.flow \in {row.flow, "*"}
          /\ e.event # "auto_return" /\ e.owner \in Role
          /\ row.status \in AfterReceipt \/ e.event \notin FlagGuarded
    BY <2>1, WaysOut
  <2>4. e.event \in LegalActions(row.status, e.owner, row.flow)
    BY <2>3 DEF LegalActions
  <2>5. QED
    BY <2>2, <2>3, <2>4 DEF CanMove
<1>2. QED
  BY <1>1, DesksInvAlways, PTL

=============================================================================
