--------------------------- MODULE CustodyProofs ----------------------------
(***************************************************************************)
(* The ticket back end implements Custody, for any sets of tickets and     *)
(* users, any numbers and any bounds: every step of every handler is one   *)
(* move of the promise or leaves court, round and name of every ticket.    *)
(* And what the boards say of it: an offer is taken when it is made, and   *)
(* work is in a column of the desk it waits for.                           *)
(***************************************************************************)
EXTENDS TicketsProofs, TicketsCustody, Boards, FiniteSetTheorems

-----------------------------------------------------------------------------
(***************************************************************************)
(* The moves of the promise, between two courts.                           *)
(***************************************************************************)
Desks == {"DCC1", "DCC2", "DCC3"}

\* The moves that open no round, and need no new name.
LightMove(from, to) ==
  \/ from = to
  \/ from = "none" /\ to = "pool"
  \/ from = "DCC1" /\ to \in {"DCC2", "DCC3", "pool"}
  \/ from \in {"DCC2", "DCC3"} /\ to = "DCC1"
  \/ from \in {"pool", "DCC1"} /\ to = "applicant"
  \/ from = "applicant" /\ to = "pool"
  \/ from \in Desks /\ to = "closed"
  \/ from = "pool" /\ to = "withdrawn"

HeavyMove(from, to) == from \in Desks \cup {"closed"} /\ to = "applicant"

\* What a step of the line does to the courts; reopen and intake are apart.
Travels(e) ==
  /\ e.event \notin {"reopen", "submitToAndy"} =>
       IF e.heavy THEN HeavyMove(CourtOf(e.from), CourtOf(e.to))
                  ELSE LightMove(CourtOf(e.from), CourtOf(e.to))
  /\ e.event = "submitToAndy" => /\ CourtOf(e.from) = "pool" /\ CourtOf(e.to) = "DCC1"
                                 /\ ~e.heavy
  /\ e.event = "reopen" => CourtOf(e.from) = "closed" /\ ~e.heavy /\ e.to = "Reopened"
  /\ e.event = "sendBack" /\ e.from = "Reopened" => e.heavy /\ e.to = "Returned"
  /\ e.reversible => LightMove(CourtOf(e.to), CourtOf(e.from))

\* The court of each status.
LEMMA Courts ==
  /\ CourtOf("Absent") = "none"
  /\ CourtOf("Submitted") = "pool"
  /\ \A s \in {"Completed", "SentToAccounting"} : CourtOf(s) = "closed"
  /\ CourtOf("Cancelled") = "withdrawn"
  /\ \A s \in {"Returned", "ReturnFixing"} : CourtOf(s) = "applicant"
  /\ \A s \in {"SubmittedToVpAndy", "SubmittedToBop", "Reopened",
               "SubmittedToAccounting", "ReceivedFromAcc"} : CourtOf(s) = "DCC1"
  /\ \A s \in {"SubmittedToDcc2", "ReceivedByDcc2", "SubmittedToDcc2Hardcopy",
               "Hardcopy"} : CourtOf(s) = "DCC2"
  /\ \A s \in {"SubmittedToDcc3", "ReceivedByDcc3"} : CourtOf(s) = "DCC3"
BY NobodysStatus DEF CourtOf, StateOwner

\* Every edge moves a ticket between the courts as the promise says.
LEMMA EdgesTravel == \A e \in Edges : Travels(e)
<1> USE Courts DEF Travels, LightMove, HeavyMove, Desks, HeavyReturn, Reversible, Plain,
        EdgeOf
<1>1. \A e \in SharedEdges : Travels(e)
  BY DEF SharedEdges
<1>2. \A e \in GeneralEdges : Travels(e)
  BY DEF GeneralEdges
<1>3. \A e \in ContractEdges : Travels(e)
  BY DEF ContractEdges
<1>4. \A e \in PaymentEdges : Travels(e)
  BY DEF PaymentEdges
<1> HIDE DEF Travels
<1>5. QED
  BY <1>1, <1>2, <1>3, <1>4 DEF Edges

-----------------------------------------------------------------------------
(***************************************************************************)
(* The operations on a row.                                                *)
(***************************************************************************)
Light(new, row) == LightMove(CourtOf(row.status), CourtOf(new.status)) /\ new.round = row.round
Heavy(new, row) == HeavyMove(CourtOf(row.status), CourtOf(new.status)) /\ new.round = row.round + 1

\* A move of the promise that leaves the name alone.
Carried(new, row) == new.code = row.code /\ (Light(new, row) \/ Heavy(new, row))

\* The edge a transition takes, and what it stores.
LEMMA TransitionEdge ==
  ASSUME NEW row \in OpenRow, NEW event, NEW u \in User, NEW role,
         NEW new \in Transition(row, event, u, role)
  PROVE  /\ new \in OpenRow /\ new.code = row.code /\ new.flow = row.flow
         /\ \E e \in Edges : /\ e.from = row.status /\ e.event = event /\ e.to = new.status
                             /\ e.flow \in {row.flow, "*"}
                             /\ new.round = IF e.heavy THEN row.round + 1 ELSE row.round
<1>1. PICK e \in FindEdge(row.status, event, row.flow) :
         new = [row EXCEPT
                  !.status = e.to,
                  !.holder = DeriveHolder(e.to, row.applicant, u, role),
                  !.round  = IF e.heavy THEN row.round + 1 ELSE row.round,
                  !.last   = [event |-> event, from |-> row.status]]
  BY DEF Transition
<1>2. e \in Edges /\ e.from = row.status /\ e.event = event /\ e.flow \in {row.flow, "*"}
  BY FoundEdges, FoundFlow
<1>3. new \in OpenRow /\ Untouched(new, row)
  BY TransitionFacts
<1>4. /\ new.status = e.to
      /\ new.round = IF e.heavy THEN row.round + 1 ELSE row.round
  BY <1>1 DEF OpenRow
<1>5. QED
  BY <1>2, <1>3, <1>4 DEF Untouched

\* A transition other than a reopen or an intake is one move.
LEMMA TransitionCarries ==
  ASSUME NEW row \in OpenRow, NEW event, event \notin {"reopen", "submitToAndy"},
         NEW u \in User, NEW role, NEW new \in Transition(row, event, u, role)
  PROVE  Carried(new, row)
<1>1. new.code = row.code
  BY TransitionEdge
<1>2. PICK e \in Edges : /\ e.from = row.status /\ e.event = event /\ e.to = new.status
                         /\ new.round = IF e.heavy THEN row.round + 1 ELSE row.round
  BY TransitionEdge
<1>3. QED
  BY <1>1, <1>2, EdgesTravel DEF Travels, Carried, Light, Heavy

\* An undo is one too.
LEMMA UndoCarries ==
  ASSUME NEW row \in OpenRow, NEW target \in Audit, NEW u \in User, NEW role,
         NEW new \in UndoTransition(row, target, u, role)
  PROVE  Carried(new, row)
<1>1. PICK e \in FindEdge(target.from, target.event, row.flow) :
         /\ e.reversible /\ e.to = row.status
         /\ new = [row EXCEPT
                     !.status = target.from,
                     !.holder = DeriveHolder(target.from, row.applicant, u, role),
                     !.last   = [event |-> "undo", from |-> row.status]]
  BY DEF UndoTransition
<1>2. e \in Edges /\ e.from = target.from
  BY FoundEdges
<1>3. new.status = e.from /\ new.round = row.round /\ new.code = row.code
  BY <1>1, <1>2 DEF OpenRow
<1>4. QED
  BY <1>1, <1>2, <1>3, EdgesTravel DEF Travels, Carried, Light

\* Reopen, then sendBack: one heavy return of a closed ticket.
LEMMA ReopenCarries ==
  ASSUME NEW row \in OpenRow, NEW u \in User, NEW new \in ReopenChain(row, u)
  PROVE  Carried(new, row)
<1>1. PICK mid \in Transition(row, "reopen", u, "DCC1") :
         new \in Transition(mid, "sendBack", u, "DCC1")
  BY DEF ReopenChain, AndThen
<1>2. mid \in OpenRow /\ mid.code = row.code
  BY <1>1, TransitionEdge
<1>3. PICK e \in Edges : /\ e.from = row.status /\ e.event = "reopen" /\ e.to = mid.status
                         /\ mid.round = IF e.heavy THEN row.round + 1 ELSE row.round
  BY <1>1, TransitionEdge
<1>4. new.code = mid.code
  BY <1>1, <1>2, TransitionEdge
<1>5. PICK f \in Edges : /\ f.from = mid.status /\ f.event = "sendBack" /\ f.to = new.status
                         /\ new.round = IF f.heavy THEN mid.round + 1 ELSE mid.round
  BY <1>1, <1>2, TransitionEdge
<1>6. /\ CourtOf(row.status) = "closed" /\ mid.round = row.round
      /\ new.status = "Returned" /\ new.round = row.round + 1
  BY <1>3, <1>5, EdgesTravel DEF Travels
<1>7. QED
  BY <1>2, <1>4, <1>6, Courts DEF Carried, Heavy, HeavyMove

\* Only a return opens a round.
LEMMA HeavyReturns == \A e \in Edges : e.heavy => e.event = "sendBack"
<1> USE DEF HeavyReturn, Reversible, Plain, EdgeOf
<1>1. \A e \in SharedEdges : e.heavy => e.event = "sendBack"
  BY DEF SharedEdges
<1>2. \A e \in GeneralEdges : e.heavy => e.event = "sendBack"
  BY DEF GeneralEdges
<1>3. \A e \in ContractEdges : e.heavy => e.event = "sendBack"
  BY DEF ContractEdges
<1>4. \A e \in PaymentEdges : e.heavy => e.event = "sendBack"
  BY DEF PaymentEdges
<1>5. QED
  BY <1>1, <1>2, <1>3, <1>4 DEF Edges

\* A chain without a return stays in its round.
LEMMA AndThenSameRound ==
  ASSUME NEW row \in OpenRow, NEW rows, NEW event, event # "sendBack", NEW u \in User,
         NEW role, \A mid \in rows : mid \in OpenRow /\ mid.round = row.round
  PROVE  \A new \in AndThen(rows, event, u, role) :
           new \in OpenRow /\ new.round = row.round
<1> SUFFICES ASSUME NEW new \in AndThen(rows, event, u, role)
             PROVE  new \in OpenRow /\ new.round = row.round
  OBVIOUS
<1>1. PICK mid \in rows : new \in Transition(mid, event, u, role)
  BY DEF AndThen
<1>2. new \in OpenRow
  BY <1>1, TransitionEdge
<1>3. PICK e \in Edges : /\ e.event = event
                         /\ new.round = IF e.heavy THEN mid.round + 1 ELSE mid.round
  BY <1>1, TransitionEdge
<1>4. QED
  BY <1>1, <1>2, <1>3, HeavyReturns

\* Skip Completed is one close from DCC2's desk.
LEMMA SkipCarries ==
  ASSUME NEW row \in OpenRow, Sound(row), row.status = "ReceivedByDcc2",
         NEW new \in SkipChain(row)
  PROVE  Carried(new, row)
<1> DEFINE s1 == Transition(row, "sendToAccounting", System, "DCC2")
           s2 == AndThen(s1, "receiveFromAcc", System, "DCC1")
           s3 == AndThen(s2, "submitToBop", System, "DCC1")
           s4 == AndThen(s3, "bopApprove", System, "DCC1")
           s5 == AndThen(s4, "confirmReceivedByDcc2", System, "DCC2")
           Same(rows) == \A mid \in rows : mid \in OpenRow /\ mid.round = row.round
<1>0. System \in User
  BY DEF User
<1>1. Same(s1)
  BY <1>0, TransitionEdge, HeavyReturns
<1>2. new \in AndThen(s5, "completeContract", System, "DCC2")
  BY DEF SkipChain
<1> HIDE DEF s1
<1>3. Same(s2)
  BY <1>0, <1>1, AndThenSameRound
<1> HIDE DEF s2
<1>4. Same(s3)
  BY <1>0, <1>3, AndThenSameRound
<1> HIDE DEF s3
<1>5. Same(s4)
  BY <1>0, <1>4, AndThenSameRound
<1> HIDE DEF s4
<1>6. Same(s5)
  BY <1>0, <1>5, AndThenSameRound
<1> HIDE DEF s5
<1>7. new.round = row.round
  BY <1>0, <1>2, <1>6, AndThenSameRound
<1>8. new.status = "Completed" /\ new.code = row.code
  BY SkipGood, SkipKept DEF Kept
<1>9. QED
  BY <1>7, <1>8, Courts DEF Carried, Light, LightMove, Desks

-----------------------------------------------------------------------------
(***************************************************************************)
(* The writes.                                                             *)
(***************************************************************************)
CustodyStep == [Promise!Next]_<<court, round, named>>

\* The table after a write, as Custody sees it.
LEMMA WriteSeen ==
  ASSUME Inv, NEW t \in Ticket, NEW new, Write(t, new)
  PROVE  /\ court' = [court EXCEPT ![t] = CourtOf(new.status)]
         /\ round' = [round EXCEPT ![t] = new.round]
         /\ named' = [named EXCEPT ![t] = Minted(new)]
<1>1. ticket' = [ticket EXCEPT ![t] = new] /\ ticket \in [Ticket -> Row]
  BY DEF Write, Inv, TypeOK
<1>2. \A o \in Ticket : ticket'[o] = IF o = t THEN new ELSE ticket[o]
  BY <1>1
<1>3. QED
  BY <1>2 DEF court, round, named

\* A function that is given the value it has is left alone.
LEMMA SameSeen ==
  ASSUME NEW t \in Ticket
  PROVE  /\ court = [court EXCEPT ![t] = CourtOf(ticket[t].status)]
         /\ round = [round EXCEPT ![t] = ticket[t].round]
         /\ named = [named EXCEPT ![t] = Minted(ticket[t])]
BY DEF court, round, named

\* What the write of a row makes of that picture: a light move.
LEMMA LightWrite ==
  ASSUME CodesInv, NEW t \in Ticket, NEW new, Write(t, new),
         new.code = ticket[t].code, Light(new, ticket[t])
  PROVE  CustodyStep
<1> DEFINE c == CourtOf(ticket[t].status)
           d == CourtOf(new.status)
<1>1. court' = [court EXCEPT ![t] = d]
  BY WriteSeen DEF CodesInv
<1>2. UNCHANGED round /\ UNCHANGED named
  BY WriteSeen, SameSeen DEF CodesInv, Light, Minted
<1>3. court[t] = c
  BY DEF court
<1>4. LightMove(c, d)
  BY DEF Light
<1> HIDE DEF c, d
<1> USE DEF CustodyStep, Promise!Next, Promise!Move, Promise!Keep
<1>5. CASE c = d
  BY <1>1, <1>2, <1>5, SameSeen DEF c
<1>6. CASE c = "none" /\ d = "pool"
  BY <1>1, <1>2, <1>3, <1>6 DEF Promise!File
<1>7. CASE c = "DCC1" /\ d = "pool"
  BY <1>1, <1>2, <1>3, <1>7 DEF Promise!PutBack
<1>8. CASE \/ c = "DCC1" /\ d \in {"DCC2", "DCC3"}
           \/ c \in {"DCC2", "DCC3"} /\ d = "DCC1"
  BY <1>1, <1>2, <1>3, <1>8 DEF Promise!HandOver
<1>9. CASE c \in {"pool", "DCC1"} /\ d = "applicant"
  BY <1>1, <1>2, <1>3, <1>9 DEF Promise!LightReturn
<1>10. CASE c = "applicant" /\ d = "pool"
  BY <1>1, <1>2, <1>3, <1>10 DEF Promise!Resubmit
<1>11. CASE c \in Desks /\ d = "closed"
  <2>1. named[t]
    <3>1. ticket[t].status \notin Uncoded
      BY <1>11, Courts DEF c, Desks, Uncoded
    <3>2. QED
      BY <3>1 DEF CodesInv, CodeBeyondPool, named
  <2>2. QED
    BY <1>1, <1>2, <1>3, <1>11, <2>1 DEF Promise!Close, Promise!Desk, Desks
<1>12. CASE c = "pool" /\ d = "withdrawn"
  BY <1>1, <1>2, <1>3, <1>12 DEF Promise!Withdraw
<1>13. QED
  BY <1>4, <1>5, <1>6, <1>7, <1>8, <1>9, <1>10, <1>11, <1>12 DEF LightMove

\* A heavy return.
LEMMA HeavyWrite ==
  ASSUME CodesInv, NEW t \in Ticket, NEW new, Write(t, new),
         new.code = ticket[t].code, Heavy(new, ticket[t])
  PROVE  CustodyStep
<1> DEFINE c == CourtOf(ticket[t].status)
           d == CourtOf(new.status)
<1>1. court' = [court EXCEPT ![t] = d]
  BY WriteSeen DEF CodesInv
<1>2. UNCHANGED named
  BY WriteSeen, SameSeen DEF CodesInv, Minted
<1>3. round' = [round EXCEPT ![t] = round[t] + 1]
  BY WriteSeen DEF CodesInv, Heavy, round
<1>4. court[t] = c /\ HeavyMove(c, d)
  BY DEF court, Heavy
<1> HIDE DEF c, d
<1>5. Promise!HeavyReturn(t)
  BY <1>1, <1>2, <1>3, <1>4
     DEF HeavyMove, Desks, Promise!HeavyReturn, Promise!Move, Promise!Keep, Promise!Desk
<1>6. QED
  BY <1>5 DEF CustodyStep, Promise!Next

\* A move that leaves the name alone, of either kind.
LEMMA WriteCarries ==
  ASSUME CodesInv, NEW t \in Ticket, NEW new, Write(t, new), Carried(new, ticket[t])
  PROVE  CustodyStep
BY LightWrite, HeavyWrite DEF Carried

\* A step that does not touch the table.
LEMMA SameTable ==
  ASSUME UNCHANGED ticket
  PROVE  CustodyStep
BY DEF CustodyStep, court, round, named

\* A transition stored with another flag or number.
LEMMA TransitionWrite ==
  ASSUME CodesInv, NEW t \in Ticket, NEW event, event \notin {"reopen", "submitToAndy"},
         NEW u \in User, NEW role,
         NEW row \in Transition(ticket[t], event, u, role),
         NEW new, new.code = row.code, new.status = row.status, new.round = row.round,
         Write(t, new)
  PROVE  CustodyStep
<1>1. Carried(row, ticket[t])
  BY RowOf, TransitionCarries DEF CodesInv
<1>2. Carried(new, ticket[t])
  BY <1>1 DEF Carried, Light, Heavy
<1>3. QED
  BY <1>2, WriteCarries

-----------------------------------------------------------------------------
(***************************************************************************)
(* The steps of each actor.                                                *)
(***************************************************************************)
\* A transition of one transaction, with or without its intent.
LEMMA MoveCustody ==
  ASSUME CodesInv, NEW t \in Ticket, NEW event, event \notin {"reopen", "submitToAndy"},
         NEW u \in User, NEW role,
         \E row \in Transition(ticket[t], event, u, role) :
            WithIntent(t, row) \/ Silently(t, row)
  PROVE  CustodyStep
<1>1. PICK row \in Transition(ticket[t], event, u, role) : Write(t, row)
  BY DEF WithIntent, Silently, Update
<1>2. QED
  BY <1>1, TransitionWrite

\* The applicant's steps.
LEMMA ApplicantCustody ==
  ASSUME CodesInv, SoundTable, NEW t \in Ticket, ApplicantStep(t)
  PROVE  CustodyStep
<1>1. ASSUME NEW a \in Applicant, NEW f \in Flow, NEW n \in Numbers, Create(t, a, f, n)
      PROVE  CustodyStep
  <2> DEFINE row == NewRow(a, f, NormalizeContractNo(f, n))
  <2>1. Write(t, row) /\ ticket[t].status = "Absent"
    BY <1>1 DEF Create, Exists, Silently, Update
  <2>2. ticket[t].round = 0
    BY <2>1 DEF SoundTable, Sound, Numberless
  <2>3. ticket[t].code = NoCode
    BY <2>1 DEF CodesInv, AbsentUncoded, Exists, Minted
  <2>4. row.status = "Submitted" /\ row.round = 0 /\ row.code = NoCode
    BY DEF NewRow
  <2> HIDE DEF row
  <2>5. Carried(row, ticket[t])
    BY <2>1, <2>2, <2>3, <2>4, Courts DEF Carried, Light, LightMove
  <2>6. QED
    BY <2>1, <2>5, WriteCarries
<1>2. ASSUME NEW f \in Flow, NEW n \in Numbers, EditBegin(t, f, n)
      PROVE  CustodyStep
  BY <1>2, SameTable DEF EditBegin
<1>3. ASSUME NEW event, event \notin {"reopen", "submitToAndy"}, ByApplicant(t, event)
      PROVE  CustodyStep
  <2>1. ticket[t].applicant \in User
    BY RowOf DEF Row, User, CodesInv
  <2>2. QED
    BY <1>3, <2>1, MoveCustody DEF ByApplicant
<1>4. ASSUME Cancel(t) \/ ConfirmReturnReceipt(t) \/ Resubmit(t) PROVE CustodyStep
  BY <1>3, <1>4 DEF Cancel, ConfirmReturnReceipt, Resubmit
<1>5. QED
  BY <1>1, <1>2, <1>4 DEF ApplicantStep

\* DCC1's steps, but for the commit of an intake or an undo.
LEMMA Dcc1Custody ==
  ASSUME CodesInv, NEW t \in Ticket, Dcc1Step(t)
  PROVE  CustodyStep
<1> PICK u \in Dcc1 : \/ PickBegin(t, u)
                      \/ Seize(t, u)
                      \/ ConfirmBegin(t, u)
                      \/ \E event \in GenericEvents : GenericAction(t, u, event)
                      \/ Reopen(t, u)
                      \/ UndoBegin(t, u)
                      \/ ReturnFromPushback(t, u)
  BY DEF Dcc1Step
<1>0. u \in User /\ ticket[t] \in OpenRow
  BY RowOf DEF User, CodesInv
<1>1. CASE PickBegin(t, u) \/ Seize(t, u) \/ ConfirmBegin(t, u) \/ UndoBegin(t, u)
  BY <1>1, SameTable DEF PickBegin, Seize, ConfirmBegin, UndoBegin
<1>2. ASSUME NEW event \in GenericEvents, GenericAction(t, u, event)
      PROVE  CustodyStep
  <2>1. event \notin {"reopen", "submitToAndy"}
    BY DEF GenericEvents
  <2>2. QED
    BY <1>0, <1>2, <2>1, MoveCustody DEF GenericAction
<1>3. CASE Reopen(t, u)
  <2>1. PICK row \in ReopenChain(ticket[t], u) : Write(t, row)
    BY <1>3 DEF Reopen, WithIntent, Update
  <2>2. QED
    BY <1>0, <2>1, ReopenCarries, WriteCarries
<1>4. CASE ReturnFromPushback(t, u)
  <2>1. PICK row \in Transition(ticket[t], "sendBack", u, "DCC1") :
           Write(t, [row EXCEPT !.flag = FALSE])
    BY <1>4 DEF ReturnFromPushback, WithIntent, Update
  <2> DEFINE new == [row EXCEPT !.flag = FALSE]
  <2>2. new.status = row.status /\ new.round = row.round /\ new.code = row.code
    BY <1>0, TransitionEdge DEF OpenRow
  <2> HIDE DEF new
  <2>3. QED
    BY <1>0, <2>1, <2>2, TransitionWrite DEF new
<1>5. QED
  BY <1>1, <1>2, <1>3, <1>4

\* The reconcile flag moves nothing.
LEMMA ReconcileCustody ==
  ASSUME CodesInv, NEW t \in Ticket, ReconcileStep(t)
  PROVE  CustodyStep
<1>1. PICK next \in BOOLEAN : Write(t, [ticket[t] EXCEPT !.flag = next])
  BY DEF ReconcileStep, FlagMissingPaper, ClearMissingPaper, SetReconcile, Silently, Update
<1> DEFINE row == [ticket[t] EXCEPT !.flag = next]
<1>2. /\ row.status = ticket[t].status /\ row.round = ticket[t].round
      /\ row.code = ticket[t].code
  BY RowOf DEF OpenRow, CodesInv
<1>3. Write(t, row)
  BY <1>1
<1> HIDE DEF row
<1>4. QED
  BY <1>2, <1>3, WriteCarries DEF Carried, Light, LightMove

\* A send to Accounting, with the number it writes.
LEMMA AccountingCustody ==
  ASSUME CodesInv, NEW t \in Ticket, NEW u \in User, NEW role, NEW n,
         SubmitToAccounting(t, u, role, n)
  PROVE  CustodyStep
<1>1. PICK row \in Transition(ticket[t], "sendToAccounting", u, role) :
         Write(t, WithNumber(row, n))
  BY DEF SubmitToAccounting, Silently, Update
<1> DEFINE new == WithNumber(row, n)
<1>2. new.status = row.status /\ new.round = row.round /\ new.code = row.code
  BY RowOf, TransitionEdge DEF WithNumber, OpenRow, CodesInv
<1> HIDE DEF new
<1>3. QED
  BY <1>1, <1>2, TransitionWrite DEF new

\* DCC2's steps.
LEMMA Dcc2Custody ==
  ASSUME CodesInv, SoundTable, NEW t \in Ticket, Dcc2Step(t)
  PROVE  CustodyStep
<1> PICK u \in Dcc2 :
      \/ ConfirmReceivedByDcc2(t, u)
      \/ \E n \in Numbers \cup {NA} : SubmitToAccountingByDcc2(t, u, n)
      \/ \E n \in Numbers \cup {NA} : SkipToCompleted(t, n)
      \/ CompleteContract(t, u)
  BY DEF Dcc2Step
<1>0. u \in User
  BY DEF User
<1>1. CASE ConfirmReceivedByDcc2(t, u)
  BY <1>0, <1>1, MoveCustody DEF ConfirmReceivedByDcc2, ConfirmReceived
<1>2. ASSUME NEW n, SubmitToAccountingByDcc2(t, u, n) PROVE CustodyStep
  BY <1>0, <1>2, AccountingCustody DEF SubmitToAccountingByDcc2
<1>3. ASSUME NEW n \in Numbers \cup {NA}, SkipToCompleted(t, n) PROVE CustodyStep
  <2> DEFINE With(row) == IF n = NA THEN row ELSE [row EXCEPT !.contractNo = n]
  <2>1. PICK row \in SkipChain(ticket[t]) : Write(t, With(row))
    BY <1>3 DEF SkipToCompleted, WithIntent, Update
  <2>2. Carried(row, ticket[t]) /\ row \in OpenRow
    BY <1>3, SoundRowOf, SkipCarries, SkipFacts DEF SkipToCompleted, CodesInv
  <2> DEFINE new == With(row)
  <2>3. new.status = row.status /\ new.round = row.round /\ new.code = row.code
    BY <2>2 DEF OpenRow
  <2>4. Write(t, new)
    BY <2>1
  <2> HIDE DEF new
  <2>5. Carried(new, ticket[t])
    BY <2>2, <2>3 DEF Carried, Light, Heavy
  <2>6. QED
    BY <2>4, <2>5, WriteCarries
<1>4. CASE CompleteContract(t, u)
  BY <1>0, <1>4, MoveCustody DEF CompleteContract
<1>5. QED
  BY <1>1, <1>2, <1>3, <1>4

\* DCC3's steps.
LEMMA Dcc3Custody ==
  ASSUME CodesInv, NEW t \in Ticket, Dcc3Step(t)
  PROVE  CustodyStep
<1> PICK u \in Dcc3 : \/ ConfirmReceivedByDcc3(t, u)
                      \/ \E n \in Numbers : SendAccountingDcc3(t, u, n)
  BY DEF Dcc3Step
<1>0. u \in User
  BY DEF User
<1>1. CASE ConfirmReceivedByDcc3(t, u)
  BY <1>0, <1>1, MoveCustody DEF ConfirmReceivedByDcc3, ConfirmReceived
<1>2. ASSUME NEW n, SendAccountingDcc3(t, u, n) PROVE CustodyStep
  BY <1>0, <1>2, AccountingCustody DEF SendAccountingDcc3
<1>3. QED
  BY <1>1, <1>2

\* The automated steps.
LEMMA SystemCustody ==
  ASSUME CodesInv, NEW t \in Ticket, SystemStep(t)
  PROVE  CustodyStep
<1>1. CASE LockExpires(t)
  BY <1>1, SameTable DEF LockExpires
<1>2. CASE AutoReturn(t)
  <2>1. PICK row \in Transition(ticket[t], "auto_return", System, "DCC1") : Write(t, row)
    BY <1>2 DEF AutoReturn, Update
  <2>2. System \in User
    BY DEF User
  <2>3. QED
    BY <2>1, <2>2, TransitionWrite
<1>3. QED
  BY <1>1, <1>2 DEF SystemStep

\* The commit of an intake: a ticket is taken in, and has its name from then on.
LEMMA IntakeCustody ==
  ASSUME CodesInv, NEW r \in requests, ConfirmCommit(r)
  PROVE  CustodyStep
<1> DEFINE t == r.ticket
<1>0. t \in Ticket /\ ticket[t] \in OpenRow /\ r.user \in User
  BY RequestTyped, RowOf DEF CodesInv, ConfirmCommit, User
<1>1. PICK row \in Transition(ticket[t], "submitToAndy", r.user, "DCC1") :
         Write(t, [row EXCEPT !.code = Mint(row)])
  BY DEF ConfirmCommit
<1> HIDE DEF t
<1> DEFINE new == [row EXCEPT !.code = Mint(row)]
<1>2. row \in OpenRow
  BY <1>0, TransitionEdge
<1>3. PICK e \in Edges :
        /\ e.from = ticket[t].status /\ e.event = "submitToAndy" /\ e.to = row.status
        /\ row.round = IF e.heavy THEN ticket[t].round + 1 ELSE ticket[t].round
  BY <1>0, TransitionEdge
<1>4. /\ CourtOf(ticket[t].status) = "pool" /\ CourtOf(new.status) = "DCC1"
      /\ new.round = ticket[t].round /\ new.code = Mint(row)
  BY <1>2, <1>3, EdgesTravel DEF Travels, OpenRow
<1>5. Write(t, new)
  BY <1>1
<1> HIDE DEF new
<1>6. Minted(new) = TRUE
  <2>1. row.code = ticket[t].code /\ row.flow = ticket[t].flow
    BY <1>0, TransitionEdge
  <2>2. Mint(row) = Mint(ticket[t])
    BY <2>1 DEF Mint, Minted
  <2>3. QED
    BY <1>0, <1>4, <2>2, MintIsACode DEF Minted, CodesInv
<1>7. /\ court' = [court EXCEPT ![t] = "DCC1"] /\ court[t] = "pool"
      /\ named' = [named EXCEPT ![t] = TRUE]
  BY <1>0, <1>4, <1>5, <1>6, WriteSeen DEF CodesInv, court
<1>8. UNCHANGED round
  BY <1>0, <1>4, <1>5, WriteSeen, SameSeen DEF CodesInv
<1>9. Promise!TakeIn(t)
  BY <1>7, <1>8 DEF Promise!TakeIn, Promise!Move, Promise!Keep
<1>10. QED
  BY <1>0, <1>9 DEF CustodyStep, Promise!Next

\* The commits of the other requests in flight.
LEMMA RequestCustody ==
  ASSUME CodesInv, NEW r \in requests, RequestStep(r)
  PROVE  CustodyStep
<1> DEFINE t == r.ticket
<1>0. t \in Ticket /\ ticket[t] \in OpenRow
  BY RequestTyped, RowOf DEF CodesInv
<1> HIDE DEF t
<1>1. CASE EditCommit(r)
  <2> DEFINE row == [ticket[t] EXCEPT !.flow = r.flow, !.contractNo = r.contractNo]
  <2>1. Write(t, row)
    BY <1>1 DEF EditCommit, Update, t
  <2>2. /\ row.status = ticket[t].status /\ row.round = ticket[t].round
        /\ row.code = ticket[t].code
    BY <1>0 DEF OpenRow
  <2> HIDE DEF row
  <2>3. QED
    BY <1>0, <2>1, <2>2, WriteCarries DEF Carried, Light, LightMove
<1>2. CASE ConfirmCommit(r)
  BY <1>2, IntakeCustody
<1>3. CASE UndoCommit(r)
  <2>1. PICK row \in UndoTransition(ticket[t], r.target, r.user, "DCC1") : Write(t, row)
    BY <1>3 DEF UndoCommit, Update, t
  <2>2. r.user \in User /\ r.target \in Audit
    BY <1>3, RequestTyped DEF UndoCommit, User, CodesInv
  <2>3. QED
    BY <1>0, <2>1, <2>2, UndoCarries, WriteCarries
<1>4. CASE PickCommit(r) \/ EnqueueNotice(r) \/ Abandon(r)
  BY <1>4, SameTable DEF PickCommit, EnqueueNotice, Abandon
<1>5. QED
  BY <1>1, <1>2, <1>3, <1>4 DEF RequestStep

-----------------------------------------------------------------------------
(***************************************************************************)
(* The refinement.                                                         *)
(***************************************************************************)
\* The empty database is where the promise begins.
LEMMA InitCustody == Init => Promise!Init
<1> SUFFICES ASSUME Init PROVE Promise!Init
  OBVIOUS
<1>1. ticket = [t \in Ticket |-> AbsentRow]
  BY DEF Init
<1>2. AbsentRow.status = "Absent" /\ AbsentRow.round = 0 /\ AbsentRow.code = NoCode
  BY DEF AbsentRow
<1>3. QED
  BY <1>1, <1>2, Courts DEF Promise!Init, court, round, named, Minted

\* Every step of every handler is a step of the promise or none.
LEMMA NextCustody == CodesInv /\ SoundTable /\ [Next]_vars => CustodyStep
<1> SUFFICES ASSUME CodesInv, SoundTable, [Next]_vars PROVE CustodyStep
  OBVIOUS
<1>1. CASE Next
  BY <1>1, ApplicantCustody, Dcc1Custody, ReconcileCustody, Dcc2Custody, Dcc3Custody,
     SystemCustody, RequestCustody DEF Next
<1>2. CASE UNCHANGED vars
  BY <1>2, SameTable DEF vars
<1>3. QED
  BY <1>1, <1>2

\* The ticket back end implements Custody: whatever edits, undos, returns and
\* half-done requests interleave, a desk works on named tickets only, rounds
\* open with heavy returns only, and a withdrawal is final.
THEOREM ImplementsCustody == Spec => KeepsCustody
<1>1. Init => Promise!Init
  BY InitCustody
<1>2. CodesInv /\ SoundTable /\ [Next]_vars => [Promise!Next]_(Promise!vars)
  BY NextCustody DEF CustodyStep, Promise!vars
<1>3. DesksInv => SoundTable
  BY DEF DesksInv
<1>4. QED
  BY <1>1, <1>2, <1>3, CodesInvariance, DesksInvAlways, PTL DEF Spec, KeepsCustody, Promise!Spec

-----------------------------------------------------------------------------
(***************************************************************************)
(* The offers.                                                             *)
(***************************************************************************)
\* Whose an event is, wherever a flow has it.
OwnerOf(from, event) ==
  CASE event \in {"cancel", "confirmReturnReceipt", "resubmit"} -> "Applicant"
    [] event \in {"confirmReceivedByDcc2", "completeContract"} -> "DCC2"
    [] event = "confirmReceivedByDcc3" -> "DCC3"
    [] event = "sendToAccounting" -> IF from = "ReceivedByDcc2" THEN "DCC2" ELSE "DCC3"
    [] OTHER -> "DCC1"

\* An event has one owner at a status, and a desk's events have an endpoint.
Owned(e) ==
  /\ e.owner = OwnerOf(e.from, e.event)
  /\ e.owner \in {"DCC1", "DCC2", "DCC3"} =>
       e.event \in FlagGuarded \cup GenericEvents \cup {"submitToAndy", "reopen", "auto_return"}
  /\ e.event = "submitToAndy" => e.from = "Submitted"
  /\ e.event = "reopen" => e.from \in Terminal

\* Every edge is of that kind.
LEMMA EdgesOwned == \A e \in Edges : Owned(e)
<1> USE DEF Owned, OwnerOf, FlagGuarded, GenericEvents, Terminal, HeavyReturn, Reversible,
        Plain, EdgeOf
<1>1. \A e \in SharedEdges : Owned(e)
  BY DEF SharedEdges
<1>2. \A e \in GeneralEdges : Owned(e)
  BY DEF GeneralEdges
<1>3. \A e \in ContractEdges : Owned(e)
  BY DEF ContractEdges
<1>4. \A e \in PaymentEdges : Owned(e)
  BY DEF PaymentEdges
<1> HIDE DEF Owned
<1>5. QED
  BY <1>1, <1>2, <1>3, <1>4 DEF Edges

\* What an edge of the flow offers its owner, findEdge finds for him.
LEMMA EdgeIsLegal ==
  ASSUME NEW row, NEW e \in Edges, e.from = row.status, e.flow \in {row.flow, "*"}
  PROVE  Legal(row, e.event, e.owner)
<1> DEFINE In(f) == {x \in Edges : x.from = row.status /\ x.event = e.event /\ x.flow = f}
<1>1. \A f : \A x \in In(f) : x.owner = e.owner
  BY EdgesOwned DEF Owned
<1>2. FindEdge(row.status, e.event, row.flow) = IF In(row.flow) # {} THEN In(row.flow) ELSE In("*")
  BY DEF FindEdge
<1>3. e \in In(row.flow) \/ e \in In("*")
  OBVIOUS
<1> HIDE DEF In
<1>4. \E x \in FindEdge(row.status, e.event, row.flow) : x.owner = e.owner
  BY <1>1, <1>2, <1>3
<1>5. QED
  BY <1>4 DEF Legal

\* An event offered by the legal actions is legal, and has an endpoint.
LEMMA OfferIsLegal ==
  ASSUME NEW row, NEW role \in Desk, NEW event \in LegalActions(row.status, role, row.flow)
  PROVE  /\ Legal(row, event, role)
         /\ event \in FlagGuarded \cup GenericEvents \cup {"submitToAndy", "reopen"}
         /\ event = "submitToAndy" => row.status = "Submitted"
         /\ event = "reopen" => row.status \in Terminal
<1>1. PICK e \in Edges : /\ e.from = row.status /\ e.owner = role /\ e.event = event
                         /\ e.flow \in {row.flow, "*"} /\ e.event # "auto_return"
  BY DEF LegalActions
<1>2. Legal(row, event, role)
  BY <1>1, EdgeIsLegal
<1>3. Owned(e)
  BY EdgesOwned
<1>4. QED
  BY <1>1, <1>2, <1>3 DEF Owned, Desk

\* An unflagged ticket's events are taken, if they are no intake and no reopen.
LEMMA LegalIsTaken ==
  ASSUME NEW row, ~row.flag, NEW role, NEW event \in FlagGuarded \cup GenericEvents,
         Legal(row, event, role)
  PROVE  Takes(row, event, role)
<1>1. event \notin {"__confirm", "__resend", "__resend-dcc3", "__return"}
  BY DEF FlagGuarded, GenericEvents
<1>2. QED
  BY <1>1 DEF Takes

\* A ticket in the Pool can be taken in.
LEMMA IntakeIsTaken ==
  ASSUME NEW row, row.status = "Submitted"
  PROVE  Takes(row, "__confirm", "DCC1")
<1> DEFINE e == Reversible("*", "Submitted", "submitToAndy", "SubmittedToVpAndy", "DCC1")
<1>1. /\ e \in Edges /\ e.from = "Submitted" /\ e.event = "submitToAndy"
      /\ e.owner = "DCC1" /\ e.flow = "*"
  BY DEF Edges, SharedEdges, Reversible, EdgeOf
<1> HIDE DEF e
<1>2. Legal(row, "submitToAndy", "DCC1")
  BY <1>1, EdgeIsLegal
<1>3. QED
  BY <1>2 DEF Takes, FlagGuarded

\* No button is a dead end.
LEMMA OffersTaken ==
  ASSUME DesksInv
  PROVE  OffersAreTaken
<1>1. ASSUME NEW role \in Desk, NEW card \in ColumnCards(role), NEW event \in card.actions
      PROVE  Takes(ticket[card.ticket], event, role)
  <2>1. PICK t \in ListActive(role), s \in StationsForRole(role) :
          /\ InLane(ticket[t], s)
          /\ card = [ticket |-> t, actions |-> ActionsFor(s, role, ticket[t].flow)]
    BY DEF ColumnCards
  <2>2. /\ card.ticket = t /\ ticket[t].status = s /\ ~ticket[t].flag
        /\ event \in ActionsFor(ticket[t].status, role, ticket[t].flow)
        /\ ticket[t].status \notin Terminal
    BY <1>1, <2>1 DEF InLane, ListActive
  <2>3. CASE event \in LegalActions(ticket[t].status, role, ticket[t].flow) /\ event # "submitToAndy"
    <3>1. Legal(ticket[t], event, role) /\ event \in FlagGuarded \cup GenericEvents
      BY <2>2, <2>3, OfferIsLegal
    <3>2. QED
      BY <2>2, <3>1, LegalIsTaken
  <2>4. CASE event = "__confirm" /\ ticket[t].status = "Submitted"
    <3>1. role = "DCC1"
      BY <2>1, <2>2, <2>4 DEF StationsForRole, Desk
    <3>2. QED
      BY <2>2, <2>4, <3>1, IntakeIsTaken
  <2>5. \/ event \in LegalActions(ticket[t].status, role, ticket[t].flow) /\ event # "submitToAndy"
        \/ event = "__confirm" /\ ticket[t].status = "Submitted"
    BY <2>2, OfferIsLegal DEF ActionsFor
  <2>6. QED
    BY <2>3, <2>4, <2>5
<1>2. ASSUME NEW role \in Desk, NEW t \in ListActive(role), ~ticket[t].flag,
             NEW event \in DetailActions(ticket[t], role)
      PROVE  Takes(ticket[t], event, role)
  <2>1. /\ event \in LegalActions(ticket[t].status, role, ticket[t].flow)
        /\ ticket[t].status # "Submitted" /\ event # "reopen"
    BY DEF DetailActions, CurateDetailActions
  <2>2. Legal(ticket[t], event, role) /\ event \in FlagGuarded \cup GenericEvents
    BY <2>1, OfferIsLegal
  <2>3. QED
    BY <1>2, <2>2, LegalIsTaken
<1>3. ASSUME NEW u \in Dcc1, NEW card \in PoolCards(u), card.lockedBy = NoOne
      PROVE  LockableBy(card.ticket, u) /\ Takes(ticket[card.ticket], "__confirm", "DCC1")
  BY <1>3, IntakeIsTaken DEF PoolCards, LockableBy
<1>4. ASSUME NEW card \in WorkboxCards, ~ticket[card.ticket].flag, NEW event \in card.actions
      PROVE  Takes(ticket[card.ticket], event, "DCC1")
  <2>1. PICK t \in Ticket :
          /\ ticket[t].status \in {"SubmittedToVpAndy", "SubmittedToBop"}
          /\ card = [ticket |-> t, actions |-> LegalActions(ticket[t].status, "DCC1", ticket[t].flow)]
    BY DEF WorkboxCards
  <2>2. /\ card.ticket = t /\ ~ticket[t].flag
        /\ event \in LegalActions(ticket[t].status, "DCC1", ticket[t].flow)
    BY <1>4, <2>1
  <2>3. Legal(ticket[t], event, "DCC1") /\ event \in FlagGuarded \cup GenericEvents
    BY <2>1, <2>2, OfferIsLegal DEF Desk, Terminal
  <2>4. QED
    BY <2>2, <2>3, LegalIsTaken
<1>5. QED
  BY <1>1, <1>2, <1>3, <1>4 DEF OffersAreTaken

-----------------------------------------------------------------------------
(***************************************************************************)
(* The work.                                                               *)
(***************************************************************************)
\* Where a ticket is that lies neither with its applicant nor is closed.
UnderWay(flow) == Line(flow) \ (Terminal \cup WithApplicant \cup {"Reopened"})

\* DCC1 can return a ticket from everywhere before a receipt.
LEMMA WaysBack ==
  \A f \in Flow : \A s \in UnderWay(f) \ AfterReceipt : \E e \in Edges :
     e.from = s /\ e.flow \in {f, "*"} /\ e.event = "sendBack" /\ e.owner = "DCC1"
<1> DEFINE Back(f, s, e) ==
      e.from = s /\ e.flow \in {f, "*"} /\ e.event = "sendBack" /\ e.owner = "DCC1"
<1> USE DEF HeavyReturn, Plain, EdgeOf
<1>1. ASSUME NEW f \in Flow, NEW s \in {"Submitted", "SubmittedToVpAndy"}
      PROVE  \E e \in SharedEdges : Back(f, s, e)
  BY <1>1 DEF SharedEdges
<1>2. \E e \in GeneralEdges : Back("General", "SubmittedToBop", e)
  BY DEF GeneralEdges
<1>3. ASSUME NEW s \in {"SubmittedToDcc2", "ReceivedFromAcc", "SubmittedToBop",
                        "SubmittedToDcc2Hardcopy"}
      PROVE  \E e \in ContractEdges : Back("Contract", s, e)
  BY <1>3 DEF ContractEdges
<1>4. \E e \in PaymentEdges : Back("Payment", "SubmittedToDcc3", e)
  BY DEF PaymentEdges
<1> HIDE DEF Back
<1>5. ASSUME NEW f \in Flow, NEW s \in UnderWay(f) \ AfterReceipt
      PROVE  \E e \in Edges : Back(f, s, e)
  <2>1. CASE s \in {"Submitted", "SubmittedToVpAndy"}
    BY <1>1, <2>1 DEF Edges
  <2>2. CASE s \notin {"Submitted", "SubmittedToVpAndy"} /\ f = "General"
    BY <1>2, <1>5, <2>2 DEF UnderWay, Terminal, WithApplicant, Line, Shared, Edges
  <2>3. CASE s \notin {"Submitted", "SubmittedToVpAndy"} /\ f = "Contract"
    BY <1>3, <1>5, <2>3 DEF UnderWay, AfterReceipt, Terminal, WithApplicant, Line, Shared, Edges
  <2>4. CASE s \notin {"Submitted", "SubmittedToVpAndy"} /\ f = "Payment"
    BY <1>4, <1>5, <2>4 DEF UnderWay, AfterReceipt, Terminal, WithApplicant, Line, Shared, Edges
  <2>5. QED
    BY <1>5, <2>1, <2>2, <2>3, <2>4 DEF Flow
<1>6. QED
  BY <1>5 DEF Back

\* Some desk has a column for it, and a move there that has an endpoint.
LEMMA Stationed ==
  \A f \in Flow : \A s \in UnderWay(f) : \E e \in Edges :
     /\ e.from = s /\ e.flow \in {f, "*"} /\ e.owner \in Desk
     /\ e.event \in FlagGuarded \cup GenericEvents
     /\ f \in RoleFlows(e.owner) /\ s \in StationsForRole(e.owner)
<1> DEFINE Column(f, s, e) ==
      /\ e.from = s /\ e.flow \in {f, "*"} /\ e.owner \in Desk
      /\ e.event \in FlagGuarded \cup GenericEvents
      /\ f \in RoleFlows(e.owner) /\ s \in StationsForRole(e.owner)
<1> USE DEF HeavyReturn, Reversible, Plain, EdgeOf, FlagGuarded, GenericEvents, Desk,
        RoleFlows, StationsForRole, Flow
<1>1. ASSUME NEW f \in Flow, NEW s \in {"Submitted", "SubmittedToVpAndy"}
      PROVE  \E e \in SharedEdges : Column(f, s, e)
  BY <1>1 DEF SharedEdges
<1>2. \E e \in GeneralEdges : Column("General", "SubmittedToBop", e)
  BY DEF GeneralEdges
<1>3. ASSUME NEW s \in {"SubmittedToDcc2", "ReceivedByDcc2", "SubmittedToAccounting",
                        "ReceivedFromAcc", "SubmittedToBop", "SubmittedToDcc2Hardcopy",
                        "Hardcopy"}
      PROVE  \E e \in ContractEdges : Column("Contract", s, e)
  BY <1>3 DEF ContractEdges
<1>4. ASSUME NEW s \in {"SubmittedToDcc3", "ReceivedByDcc3"}
      PROVE  \E e \in PaymentEdges : Column("Payment", s, e)
  BY <1>4 DEF PaymentEdges
<1> HIDE DEF Column
<1>5. ASSUME NEW f \in Flow, NEW s \in UnderWay(f)
      PROVE  \E e \in Edges : Column(f, s, e)
  <2>1. CASE s \in {"Submitted", "SubmittedToVpAndy"}
    BY <1>1, <2>1 DEF Edges
  <2>2. CASE s \notin {"Submitted", "SubmittedToVpAndy"} /\ f = "General"
    BY <1>2, <1>5, <2>2 DEF UnderWay, Terminal, WithApplicant, Line, Shared, Edges
  <2>3. CASE s \notin {"Submitted", "SubmittedToVpAndy"} /\ f = "Contract"
    BY <1>3, <1>5, <2>3 DEF UnderWay, Terminal, WithApplicant, Line, Shared, Edges
  <2>4. CASE s \notin {"Submitted", "SubmittedToVpAndy"} /\ f = "Payment"
    BY <1>4, <1>5, <2>4 DEF UnderWay, Terminal, WithApplicant, Line, Shared, Edges
  <2>5. QED
    BY <1>5, <2>1, <2>2, <2>3, <2>4 DEF Flow
<1>6. QED
  BY <1>5 DEF Column

\* Where a ticket's line puts it, by the invariant.
LEMMA WhereItIs ==
  ASSUME DesksInv, NEW t \in Ticket
  PROVE  /\ ticket[t].flow \in Flow /\ ticket[t].flag \in BOOLEAN
         /\ ticket[t].status \notin Terminal \cup WithApplicant \cup {"Absent"} =>
              ticket[t].status \in UnderWay(ticket[t].flow)
         /\ ticket[t].flag => ticket[t].status \notin AfterReceipt
         /\ ticket[t].status # "Reopened"
<1>1. ticket[t] \in OpenRow
  BY RowOf DEF DesksInv
<1>2. OnLine(ticket[t]) /\ ticket[t].status # "Reopened"
  BY DEF DesksInv, SoundTable, Sound, Fits
<1>3. ticket[t].flag => ticket[t].status \notin AfterReceipt
  BY DEF DesksInv, Inv, FlagBlocksReceipt
<1>4. QED
  BY <1>1, <1>2, <1>3 DEF OpenRow, OnLine, UnderWay

\* No ticket falls between the desks.
LEMMA WorkOnABoard ==
  ASSUME DesksInv
  PROVE  WorkIsOnABoard
<1> SUFFICES ASSUME NEW t \in Ticket,
                    ticket[t].status \notin Terminal \cup WithApplicant \cup {"Absent"}
             PROVE  \E role \in Desk : \E card \in Board(role) :
                      card.ticket = t /\ \E event \in card.actions : Takes(ticket[t], event, role)
  BY DEF WorkIsOnABoard
<1> DEFINE row == ticket[t]
<1>1. /\ row.flow \in Flow /\ row.flag \in BOOLEAN /\ row.status \in UnderWay(row.flow)
      /\ row.flag => row.status \notin AfterReceipt
  BY WhereItIs
<1>2. CASE row.flag
  <2> DEFINE card == [ticket |-> t, actions |-> ReconcileActions(row.flow)]
  <2>1. PICK e \in Edges : /\ e.from = row.status /\ e.flow \in {row.flow, "*"}
                           /\ e.event = "sendBack" /\ e.owner = "DCC1"
    BY <1>1, <1>2, WaysBack
  <2>2. Legal(row, "sendBack", "DCC1")
    BY <2>1, EdgeIsLegal
  <2>3. Takes(row, "__return", "DCC1")
    BY <1>2, <2>2 DEF Takes, FlagGuarded
  <2>4. t \in ReconcileLane("DCC1")
    BY <1>1, <1>2 DEF ReconcileLane, ListActive, RoleFlows
  <2>5. card \in Board("DCC1")
    BY <2>4 DEF Board, LaneCards
  <2>6. "__return" \in card.actions
    BY DEF ReconcileActions
  <2>7. QED
    BY <2>3, <2>5, <2>6 DEF Desk
<1>3. CASE ~row.flag
  <2>1. PICK e \in Edges :
          /\ e.from = row.status /\ e.flow \in {row.flow, "*"} /\ e.owner \in Desk
          /\ e.event \in FlagGuarded \cup GenericEvents
          /\ row.flow \in RoleFlows(e.owner) /\ row.status \in StationsForRole(e.owner)
    BY <1>1, Stationed
  <2> DEFINE card == [ticket |-> t, actions |-> ActionsFor(row.status, e.owner, row.flow)]
  <2>2. Takes(row, e.event, e.owner)
    BY <1>3, <2>1, EdgeIsLegal, LegalIsTaken
  <2>3. t \in ListActive(e.owner) /\ InLane(row, row.status)
    BY <1>3, <2>1 DEF ListActive, InLane
  <2>4. card \in Board(e.owner)
    BY <2>1, <2>3 DEF Board, ColumnCards
  <2>5. e.event # "auto_return"
    BY <2>1 DEF FlagGuarded, GenericEvents
  <2>6. e.event \in LegalActions(row.status, e.owner, row.flow)
    BY <2>1, <2>5 DEF LegalActions
  <2>7. row.status = "Submitted" => e.event = "sendBack"
    <3>1. \A x \in Edges : x.from = "Submitted" /\ x.event \in FlagGuarded \cup GenericEvents =>
            x.event = "sendBack"
      BY DEF Edges, SharedEdges, GeneralEdges, ContractEdges, PaymentEdges, HeavyReturn,
         Reversible, Plain, EdgeOf, FlagGuarded, GenericEvents
    <3>2. QED
      BY <2>1, <3>1
  <2>8. e.event \in card.actions
    BY <2>6, <2>7 DEF ActionsFor
  <2>9. QED
    BY <2>1, <2>2, <2>4, <2>8
<1>4. QED
  BY <1>2, <1>3

-----------------------------------------------------------------------------
(***************************************************************************)
(* The map.                                                                *)
(***************************************************************************)
\* The statuses a flow's map shows.
Mapped(flow) == Line(flow) \ (WithApplicant \cup {"Cancelled", "Reopened"})

\* A list of statuses shows one once.
Once(list, status) == \E n \in DOMAIN list : {i \in DOMAIN list : list[i] = status} = {n}

\* The stations of a flow show each of its statuses once.
LEMMA StationsShow ==
  \A f \in Flow : \A s \in Mapped(f) : Once(FlowStations(f), DisplayStation(f, s))
<1> USE DEF Mapped, Line, Shared, WithApplicant, FlowStations, DisplayStation
<1>1. ASSUME NEW s \in Mapped("General") PROVE Once(WithBop, s)
  BY DEF WithBop, Once
<1>2. ASSUME NEW s \in Mapped("Contract") PROVE Once(BaseRoute("Contract"), s)
  BY DEF BaseRoute, Once
<1>3. ASSUME NEW s \in Mapped("Payment")
      PROVE  Once(BaseRoute("Payment"), DisplayStation("Payment", s))
  BY DEF BaseRoute, Once
<1> HIDE DEF Mapped
<1>4. QED
  BY <1>1, <1>2, <1>3 DEF Flow

\* So does the route of each of its statuses.
LEMMA RouteShows ==
  \A f \in Flow : \A s \in Mapped(f) :
     Once(IF f = "General" /\ s = "SubmittedToBop" THEN WithBop ELSE BaseRoute(f),
          DisplayStation(f, s))
<1>1. \A s \in Mapped("General") \ {"SubmittedToBop"} : Once(BaseRoute("General"), s)
  BY DEF Mapped, Line, Shared, WithApplicant, BaseRoute, Once
<1>2. Once(WithBop, "SubmittedToBop")
  BY DEF WithBop, Once
<1>3. \A s \in Mapped("General") : DisplayStation("General", s) = s
  BY DEF DisplayStation
<1>4. \A f \in {"Contract", "Payment"} : \A s \in Mapped(f) :
         Once(BaseRoute(f), DisplayStation(f, s))
  BY StationsShow DEF FlowStations, Flow
<1>5. QED
  BY <1>1, <1>2, <1>3, <1>4 DEF Flow

\* A station a map shows is a status.
LEMMA StationsAreStatuses ==
  \A f \in Flow : \A s \in Mapped(f) : DisplayStation(f, s) \in Status
BY DEF Flow, Mapped, WithApplicant, Line, Shared, DisplayStation, Status

\* The map shows every ticket under way or done at one station, and its route
\* points there.
LEMMA EachOnTheMap ==
  ASSUME DesksInv
  PROVE  OnTheMap
<1> SUFFICES ASSUME NEW t \in Ticket,
                    ticket[t].status \notin WithApplicant \cup {"Absent", "Cancelled"}
             PROVE  LET row == ticket[t]
                        at(station) == \E i \in DOMAIN FlowStations(row.flow) :
                          /\ FlowStations(row.flow)[i] = station
                          /\ t \in StationTickets(row.flow, station)
                        route == ProjectedRoute(row.flow, row.status)
                    IN  /\ \E station \in Status : at(station) /\ \A s \in Status : at(s) => s = station
                        /\ Cardinality({i \in DOMAIN route : route[i].phase = "now"}) = 1
  BY DEF OnTheMap
<1> DEFINE row == ticket[t]
           f == row.flow
           here == DisplayStation(f, row.status)
<1>1. f \in Flow /\ row.status \in Mapped(f)
  <2>1. row.status \notin WithApplicant \cup {"Absent", "Cancelled", "Reopened"}
    BY WhereItIs
  <2>2. row.status \in Line(f)
    BY <2>1 DEF DesksInv, SoundTable, Sound, OnLine
  <2>3. QED
    BY <2>1, <2>2, WhereItIs DEF Mapped
<1> DEFINE at(station) == \E i \in DOMAIN FlowStations(f) :
             FlowStations(f)[i] = station /\ t \in StationTickets(f, station)
<1>2. here \in Status /\ at(here) /\ \A s \in Status : at(s) => s = here
  <2>1. here \in Status
    BY <1>1, StationsAreStatuses
  <2>2. \A s : t \in StationTickets(f, s) <=> s = here
    BY DEF StationTickets
  <2>3. \E i \in DOMAIN FlowStations(f) : FlowStations(f)[i] = here
    BY <1>1, StationsShow DEF Once
  <2>4. QED
    BY <2>1, <2>2, <2>3
<1> DEFINE list == IF f = "General" /\ row.status = "SubmittedToBop" THEN WithBop ELSE BaseRoute(f)
           route == ProjectedRoute(f, row.status)
<1>3. PICK n \in DOMAIN list : {i \in DOMAIN list : list[i] = here} = {n}
  BY <1>1, RouteShows DEF Once
<1>4. DOMAIN route = DOMAIN list
  BY DEF ProjectedRoute
<1>5. \A i \in DOMAIN list : route[i].phase = "now" <=> list[i] = here
  BY DEF ProjectedRoute
<1>6. {i \in DOMAIN route : route[i].phase = "now"} = {n}
  BY <1>3, <1>4, <1>5
<1>7. Cardinality({i \in DOMAIN route : route[i].phase = "now"}) = 1
  BY <1>6, FS_Singleton
<1>8. QED
  BY <1>2, <1>7

\* The boards show the work there is, where it is, and only what can be done
\* to it, for any tickets, users and flags, whatever happened before.
THEOREM BoardsAlwaysHold == Spec => []BoardsHold
<1>1. DesksInv => BoardsHold
  BY OffersTaken, WorkOnABoard, EachOnTheMap DEF BoardsHold
<1>2. QED
  BY <1>1, DesksInvAlways, PTL
=============================================================================
