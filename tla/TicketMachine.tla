--------------------------- MODULE TicketMachine ---------------------------
(***************************************************************************)
(* The pure core of the ticket engine: the closed set of edges, the lookup *)
(* of an edge, who owns a status, and the two operations that may change a *)
(* status, a transition and its undo.  Nothing here has state; a ticket is *)
(* a record (see Row in Tickets) and an operation maps a record to the SET *)
(* of records it can become: empty where the code throws.                  *)
(***************************************************************************)
LOCAL INSTANCE Naturals

CONSTANTS System,   \* SYSTEM_SUB, the actor of automated steps
          NoOne     \* the null of a holder column

Flow == {"General", "Contract", "Payment"}
Role == {"Applicant", "DCC1", "DCC2", "DCC3"}

(***************************************************************************)
(* TICKET_STATUS, by its keys.  Terminal tickets are closed: no holder, no *)
(* badge, no edge but a reopen.                                            *)
(***************************************************************************)
Status == {"Submitted", "SubmittedToVpAndy", "SubmittedToDcc2",
           "ReceivedByDcc2", "SubmittedToDcc3", "ReceivedByDcc3",
           "SubmittedToAccounting", "ReceivedFromAcc", "SubmittedToBop",
           "SubmittedToDcc2Hardcopy", "Hardcopy", "SentToAccounting",
           "Completed", "Returned", "ReturnFixing", "Reopened", "Cancelled"}

Terminal == {"Completed", "SentToAccounting", "Cancelled"}

(***************************************************************************)
(* Edges.  `reversible' marks the forward moves an undo may compensate,    *)
(* `heavy' (enteredFlow) the returns that open a new round.                *)
(***************************************************************************)
EdgeOf(flow, from, event, to, owner, reversible, heavy) ==
  [flow |-> flow, from |-> from, event |-> event, to |-> to,
   owner |-> owner, reversible |-> reversible, heavy |-> heavy]

Plain(flow, from, event, to, owner) ==
  EdgeOf(flow, from, event, to, owner, FALSE, FALSE)
Reversible(flow, from, event, to, owner) ==
  EdgeOf(flow, from, event, to, owner, TRUE, FALSE)
\* Fault: a return from beyond DCC1's desk that does not count its round.
UncountedReturn(flow, from) ==
  EdgeOf(flow, from, "sendBack", "Returned", "DCC1", FALSE, FALSE)

HeavyReturn(flow, from) ==
  EdgeOf(flow, from, "sendBack", "Returned", "DCC1", FALSE, TRUE)

SharedEdges == {
  Reversible("*", "Submitted", "submitToAndy", "SubmittedToVpAndy", "DCC1"),
  Plain("*", "Submitted", "sendBack", "Returned", "DCC1"),
  Plain("*", "SubmittedToVpAndy", "sendBack", "Returned", "DCC1"),
  Plain("*", "Submitted", "auto_return", "ReturnFixing", "DCC1"),
  Plain("*", "Submitted", "cancel", "Cancelled", "Applicant"),
  Plain("*", "Returned", "confirmReturnReceipt", "ReturnFixing", "Applicant"),
  Plain("*", "ReturnFixing", "resubmit", "Submitted", "Applicant"),
  Plain("*", "Completed", "reopen", "Reopened", "DCC1"),
  HeavyReturn("*", "Reopened")}

GeneralEdges == {
  Plain("General", "SubmittedToVpAndy", "andyApproveComplete", "Completed", "DCC1"),
  Reversible("General", "SubmittedToVpAndy", "andyRequireBop", "SubmittedToBop", "DCC1"),
  Plain("General", "SubmittedToBop", "bopApprove", "Completed", "DCC1"),
  Plain("General", "SubmittedToBop", "sendBack", "Returned", "DCC1")}

ContractEdges == {
  Reversible("Contract", "SubmittedToVpAndy", "handoverToDcc2", "SubmittedToDcc2", "DCC1"),
  Plain("Contract", "SubmittedToDcc2", "confirmReceivedByDcc2", "ReceivedByDcc2", "DCC2"),
  Plain("Contract", "ReceivedByDcc2", "sendToAccounting", "SubmittedToAccounting", "DCC2"),
  Plain("Contract", "SubmittedToAccounting", "receiveFromAcc", "ReceivedFromAcc", "DCC1"),
  Reversible("Contract", "ReceivedFromAcc", "submitToBop", "SubmittedToBop", "DCC1"),
  HeavyReturn("Contract", "ReceivedFromAcc"),
  Reversible("Contract", "SubmittedToBop", "bopApprove", "SubmittedToDcc2Hardcopy", "DCC1"),
  HeavyReturn("Contract", "SubmittedToBop"),
  Plain("Contract", "SubmittedToDcc2Hardcopy", "confirmReceivedByDcc2", "Hardcopy", "DCC2"),
  Plain("Contract", "Hardcopy", "completeContract", "Completed", "DCC2"),
  HeavyReturn("Contract", "SubmittedToDcc2"),
  HeavyReturn("Contract", "SubmittedToDcc2Hardcopy")}

PaymentEdges == {
  Reversible("Payment", "SubmittedToVpAndy", "handoverToDcc3", "SubmittedToDcc3", "DCC1"),
  Plain("Payment", "SubmittedToDcc3", "confirmReceivedByDcc3", "ReceivedByDcc3", "DCC3"),
  Plain("Payment", "ReceivedByDcc3", "sendToAccounting", "SentToAccounting", "DCC3"),
  HeavyReturn("Payment", "SubmittedToDcc3"),
  Plain("Payment", "SentToAccounting", "reopen", "Reopened", "DCC1")}

Edges == SharedEdges \cup GeneralEdges \cup ContractEdges \cup PaymentEdges

(***************************************************************************)
(* findEdge: the flow's own edge wins over the shared one.                 *)
(***************************************************************************)
FindEdge(from, event, flow) ==
  LET In(f) == {e \in Edges : e.from = from /\ e.event = event /\ e.flow = f}
  IN  IF In(flow) # {} THEN In(flow) ELSE In("*")

(***************************************************************************)
(* stateOwner and deriveHolder: who holds a ticket is a function of where  *)
(* it has just arrived and who moved it there.                             *)
(***************************************************************************)
StateOwner(status) ==
  CASE status \in {"SubmittedToVpAndy", "SubmittedToBop", "Reopened",
                   "SubmittedToAccounting", "ReceivedFromAcc"} -> "DCC1"
    [] status \in {"SubmittedToDcc2", "ReceivedByDcc2",
                   "SubmittedToDcc2Hardcopy", "Hardcopy"} -> "DCC2"
    [] status \in {"SubmittedToDcc3", "ReceivedByDcc3"} -> "DCC3"
    [] status \in {"Returned", "ReturnFixing"} -> "Applicant"
    [] OTHER -> NoOne

\* Fault: the acting role is stored where the sub of the user belongs.
DeriveHolderByRole(to, applicant, user, role) ==
  IF to \in Terminal THEN NoOne
  ELSE IF StateOwner(to) = "Applicant" THEN applicant
  ELSE IF StateOwner(to) = role THEN role
  ELSE NoOne

DeriveHolder(to, applicant, user, role) ==
  IF to \in Terminal THEN NoOne
  ELSE IF StateOwner(to) = "Applicant" THEN applicant
  ELSE IF StateOwner(to) = role THEN user
  ELSE NoOne

(***************************************************************************)
(* transition: the row after `event' fired by `user' acting as `role'.     *)
(* `last' is the audit row lastTransitionEvent would return afterwards.    *)
(***************************************************************************)
Transition(row, event, user, role) ==
  LET legal == {e \in FindEdge(row.status, event, row.flow) : e.owner = role}
  IN  {[row EXCEPT !.status = e.to,
                   !.holder = DeriveHolder(e.to, row.applicant, user, role),
                   !.round  = IF e.heavy THEN @ + 1 ELSE @,
                   !.last   = [event |-> event, from |-> row.status]] : e \in legal}

(***************************************************************************)
(* undoTransition: compensates the move `target' names, if its edge is     *)
(* reversible, the user's role owns it and the ticket still sits where it  *)
(* led.  Code, round, numbers and the reconcile flag stay as they are.     *)
(***************************************************************************)
\* Fault: the undo restores the status and forgets whose ticket it was there.
UndoKeepsHolder(row, target, user, role) ==
  {[row EXCEPT !.status = target.from,
               !.last   = [event |-> "undo", from |-> row.status]]
     : e \in {x \in FindEdge(target.from, target.event, row.flow) :
                x.reversible /\ x.owner = role /\ x.to = row.status}}

UndoTransition(row, target, user, role) ==
  LET undoable == {e \in FindEdge(target.from, target.event, row.flow) :
                     e.reversible /\ e.owner = role /\ e.to = row.status}
  IN  {[row EXCEPT !.status = target.from,
                   !.holder = DeriveHolder(target.from, row.applicant, user, role),
                   !.last   = [event |-> "undo", from |-> row.status]] : e \in undoable}

(***************************************************************************)
(* A chain of transitions in one transaction: every row one more step can  *)
(* make of any of `rows'.  Empty as soon as one step throws, which rolls   *)
(* the whole chain back.                                                   *)
(***************************************************************************)
AndThen(rows, event, user, role) ==
  UNION {Transition(row, event, user, role) : row \in rows}

\* applyChain of ReopenTicketUseCase: reopen, then sendBack.
ReopenChain(row, user) ==
  AndThen(Transition(row, "reopen", user, "DCC1"), "sendBack", user, "DCC1")

\* SKIP_TO_COMPLETED_STEPS: every Contract edge after the receipt, by the system.
SkipChain(row) ==
  LET s1 == Transition(row, "sendToAccounting", System, "DCC2")
      s2 == AndThen(s1, "receiveFromAcc", System, "DCC1")
      s3 == AndThen(s2, "submitToBop", System, "DCC1")
      s4 == AndThen(s3, "bopApprove", System, "DCC1")
      s5 == AndThen(s4, "confirmReceivedByDcc2", System, "DCC2")
  IN  AndThen(s5, "completeContract", System, "DCC2")

\* legalActions: the events a role is offered on a ticket.
LegalActions(status, role, flow) ==
  {e.event : e \in {x \in Edges : /\ x.from = status /\ x.owner = role
                                  /\ x.flow \in {flow, "*"}
                                  /\ x.event # "auto_return"}}

(***************************************************************************)
(* What the handlers take beyond the edge.                                 *)
(***************************************************************************)
\* Fault: the generic endpoint also takes the intake, which mints nothing there.
GenericEventsWithIntake ==
  {"andyApproveComplete", "andyRequireBop", "bopApprove", "sendBack",
   "handoverToDcc2", "handoverToDcc3", "submitToBop", "receiveFromAcc",
   "submitToAndy"}

\* GENERIC_ACTION_EVENTS: what the generic (and batch) action endpoint takes.
GenericEvents == {"andyApproveComplete", "andyRequireBop", "bopApprove",
                  "sendBack", "handoverToDcc2", "handoverToDcc3",
                  "submitToBop", "receiveFromAcc"}

\* The statuses where a paper is waited for, and may be reported missing.
HandoverStates == {"SubmittedToDcc2", "SubmittedToDcc2Hardcopy",
                   "SubmittedToDcc3"}

\* What a handler checks beyond the edge: these events refuse a flagged ticket.
FlagGuarded == {"confirmReceivedByDcc2", "confirmReceivedByDcc3",
                "sendToAccounting", "completeContract"}
=============================================================================
