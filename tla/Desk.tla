-------------------------------- MODULE Desk --------------------------------
(***************************************************************************)
(* One person's board: buttons that post at once, dialogs that ask first,  *)
(* the sheet that sends many numbers, and the loads that follow each of    *)
(* them.  Which role sees which column is BoardRules'; the hook is the     *)
(* same for all, and the files here stand at any of the stations.          *)
(***************************************************************************)
EXTENDS Naturals, FiniteSets

CONSTANTS File,      \* tickets on the board
          Number,    \* document numbers typed
          Nobody,    \* no file, no number
          MaxTaps, MaxOthers, MaxDrops \* bounds: clicks, steps of others, losses

ASSUME DeskAssumption == /\ {MaxTaps, MaxOthers, MaxDrops} \subseteq Nat
                         /\ Nobody \notin File \cup Number

VARIABLES placed,    \* each file in the database: status, number, the dialog it was typed in
          usedNo,   \* numbers of tickets of other boards
          board,    \* cols: the files as the board shows them
          behind,   \* they changed since, and nothing is on its way that would tell
          chip,     \* "reconnecting": the last load failed
          dialog,   \* the one that is open
          inFlight, \* inFlightRef: cards whose buttons have a POST under way
          actions,  \* POSTs of single actions
          batches,  \* runs of the sheet
          reads,    \* loads of the board
          undos,    \* cards whose toast still offers Undo
          taps, others, drops

deskVars == <<placed, usedNo, board, behind, chip, dialog, inFlight, actions, batches,
              reads, undos, taps, others, drops>>
Stored == <<placed, usedNo>>
Shown == <<board, behind, chip>>

\* What a button of a card at a station does, and by way of which dialog.  A type
\* that needs a number asks for it; one that needs none is sent from its button, or,
\* where it may skip, "SkipOnly", from the dialog without a field.  An `ask' is for what
\* cannot be taken back or needs a reason; the rest posts at once and offers Undo.
Way(do, from, to, by) == [do |-> do, from |-> from, to |-> to, by |-> by]
Steps ==
  {Way("seize", "Locked", "Submitted", "button"),
   Way("confirm", "Submitted", "SubmittedToVpAndy", "button"),
   Way("resend", "Flagged", "SubmittedToDcc2", "button"),
   Way("return", "Flagged", "Returned", "ask"),
   Way("receive", "SubmittedToDcc2", "ReceivedByDcc2", "handover"),
   Way("missing", "SubmittedToDcc2", "Flagged", "handover"),
   Way("send", "ReceivedByDcc2", "SubmittedToAccounting", "sendAcc"),
   Way("skip", "ReceivedByDcc2", "Completed", "sendAcc"),
   Way("send", "ReceivedSkipOnly", "SubmittedToAccounting", "skipOnly"),
   Way("skip", "ReceivedSkipOnly", "Completed", "skipOnly"),
   Way("send", "ReceivedWithoutNo", "SubmittedToAccounting", "button"),
   Way("receiveFromAcc", "SubmittedToAccounting", "ReceivedFromAcc", "receiveAcc"),
   Way("submitToBop", "ReceivedFromAcc", "SubmittedToBop", "ask"),
   Way("bopApprove", "SubmittedToBop", "SubmittedToDcc2Hardcopy", "undoable"),
   Way("complete", "Hardcopy", "Completed", "ask")}
WorkStations == {s.from : s \in Steps}

NoFields == [f \in File |-> Nobody]
NoDialog == [kind |-> "none", do |-> "none", cards |-> {}, vals |-> NoFields,
             errs |-> {}, done |-> {}, busy |-> FALSE, n |-> 0]
Opened(kind, do, cards) ==
  [NoDialog EXCEPT !.kind = kind, !.do = do, !.cards = cards, !.n = taps + 1]

DeskInit == /\ placed \in [File -> [status : WorkStations, no : {Nobody}, of : {0}]]
            /\ usedNo = {}
            /\ board = placed /\ behind = FALSE /\ chip = FALSE
            /\ dialog = NoDialog /\ inFlight = {} /\ undos = {}
            /\ actions = {} /\ batches = {} /\ reads = {}
            /\ taps = 0 /\ others = 0 /\ drops = 0

Tap == taps < MaxTaps /\ taps' = taps + 1 /\ UNCHANGED <<others, drops>>
Drop == drops < MaxDrops /\ drops' = drops + 1 /\ UNCHANGED <<taps, others>>
NoTap == UNCHANGED <<taps, others, drops>>

-----------------------------------------------------------------------------
(***************************************************************************)
(* Clicks.  A dialog covers the board: a card is clicked when none is open.*)
(***************************************************************************)
\* Fault: the dialog-less paths rely on the dialogs' own guard.
NoMark(f) == {}

\* The synchronous gate of run and doSeize.
MarkBusy(f) == {f}

Action(do, f, by, no) == [do |-> do, card |-> f, by |-> by, no |-> no, stage |-> "asked",
                          n |-> taps + 1, of |-> dialog.n]

Press(f, s) == /\ dialog = NoDialog /\ f \notin inFlight /\ Tap
               /\ board[f].status = s.from /\ s.by \in {"button", "undoable"}
               /\ inFlight' = inFlight \cup MarkBusy(f)
               /\ actions' = actions \cup {Action(s.do, f, s.by, Nobody)}
               /\ UNCHANGED <<Stored, Shown, dialog, batches, reads, undos>>

\* A card that asks is busy only until its dialog is open.
OpenDialog(f, s) ==
  /\ dialog = NoDialog /\ f \notin inFlight /\ Tap
  /\ board[f].status = s.from /\ s.by \in {"ask", "handover", "sendAcc", "skipOnly", "receiveAcc"}
  /\ dialog' = Opened(s.by, IF s.by = "ask" THEN s.do ELSE "none", {f})
  /\ UNCHANGED <<Stored, Shown, inFlight, actions, batches, reads, undos>>

BatchCards == {f \in File : board[f].status = "ReceivedByDcc2"}
OpenSheet == /\ dialog = NoDialog /\ BatchCards # {} /\ Tap
             /\ dialog' = Opened("sheet", "send", BatchCards)
             /\ UNCHANGED <<Stored, Shown, inFlight, actions, batches, reads, undos>>

\* Esc closes a dialog even while its POST is under way, but for the sheet.
CloseDialog == /\ dialog # NoDialog /\ ~(dialog.kind = "sheet" /\ dialog.busy) /\ NoTap
               /\ dialog' = NoDialog
               /\ UNCHANGED <<Stored, Shown, inFlight, actions, batches, reads, undos>>

\* Succeeded rows drop off the sheet.
Listed == dialog.cards \ dialog.done
TypeNo(f, no) ==
  /\ dialog.kind \in {"sendAcc", "sheet"} /\ f \in Listed /\ NoTap
  /\ dialog.vals[f] # no /\ ~(dialog.kind = "sheet" /\ dialog.busy)
  /\ dialog' = [dialog EXCEPT !.vals[f] = no, !.errs = @ \ {f}]
  /\ UNCHANGED <<Stored, Shown, inFlight, actions, batches, reads, undos>>

\* A button of the dialog that is open, and is not busy.
Offered(s) == s.by = dialog.kind /\ ~dialog.busy /\ (dialog.kind = "ask" => s.do = dialog.do)

\* Where there is a field, the number is required; an `ask' closes first, the others wait.
Submit(f, s) ==
  /\ f \in dialog.cards /\ Offered(s) /\ Tap
  /\ dialog.kind = "sendAcc" => dialog.vals[f] # Nobody
  /\ actions' = actions \cup {Action(s.do, f, dialog.kind, dialog.vals[f])}
  /\ dialog' = IF dialog.kind = "ask" THEN NoDialog ELSE [dialog EXCEPT !.busy = TRUE, !.errs = {}]
  /\ UNCHANGED <<Stored, Shown, inFlight, batches, reads, undos>>

Undo(f) == /\ f \in undos /\ Tap
           /\ undos' = undos \ {f}
           /\ actions' = actions \cup {Action("undo", f, "toast", Nobody)}
           /\ UNCHANGED <<Stored, Shown, dialog, inFlight, batches, reads>>

-----------------------------------------------------------------------------
(***************************************************************************)
(* The server: what is on its way to the board is behind, and so is the    *)
(* board unless the change was asked for here.                             *)
(***************************************************************************)
Taken(no) == no \in usedNo \cup {placed[g].no : g \in File}
Effects(do, f, no, of) ==
  {IF s.by = "sendAcc" THEN [status |-> s.to, no |-> no, of |-> of]
   ELSE [placed[f] EXCEPT !.status = s.to] :
     s \in {x \in Steps : /\ x.do = do /\ placed[f].status = x.from
                          /\ no # Nobody => ~Taken(no)}}
UndoEffects(f) == {[placed[f] EXCEPT !.status = s.from] :
                     s \in {x \in Steps : x.by = "undoable" /\ placed[f].status = x.to}}
Outdate == reads' = {[r EXCEPT !.behind = @ \/ r.stage = "read"] : r \in reads}

\* An undo may come after its five seconds as well.
EffectsOf(a) == IF a.do = "undo" THEN UndoEffects(a.card) ELSE Effects(a.do, a.card, a.no, a.of)
Replaced(a, stage) == actions' = (actions \ {a}) \cup {[a EXCEPT !.stage = stage]}

HandleAction(a) ==
  /\ a.stage = "asked" /\ NoTap
  /\ \/ /\ \E row \in EffectsOf(a) : placed' = [placed EXCEPT ![a.card] = row]
        /\ Replaced(a, "ok") /\ Outdate
     \/ /\ EffectsOf(a) = {} \/ a.do = "undo"
        /\ Replaced(a, "refused") /\ UNCHANGED <<placed, reads>>
  /\ UNCHANGED <<usedNo, Shown, dialog, inFlight, batches, undos>>

\* Somebody else moves a file, or uses a number elsewhere.
Other(f, s) == /\ others < MaxOthers /\ others' = others + 1 /\ UNCHANGED <<taps, drops>>
               /\ s.by # "sendAcc" /\ placed[f].status = s.from
               /\ placed' = [placed EXCEPT ![f].status = s.to]
               /\ Outdate /\ behind' = TRUE
               /\ UNCHANGED <<usedNo, board, chip, dialog, inFlight, actions, batches, undos>>
OtherNo(no) == /\ others < MaxOthers /\ others' = others + 1 /\ UNCHANGED <<taps, drops>>
               /\ ~Taken(no) /\ usedNo' = usedNo \cup {no}
               /\ UNCHANGED <<placed, Shown, dialog, inFlight, actions, batches, reads, undos>>

-----------------------------------------------------------------------------
(***************************************************************************)
(* Answers                                                                 *)
(***************************************************************************)
\* clears: the card whose buttons are enabled again when the load is over.
BoardLoad(n, f) == [n |-> n, clears |-> f, stage |-> "asked", rows |-> board, behind |-> FALSE]

\* setHandover(null) and its like close what is open by now.
ShutDialog(kind) == dialog' = IF dialog.kind = kind /\ kind # "ask" THEN NoDialog ELSE dialog

\* Fault: a receipt that failed leaves the board as it is.
ButtonsOnly == {"button", "undoable", "toast", "ask"}

\* The dialogs that a failed send leaves open, with an error.
StayOpen == {"sendAcc", "skipOnly"}

\* Whose failure loads the board.
LoadsAfterFailure == {"button", "undoable", "toast", "ask", "handover", "receiveAcc"}

Answer(a) ==
  /\ a.stage = "ok" /\ NoTap
  /\ actions' = actions \ {a}
  /\ reads' = reads \cup {BoardLoad(a.n, IF a.by \in {"button", "undoable"} THEN a.card ELSE Nobody)}
  /\ ShutDialog(a.by)
  /\ undos' = IF a.by = "undoable" THEN undos \cup {a.card} ELSE undos
  /\ UNCHANGED <<Stored, Shown, inFlight, batches>>

\* A seize that came too late is an answer, one that is lost is only told.
Failing(a, noAnswer) ==
  /\ actions' = actions \ {a}
  /\ IF a.by \in LoadsAfterFailure /\ ~(noAnswer /\ a.do = "seize")
       THEN /\ reads' = reads \cup {BoardLoad(a.n, IF a.by \in {"button", "undoable"} THEN a.card
                                              ELSE Nobody)}
            /\ UNCHANGED <<inFlight, behind>>
       ELSE /\ inFlight' = IF a.by = "button" THEN inFlight \ {a.card} ELSE inFlight
            /\ behind' = (behind \/ (a.stage = "ok" /\ a.do \in {"seize", "send", "skip"}))
            /\ UNCHANGED reads
  /\ CASE a.by \in StayOpen /\ dialog.n = a.of ->
            dialog' = [dialog EXCEPT !.busy = FALSE, !.errs = dialog.cards]
       [] a.by \in StayOpen /\ dialog.n # a.of -> UNCHANGED dialog
       [] OTHER -> ShutDialog(a.by)
  /\ UNCHANGED <<Stored, board, chip, batches, undos>>
Refused(a) == a.stage = "refused" /\ NoTap /\ Failing(a, FALSE)
Lost(a) == Drop /\ Failing(a, TRUE)

\* The toast goes, or its five seconds.
ToastGone(f) == /\ f \in undos /\ NoTap
                /\ undos' = undos \ {f}
                /\ UNCHANGED <<Stored, Shown, dialog, inFlight, actions, batches, reads>>

-----------------------------------------------------------------------------
(***************************************************************************)
(* The sheet: a check of all numbers, the sends one after the other, and   *)
(* one load.                                                               *)
(***************************************************************************)
Filled == {f \in Listed : dialog.vals[f] # Nobody}
ListDup == {f \in Filled : \E g \in Filled \ {f} : dialog.vals[f] = dialog.vals[g]}

SubmitSheet ==
  /\ dialog.kind = "sheet" /\ ~dialog.busy /\ Filled # {} /\ ListDup = {} /\ Tap
  /\ dialog' = [dialog EXCEPT !.busy = TRUE]
  /\ batches' = batches \cup {[n |-> taps + 1, of |-> dialog.n, vals |-> dialog.vals,
                               todo |-> Filled, now |-> Nobody, sent |-> "no",
                               ok |-> {}, bad |-> {}, stage |-> "check"]}
  /\ UNCHANGED <<Stored, Shown, inFlight, actions, reads, undos>>

Goes(b, next) == batches' = (batches \ {b}) \cup {next}
OnSheet(b, after) == dialog' = IF dialog.n = b.of THEN after ELSE dialog
InBatch == UNCHANGED <<usedNo, Shown, inFlight, actions, undos>>

\* "A known clash never half-sends the batch"; a check that fails is passed over.
Clashes(b) == {f \in b.todo : Taken(b.vals[f])}
Check(b) == /\ b.stage = "check" /\ NoTap /\ InBatch
            /\ IF Clashes(b) = {} THEN Goes(b, [b EXCEPT !.stage = "send"]) /\ UNCHANGED dialog
               ELSE /\ batches' = batches \ {b}
                    /\ OnSheet(b, [dialog EXCEPT !.errs = Clashes(b), !.busy = FALSE])
            /\ UNCHANGED <<placed, reads>>
CheckFails(b) == /\ b.stage = "check" /\ Drop /\ InBatch
                 /\ Goes(b, [b EXCEPT !.stage = "send"])
                 /\ UNCHANGED <<placed, reads, dialog>>

SendNext(b, f) == /\ b.stage = "send" /\ b.now = Nobody /\ f \in b.todo /\ NoTap /\ InBatch
                  /\ Goes(b, [b EXCEPT !.now = f, !.sent = "asked", !.todo = @ \ {f}])
                  /\ UNCHANGED <<placed, reads, dialog>>
HandleSend(b) ==
  /\ b.sent = "asked" /\ NoTap /\ InBatch
  /\ \/ /\ \E row \in Effects("send", b.now, b.vals[b.now], b.of) : placed' = [placed EXCEPT ![b.now] = row]
        /\ Goes(b, [b EXCEPT !.sent = "ok"]) /\ Outdate
     \/ /\ Effects("send", b.now, b.vals[b.now], b.of) = {}
        /\ Goes(b, [b EXCEPT !.sent = "refused"]) /\ UNCHANGED <<placed, reads>>
  /\ UNCHANGED dialog

\* Fault: a row is dropped once it was sent, whatever the answer.
EveryRow(b) == [b EXCEPT !.now = Nobody, !.sent = "no", !.ok = @ \cup {b.now}]
BadRow(b) == [b EXCEPT !.now = Nobody, !.sent = "no", !.bad = @ \cup {b.now}]
SendAnswered(b) ==
  /\ b.sent \in {"ok", "refused"} /\ NoTap /\ InBatch
  /\ Goes(b, IF b.sent = "ok" THEN [b EXCEPT !.now = Nobody, !.sent = "no", !.ok = @ \cup {b.now}]
             ELSE BadRow(b))
  /\ UNCHANGED <<placed, reads, dialog>>

\* Nothing is loaded when no row was answered as sent.
SendLost(b) == /\ b.sent # "no" /\ Drop /\ Goes(b, BadRow(b))
               /\ behind' = (behind \/ b.sent = "ok")
               /\ UNCHANGED <<Stored, board, chip, dialog, inFlight, actions, reads, undos>>

FinishBatch(b) ==
  /\ b.stage = "send" /\ b.todo = {} /\ b.now = Nobody /\ NoTap /\ InBatch
  /\ OnSheet(b, [dialog EXCEPT !.done = @ \cup b.ok, !.errs = b.bad, !.busy = FALSE])
  /\ IF b.ok = {} THEN batches' = batches \ {b} /\ UNCHANGED reads
     ELSE /\ Goes(b, [b EXCEPT !.stage = "load"])
          /\ reads' = reads \cup {BoardLoad(b.n, Nobody)}
  /\ UNCHANGED placed

-----------------------------------------------------------------------------
(***************************************************************************)
(* Loads, those of useLiveRefetch among them.                              *)
(***************************************************************************)
LiveRefetch == /\ board # placed \/ chip
               /\ \A r \in reads : r.n # 0
               /\ reads' = reads \cup {BoardLoad(0, Nobody)} /\ NoTap
               /\ UNCHANGED <<Stored, Shown, dialog, inFlight, actions, batches, undos>>
ReadFiles(r) == /\ r.stage = "asked" /\ NoTap
                /\ reads' = (reads \ {r}) \cup {[r EXCEPT !.stage = "read", !.rows = placed]}
                /\ UNCHANGED <<Stored, Shown, dialog, inFlight, actions, batches, undos>>

\* The load is over: buttons are enabled, and a sheet without a failed row is
\* closed, whichever sheet is open by now.
Loaded(r) ==
  LET over == {b \in batches : b.stage = "load" /\ b.n = r.n}
  IN  /\ reads' = reads \ {r}
      /\ inFlight' = inFlight \ {r.clears}
      /\ batches' = batches \ over
      /\ dialog' = IF dialog.kind = "sheet" /\ \E b \in over : b.bad = {} THEN NoDialog ELSE dialog
      /\ UNCHANGED <<Stored, actions, undos>>
ShowBoard(r) == /\ r.stage = "read" /\ NoTap
                /\ board' = r.rows /\ behind' = r.behind /\ chip' = FALSE
                /\ Loaded(r)
LoadBoardFails(r) == Drop /\ chip' = TRUE /\ Loaded(r) /\ UNCHANGED <<board, behind>>

DeskNext ==
  \/ \E f \in File, s \in Steps : Press(f, s) \/ OpenDialog(f, s) \/ Submit(f, s) \/ Other(f, s)
  \/ \E f \in File : Undo(f) \/ ToastGone(f) \/ \E no \in Number : TypeNo(f, no)
  \/ \E no \in Number : OtherNo(no)
  \/ OpenSheet \/ CloseDialog \/ SubmitSheet \/ LiveRefetch
  \/ \E a \in actions : HandleAction(a) \/ Answer(a) \/ Refused(a) \/ Lost(a)
  \/ \E b \in batches : \/ Check(b) \/ CheckFails(b) \/ \E f \in File : SendNext(b, f)
                        \/ HandleSend(b) \/ SendAnswered(b) \/ SendLost(b) \/ FinishBatch(b)
  \/ \E r \in reads : ReadFiles(r) \/ ShowBoard(r) \/ LoadBoardFails(r)

DeskSpec == DeskInit /\ [][DeskNext]_deskVars
-----------------------------------------------------------------------------
\* "A double-click can't double-pick or mint two codes": of the buttons that post at
\* once, a card has one POST under way, until the board is loaded after it.
OneAtATime ==
  \A f \in File :
    Cardinality({a \in actions : a.card = f /\ a.by \in {"button", "undoable"}})
      + Cardinality({r \in reads : r.clears = f}) <= 1

\* When all is answered, the board shows the files as they are, or "reconnecting",
\* unless others changed them since, or an answer was lost or a load overtaken that
\* nothing follows.
BoardTold ==
  actions = {} /\ batches = {} /\ reads = {} => board = placed \/ chip \/ behind

\* A row leaves the sheet when its own number is on its ticket, and stays when it is
\* not, unless an answer was lost.  A number that an earlier dialog of the ticket, closed
\* before its answer, has put there is not the sheet's.
SheetTold ==
  dialog.kind = "sheet" /\ ~dialog.busy =>
    /\ \A f \in dialog.done : placed[f].no = dialog.vals[f]
    /\ \A f \in Filled : placed[f].no = dialog.vals[f] /\ placed[f].of = dialog.n => drops > 0

DeskSound == OneAtATime /\ BoardTold /\ SheetTold
=============================================================================
