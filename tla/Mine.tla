-------------------------------- MODULE Mine --------------------------------
(***************************************************************************)
(* An applicant's own tickets: the list with one row expanded, and the     *)
(* detail of one ticket, over the list (modal) or instead of it (route).   *)
(* Both offer the return panel, the detail also the edit form of a ticket  *)
(* in the Pool.  Every answer may be late, while the desks move tickets,   *)
(* the applicant goes elsewhere, and live refetches go on.                 *)
(***************************************************************************)
EXTENDS Naturals, FiniteSets

CONSTANTS Own,       \* the applicant's tickets
          Fixing,    \* those that begin with the applicant, the others in the Pool
          MaxEdits,  \* bound: changes typed into forms
          MaxMisses, \* bound: moves of the desks, and calls or answers that are lost
          MaxSteps,  \* bound: rows toggled, details opened and closed, edits begun
          MaxLoads   \* bound: loads of details on their way, and calls

ASSUME MineAssumption == /\ Fixing \subseteq Own /\ "none" \notin Own
                         /\ {MaxEdits, MaxMisses, MaxSteps, MaxLoads} \subseteq Nat

VARIABLES stored,  \* the tickets in the database: status and fields
          kept,    \* kept[t]: the fields t ever had
          listed,  \* listed[t]: the status the list shows
          at,      \* "list", "modal" or "route"
          view,    \* view["row"] and view["page"]: see Shut
          loads,   \* details on their way
          sends,   \* calls of the forms under way
          edits, misses, steps

mineVars == <<stored, kept, listed, at, view, loads, sends, edits, misses, steps>>
Database == <<stored, kept>>
Rest == <<edits, misses>>
Counts == <<Rest, steps>>
Step == steps < MaxSteps /\ steps' = steps + 1

\* Fields are told apart by the ticket they were written for and by the change.
Words(t, n) == [of |-> t, n |-> n]
RETURN_STATES == {"Returned", "Return-fixing"}
CLOSED == {"Cancelled"}

\* The list's groups; a row that changes its group is mounted anew.
GroupOf(status) == CASE status \in RETURN_STATES -> "returned"
                     [] status \in CLOSED -> "closed"
                     [] OTHER -> "running"

NoDetail == [id |-> "none", status |-> "none", text |-> Words("none", 0)]
NoForm == [kind |-> "none", text |-> Words("none", 0), typed |-> FALSE, busy |-> FALSE]

\* of: the row or ticket; shown: the detail last set; failed: the error screen.
Shut == [of |-> "none", shown |-> NoDetail, failed |-> FALSE, editing |-> FALSE, form |-> NoForm]

\* What GET /ticket/:id answers its applicant.
DetailOf(t) == [id |-> t, status |-> stored[t].status, text |-> stored[t].text]

-----------------------------------------------------------------------------
\* The panel a view renders: a row only the detail of its own ticket, a page
\* nothing under its error screen.
RowPanel(v) == IF v.shown.id = v.of /\ v.shown.status \in RETURN_STATES THEN "return" ELSE "none"
PagePanel(v) ==
  IF v.failed \/ v.shown = NoDetail THEN "none"
  ELSE CASE v.shown.status \in RETURN_STATES -> "return"
         [] v.shown.status = "Submitted" /\ v.editing -> "edit"
         [] OTHER -> "none"
PanelOf(p, v) == IF p = "row" THEN RowPanel(v) ELSE PagePanel(v)

\* toBody, once, when the form is mounted.
Mounted(kind, v) == IF kind = "none" THEN NoForm
                    ELSE [kind |-> kind, text |-> v.shown.text, typed |-> FALSE, busy |-> FALSE]

\* The view as rendered, keeping the form that stays; a call outlives its form.
Stays(p, v) == PanelOf(p, v) = v.form.kind
Rendered(p, v) == IF Stays(p, v) THEN v ELSE [v EXCEPT !.form = Mounted(PanelOf(p, v), v)]
Outlived(p, v, pending) ==
  IF Stays(p, v) THEN pending
  ELSE {[s EXCEPT !.home = IF s.p = p /\ @ = "form" THEN "view" ELSE @] : s \in pending}
Put(p, v, pending) == /\ view' = [view EXCEPT ![p] = Rendered(p, v)]
                      /\ sends' = Outlived(p, v, pending)

\* Asked for and read; the answer may take any time.  over: over an open edit.
Asked(p, t, why) == [p |-> p, why |-> why, what |-> DetailOf(t),
                     over |-> view[p].form.kind = "edit" /\ why # "done"]
Ask(p, t, why) == /\ Cardinality(loads) < MaxLoads
                  /\ loads' = loads \cup {Asked(p, t, why)}

\* load() of the list, which answers at once; an expanded row that changes its
\* group loses its form.
LoadList == listed' = [t \in Own |-> stored[t].status]
Regrouped(row) == IF row.of # "none" /\ GroupOf(listed[row.of]) # GroupOf(stored[row.of].status)
                  THEN [row EXCEPT !.form = NoForm] ELSE row

MineInit ==
  /\ stored = [t \in Own |-> [status |-> IF t \in Fixing THEN "Return-fixing" ELSE "Submitted",
                             text |-> Words(t, 0)]]
  /\ kept = [t \in Own |-> {Words(t, 0)}]
  /\ listed = [t \in Own |-> stored[t].status]
  /\ at = "list"
  /\ view = [p \in {"row", "page"} |-> Shut]
  /\ loads = {} /\ sends = {}
  /\ edits = 0 /\ misses = 0 /\ steps = 0

-----------------------------------------------------------------------------
\* A desk takes a ticket in, or sends it back: from the Pool, or from later on.
DeskMoves(t, from, to) == /\ misses < MaxMisses /\ misses' = misses + 1
                          /\ stored[t].status \in from
                          /\ stored' = [stored EXCEPT ![t].status = to]
                          /\ UNCHANGED <<kept, listed, at, view, loads, sends, edits, steps>>

-----------------------------------------------------------------------------
(***************************************************************************)
(* MyTickets                                                               *)
(***************************************************************************)
toggle(t) ==
  /\ at = "list" /\ Step
  /\ IF view["row"].of = t
       THEN /\ Put("row", [view["row"] EXCEPT !.of = "none", !.shown = NoDetail], sends)
            /\ UNCHANGED loads
       ELSE /\ Put("row", [view["row"] EXCEPT !.of = t], sends)
            /\ Ask("row", t, "toggle")
  /\ UNCHANGED <<Database, listed, at, Rest>>

\* The live refetch: the list, then the detail of the row that is open.
refetch == /\ at # "route"
           /\ LoadList
           /\ Put("row", Regrouped(view["row"]), sends)
           /\ IF view["row"].of # "none" THEN Ask("row", view["row"].of, "refetch")
              ELSE UNCHANGED loads
           /\ UNCHANGED <<Database, at, Counts>>

cancelTicket(t) ==
  /\ at = "list" /\ listed[t] = "Submitted" /\ Cardinality(sends) < MaxLoads
  /\ sends' = sends \cup {[p |-> "row", id |-> t, kind |-> "cancel", text |-> Words(t, 0),
                           home |-> "view", stage |-> "asked"]}
  /\ UNCHANGED <<Database, listed, at, view, loads, Counts>>

-----------------------------------------------------------------------------
(***************************************************************************)
(* TicketDetail, as a modal over the list or as a page of its own          *)
(***************************************************************************)
\* Fault: the page is not keyed by its ticket, and keeps its state.
Unkeyed(t) == [view["page"] EXCEPT !.of = t]

\* A page is mounted for one ticket: its state begins empty.
Fresh(t) == [Shut EXCEPT !.of = t]

Leave(p, pending) == {[s EXCEPT !.home = IF s.p = p THEN "gone" ELSE @] : s \in pending}
Others(p) == {a \in loads : a.p # p}

OpenModal(t) ==
  /\ at = "list" /\ at' = "modal" /\ Step
  /\ Put("page", Fresh(t), sends)
  /\ Ask("page", t, "load")
  /\ UNCHANGED <<Database, listed, Rest>>

\* The list is unmounted; another detail may be shown already, whose edit is over.
OpenRoute(t) ==
  /\ at \in {"list", "route"} /\ t # view["page"].of /\ at' = "route" /\ Step
  /\ view' = [row |-> Shut, page |-> Fresh(t)]
  /\ sends' = Leave("page", Leave("row", sends))
  /\ loads' = {[Asked("page", t, "load") EXCEPT !.over = FALSE]}
  /\ UNCHANGED <<Database, listed, Rest>>

\* Back to the list, which loads.
ClosePage == /\ at # "list" /\ at' = "list" /\ Step
             /\ LoadList
             /\ view' = [row |-> Rendered("row", Regrouped(view["row"])), page |-> Shut]
             /\ sends' = Outlived("row", Regrouped(view["row"]), Leave("page", sends))
             /\ loads' = Others("page")
             /\ UNCHANGED <<Database, Rest>>

\* Fault: a live refetch goes on under an edit.
RefetchAlways == /\ at # "list" /\ Ask("page", view["page"].of, "load")
                 /\ Put("page", [view["page"] EXCEPT !.failed = FALSE], sends)
                 /\ UNCHANGED <<Database, listed, at, Counts>>

\* load() on a signal unless the edit form is open, or on "retry".
RefetchPage == /\ at # "list" /\ (view["page"].editing => view["page"].failed)
               /\ Ask("page", view["page"].of, "load")
               /\ Put("page", [view["page"] EXCEPT !.failed = FALSE], sends)
               /\ UNCHANGED <<Database, listed, at, Counts>>

setEditing(b) ==
  LET page == view["page"] IN
  /\ at # "list" /\ page.editing # b /\ ~page.failed /\ Step
  /\ page.shown.status = "Submitted" /\ ~page.form.busy
  /\ Put("page", [page EXCEPT !.editing = b], sends)
  /\ UNCHANGED <<Database, listed, at, loads, Rest>>

-----------------------------------------------------------------------------
\* The answer replaces the detail, whichever row is open by then.
ShowDetail(a) == /\ Put(a.p, [view[a.p] EXCEPT !.shown = a.what], sends)
                 /\ loads' = loads \ {a}
                 /\ UNCHANGED <<Database, listed, at, Counts>>

\* A toggle that fails closes the row that is open by then; a page that fails to
\* load shows its error screen; other answers are not missed.
DetailFails(a) ==
  /\ misses < MaxMisses /\ misses' = misses + 1
  /\ loads' = loads \ {a}
  /\ Put(a.p, [view[a.p] EXCEPT !.of = IF a.why = "toggle" THEN "none" ELSE @,
                                !.failed = @ \/ a.p = "page"], sends)
  /\ UNCHANGED <<Database, listed, at, edits, steps>>

-----------------------------------------------------------------------------
(***************************************************************************)
(* ReturnPanel and SubmittedEditForm                                       *)
(***************************************************************************)
InUse(p) == view[p].form.kind # "none" /\ (p = "row" => at = "list")

\* The fields are not disabled while a call is under way.
Type(p) == /\ InUse(p) /\ edits < MaxEdits /\ edits' = edits + 1
           /\ view[p].form.kind = "return" => view[p].shown.status = "Return-fixing"
           /\ view' = [view EXCEPT ![p].form.text.n = edits + 1, ![p].form.typed = TRUE]
           /\ UNCHANGED <<Database, listed, at, loads, sends, misses, steps>>

Submits(p, kind) ==
  /\ InUse(p) /\ ~view[p].form.busy /\ Cardinality(sends) < MaxLoads
  /\ view' = [view EXCEPT ![p].form.busy = TRUE]
  /\ sends' = sends \cup {[p |-> p, id |-> view[p].shown.id, kind |-> kind,
                           text |-> view[p].form.text, home |-> "form", stage |-> "asked"]}
  /\ UNCHANGED <<Database, listed, at, loads, Counts>>

confirm(p) == view[p].shown.status = "Returned" /\ Submits(p, "receipt")
saveAndResubmit(p) == /\ view[p].form.kind = "return" /\ view[p].shown.status = "Return-fixing"
                      /\ Submits(p, "save")
save == view["page"].form.kind = "edit" /\ Submits("page", "edit")

\* The status each call needs.
Accepts(kind) == CASE kind = "cancel" -> {"Submitted"}
                  [] kind = "receipt" -> {"Returned"}
                  [] kind = "resubmit" -> {"Return-fixing"}
                  [] OTHER -> {"Submitted", "Return-fixing"}

Effect(s, row) == CASE s.kind = "cancel" -> [row EXCEPT !.status = "Cancelled"]
                    [] s.kind = "receipt" -> [row EXCEPT !.status = "Return-fixing"]
                    [] s.kind = "resubmit" -> [row EXCEPT !.status = "Submitted"]
                    [] OTHER -> [row EXCEPT !.text = s.text]

Stage(s, stage) == sends' = (sends \ {s}) \cup {[s EXCEPT !.stage = stage]}

\* The server carries the call out, or refuses it ...
Handle(s) ==
  /\ s.stage = "asked"
  /\ IF stored[s.id].status \in Accepts(s.kind)
       THEN /\ stored' = [stored EXCEPT ![s.id] = Effect(s, @)]
            /\ kept' = [kept EXCEPT ![s.id] = @ \cup {stored'[s.id].text}]
            /\ Stage(s, "ok")
       ELSE Stage(s, "refused") /\ UNCHANGED Database
  /\ UNCHANGED <<listed, at, view, loads, Counts>>

\* ... or the call, or its answer, is lost.
Miss(s) == /\ misses < MaxMisses /\ misses' = misses + 1
           /\ s.stage # "lost"
           /\ Stage(s, "lost")
           /\ UNCHANGED <<Database, listed, at, view, loads, edits, steps>>

\* onDone: the row's detail and the list, or the page, load again; the edit form
\* closes.  What is unmounted by then is not told.
OnDone(s, pending) ==
  \/ s.home = "gone" /\ sends' = pending /\ UNCHANGED <<view, loads, listed>>
  \/ /\ s.home # "gone" /\ s.p = "row"
     /\ Put("row", Regrouped([view["row"] EXCEPT !.form.busy = @ /\ s.home # "form"]), pending)
     /\ Ask("row", s.id, "done") /\ LoadList
  \/ /\ s.home # "gone" /\ s.p = "page"
     /\ Put("page", [view["page"] EXCEPT !.failed = FALSE, !.editing = @ /\ s.kind # "edit",
                                         !.form.busy = @ /\ s.home # "form"], pending)
     /\ Ask("page", s.id, "done") /\ UNCHANGED listed

\* The form is told of an error, and offers its button again.
Told(s) == /\ sends' = sends \ {s}
           /\ view' = IF s.home = "form" THEN [view EXCEPT ![s.p].form.busy = FALSE] ELSE view
           /\ UNCHANGED <<loads, listed>>

\* Fault: the resubmission does not wait for what became of the save.
ResubmitAnyway(s) == /\ sends' = (sends \ {s}) \cup {[s EXCEPT !.kind = "resubmit", !.stage = "asked"]}
                     /\ UNCHANGED <<view, loads, listed>>

\* The first of the two calls: only a save that was confirmed is followed by the
\* resubmission, mounted or not.
AfterSave(s) == IF s.stage = "ok" THEN ResubmitAnyway(s) ELSE Told(s)

\* The form goes on when the answer comes.
Settle(s) ==
  /\ s.stage # "asked"
  /\ IF s.kind = "save" THEN AfterSave(s)
     ELSE IF s.kind = "cancel" /\ s.stage = "ok" /\ s.home # "gone"
       THEN Put("row", Regrouped(view["row"]), sends \ {s}) /\ LoadList /\ UNCHANGED loads
     ELSE IF s.kind = "resubmit" \/ s.stage = "ok" \/ (s.kind = "edit" /\ s.stage = "refused")
       THEN OnDone(s, sends \ {s})
     ELSE Told(s)
  /\ UNCHANGED <<Database, at, Counts>>

MineNext ==
  \/ \E t \in Own : \/ DeskMoves(t, {"Submitted"}, "Submitted to VP Andy")
                    \/ DeskMoves(t, {"Submitted", "Submitted to VP Andy"}, "Returned")
                    \/ toggle(t) \/ cancelTicket(t) \/ OpenModal(t) \/ OpenRoute(t)
  \/ refetch \/ RefetchPage \/ ClosePage
  \/ \E a \in loads : ShowDetail(a) \/ DetailFails(a)
  \/ \E b \in BOOLEAN : setEditing(b)
  \/ \E p \in {"row", "page"} : Type(p) \/ confirm(p) \/ saveAndResubmit(p)
  \/ save
  \/ \E s \in sends : Handle(s) \/ Miss(s) \/ Settle(s)

MineSpec == MineInit /\ [][MineNext]_mineVars
-----------------------------------------------------------------------------
\* What was typed for one ticket never gets into another, wherever the applicant
\* went meanwhile ("key by id so navigating ticket A->B remounts fresh").
EditsGoHome == \A t \in Own : stored[t].text.of = t

\* A ticket is resubmitted with the fields of its form: they were stored before.
ResubmitsSaved == \A s \in sends : s.kind = "resubmit" => s.text \in kept[s.id]

EditsSound == EditsGoHome /\ ResubmitsSaved

\* The form of a view is still filled in, unless the view goes or there is a reason.
FormStands(p) ==
  LET v == view[p] IN
  v.form.typed /\ v.of = view'[p].of /\ ~view'[p].form.typed =>
    \/ listed' # listed
    \/ \E a \in loads \ loads' :
         \/ v.form.kind = "edit" /\ ~a.over
         \/ v.form.kind = "return" /\ (a.what.id # v.of \/ a.what.status \notin RETURN_STATES
                                     \/ view'[p].failed)
    \/ v.form.kind = "edit" /\ v.editing /\ ~view'[p].editing

\* What is typed does not vanish under the applicant's hands ("Don't let a live
\* refetch yank the form"): a form of an unchanged view is only taken away by an
\* answer if that one was asked for before the edit began, or is for another row,
\* moves the row to another group, or tells that the return is over; or if a
\* refetch of a page with a return panel fails.
FormsSurvive == [][\A p \in {"row", "page"} : FormStands(p)]_mineVars
=============================================================================
