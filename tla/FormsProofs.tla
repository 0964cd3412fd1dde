---------------------------- MODULE FormsProofs -----------------------------
(***************************************************************************)
(* What an applicant types: the page of their own tickets, and the create  *)
(* form, for any tickets and any bounds; and what an administrator types   *)
(* in the configuration pages, for any stations, accounts and names.       *)
(***************************************************************************)
EXTENDS Mine, Draft, Settings, FiniteSetTheorems, SequenceTheorems, TLAPS

-----------------------------------------------------------------------------
(***************************************************************************)
(* An applicant's own tickets.                                             *)
(***************************************************************************)
Views == {"row", "page"}
MineStatus == {"Submitted", "Submitted to VP Andy", "Returned", "Return-fixing", "Cancelled"}
Word == [of : Own, n : Nat]
Detail == [id : Own, status : MineStatus, text : Word]
MineForm == [kind : {"none", "return", "edit"}, text : [of : Own \cup {"none"}, n : Nat],
             typed : BOOLEAN, busy : BOOLEAN]
MineView == [of : Own \cup {"none"}, shown : Detail \cup {NoDetail}, failed : BOOLEAN,
             editing : BOOLEAN, form : MineForm]
MineLoad == [p : Views, why : {"toggle", "refetch", "load", "done"}, what : Detail, over : BOOLEAN]
MineSend == [p : Views, id : Own, kind : {"cancel", "receipt", "save", "edit", "resubmit"},
             text : Word, home : {"form", "view", "gone"}, stage : {"asked", "ok", "refused", "lost"}]

MineTypes ==
  /\ stored \in [Own -> [status : MineStatus, text : Word]]
  /\ kept \in [Own -> SUBSET Word]
  /\ listed \in [Own -> MineStatus]
  /\ at \in {"list", "modal", "route"}
  /\ view \in [Views -> MineView]
  /\ loads \subseteq MineLoad /\ sends \subseteq MineSend
  /\ edits \in Nat

\* A view has the form of its panel, and the form is for the ticket of the view.
ViewOK(p, v) ==
  /\ v.form.kind = PanelOf(p, v)
  /\ v.shown # NoDetail => v.shown.text.of = v.shown.id
  /\ v.form.kind # "none" => v.shown # NoDetail /\ v.shown.id = v.of /\ v.form.text.of = v.of
  /\ v.form.typed => v.form.kind # "none"

\* The page is there or not, and is of one ticket.
PageOK == /\ at = "list" => view["page"] = Shut
          /\ at # "list" => view["page"].of \in Own
          /\ view["page"].shown # NoDetail => view["page"].shown.id = view["page"].of

\* A load is not asked for over an open edit; a page, its loads and its calls are
\* of one ticket.
LoadOK(a) == /\ a.what.text.of = a.what.id /\ ~a.over
             /\ a.why = "toggle" => a.p = "row"
             /\ a.p = "page" => at # "list" /\ a.what.id = view["page"].of

\* A call carries the words of its ticket, and what is to be resubmitted was saved.
SendOK(s) ==
  /\ s.text.of = s.id
  /\ s.p = "page" /\ s.home # "gone" => at # "list" /\ s.id = view["page"].of
  /\ s.kind = "resubmit" \/ (s.kind = "save" /\ s.stage = "ok") => s.text \in kept[s.id]

MineInv == /\ MineTypes /\ EditsGoHome /\ PageOK
           /\ \A p \in Views : ViewOK(p, view[p])
           /\ \A a \in loads : LoadOK(a)
           /\ \A s \in sends : SendOK(s)

-----------------------------------------------------------------------------
\* A panel is a matter of what is shown, not of the form.
LEMMA PanelFacts ==
  ASSUME NEW p \in Views, NEW v \in MineView, NEW f
  PROVE  /\ PanelOf(p, v) \in {"none", "return", "edit"}
         /\ PanelOf(p, [v EXCEPT !.form = f]) = PanelOf(p, v)
         /\ PanelOf(p, v) # "none" => v.shown # NoDetail
         /\ p = "row" => PanelOf(p, v) # "edit"
         /\ p = "row" /\ PanelOf(p, v) # "none" => v.shown.id = v.of
         /\ PanelOf(p, v) = "return" => v.shown.status \in RETURN_STATES
         /\ PanelOf(p, v) = "edit" => v.shown.status = "Submitted" /\ v.editing /\ ~v.failed
         /\ p = "page" /\ PanelOf(p, v) # "none" => ~v.failed
<1> DEFINE w == [v EXCEPT !.form = f]
<1>1. w.of = v.of /\ w.shown = v.shown /\ w.failed = v.failed /\ w.editing = v.editing
  BY DEF MineView
<1>2. NoDetail.status = "none"
  BY DEF NoDetail
<1> HIDE DEF w
<1>3. PanelOf(p, w) = PanelOf(p, v)
  BY <1>1 DEF PanelOf, RowPanel, PagePanel
<1>4. v.failed \in BOOLEAN /\ v.editing \in BOOLEAN
  BY DEF MineView
<1>5. p = "row" => PanelOf(p, v) = RowPanel(v)
  BY DEF PanelOf
<1>6. p = "page" => PanelOf(p, v) = PagePanel(v)
  BY DEF PanelOf
<1>7. /\ RowPanel(v) \in {"none", "return"}
      /\ RowPanel(v) # "none" => v.shown # NoDetail /\ v.shown.id = v.of /\ v.shown.status \in RETURN_STATES
  BY <1>2 DEF RowPanel, RETURN_STATES
<1>8. /\ PagePanel(v) \in {"none", "return", "edit"}
      /\ PagePanel(v) # "none" => v.shown # NoDetail /\ ~v.failed
      /\ PagePanel(v) = "return" => v.shown.status \in RETURN_STATES
      /\ PagePanel(v) = "edit" => v.shown.status = "Submitted" /\ v.editing
  BY <1>4 DEF PagePanel, RETURN_STATES
<1> QED BY <1>3, <1>5, <1>6, <1>7, <1>8 DEF w, Views

\* What is rendered is a view in order, if what it is rendered from is.
LEMMA RenderOK ==
  ASSUME NEW p \in Views, NEW v \in MineView,
         v.shown # NoDetail => v.shown.text.of = v.shown.id,
         p = "page" /\ v.shown # NoDetail => v.shown.id = v.of,
         Stays(p, v) /\ v.form.kind # "none" => v.form.text.of = v.of,
         v.form.typed => v.form.kind # "none"
  PROVE  LET w == Rendered(p, v)
         IN  /\ w \in MineView /\ ViewOK(p, w)
             /\ w.of = v.of /\ w.shown = v.shown /\ w.failed = v.failed /\ w.editing = v.editing
             /\ Stays(p, v) => w = v
<1> DEFINE k == PanelOf(p, v)
           f == Mounted(k, v)
           w == Rendered(p, v)
<1>1. /\ k \in {"none", "return", "edit"}
      /\ k # "none" => v.shown # NoDetail
      /\ p = "row" /\ k # "none" => v.shown.id = v.of
  BY PanelFacts
<1>2. v.shown \in Detail \cup {NoDetail} /\ v.of \in Own \cup {"none"} /\ v.form \in MineForm
  BY DEF MineView
<1>3. k # "none" => v.shown \in Detail /\ v.shown.id = v.of /\ v.shown.text.of = v.of
  BY <1>1, <1>2 DEF Views
<1>4. CASE Stays(p, v)
  <2>1. w = v
    BY <1>4 DEF Rendered
  <2>2. v.form.kind = k
    BY <1>4 DEF Stays
  <2> QED BY <2>1, <2>2, <1>3, <1>4, <1>1 DEF ViewOK
<1>5. CASE ~Stays(p, v)
  <2>1. w = [v EXCEPT !.form = f]
    BY <1>5 DEF Rendered
  <2>2. f \in MineForm /\ f.kind = k /\ f.typed = FALSE /\ (k # "none" => f.text = v.shown.text)
    <3>1. CASE k = "none"
      BY <3>1 DEF Mounted, NoForm, Words, MineForm
    <3>2. CASE k # "none"
      BY <3>2, <1>1, <1>3 DEF Mounted, MineForm, Detail, Word
    <3> QED BY <3>1, <3>2
  <2> HIDE DEF f
  <2>3. /\ w \in MineView /\ w.of = v.of /\ w.shown = v.shown /\ w.failed = v.failed
        /\ w.editing = v.editing /\ w.form = f
    BY <2>1, <2>2 DEF MineView
  <2>4. PanelOf(p, w) = k
    BY <2>1, PanelFacts
  <2>5. ViewOK(p, w)
    <3> HIDE DEF w, k
    <3>1. w.form.kind = PanelOf(p, w)
      BY <2>2, <2>3, <2>4
    <3>2. w.form.kind # "none" => w.shown # NoDetail /\ w.shown.id = w.of /\ w.form.text.of = w.of
      BY <2>2, <2>3, <1>1, <1>3 DEF k
    <3>3. ~w.form.typed
      BY <2>2, <2>3
    <3> QED BY <3>1, <3>2, <3>3, <2>3 DEF ViewOK
  <2> QED BY <1>5, <2>3, <2>5
<1> QED BY <1>4, <1>5

\* A call that outlives its form, or its view, is the same call.
Like(s, r) == /\ s.p = r.p /\ s.id = r.id /\ s.kind = r.kind /\ s.text = r.text /\ s.stage = r.stage
              /\ s.home # "gone" => r.home # "gone"

\* Calls that outlive their form are the calls they were but for their home.
LEMMA OutlivedLike ==
  ASSUME NEW p \in Views, NEW v, NEW pending \in SUBSET MineSend
  PROVE  /\ Outlived(p, v, pending) \subseteq MineSend
         /\ \A s \in Outlived(p, v, pending) : \E r \in pending : Like(s, r)
<1>1. CASE Stays(p, v)
  BY <1>1 DEF Outlived, Like
<1>2. CASE ~Stays(p, v)
  <2>1. ASSUME NEW r \in pending
        PROVE  LET s == [r EXCEPT !.home = IF r.p = p /\ @ = "form" THEN "view" ELSE @]
               IN  s \in MineSend /\ Like(s, r)
    <3> DEFINE h == IF r.p = p /\ r.home = "form" THEN "view" ELSE r.home
               s == [r EXCEPT !.home = h]
    <3>1. h \in {"form", "view", "gone"} /\ (h # "gone" => r.home # "gone")
      BY DEF MineSend
    <3> HIDE DEF h
    <3>2. s \in MineSend /\ Like(s, r)
      BY <3>1 DEF MineSend, Like
    <3> QED BY <3>2 DEF h
  <2>2. Outlived(p, v, pending) =
          {[r EXCEPT !.home = IF r.p = p /\ @ = "form" THEN "view" ELSE @] : r \in pending}
    BY <1>2 DEF Outlived
  <2> QED BY <2>1, <2>2
<1> QED BY <1>1, <1>2

\* ... and so are those that outlive their view.
LEMMA LeaveLike ==
  ASSUME NEW p \in Views, NEW pending \in SUBSET MineSend
  PROVE  /\ Leave(p, pending) \subseteq MineSend
         /\ \A s \in Leave(p, pending) : (s.p = p => s.home = "gone") /\ \E r \in pending : Like(s, r)
<1>1. ASSUME NEW r \in pending
      PROVE  LET s == [r EXCEPT !.home = IF r.p = p THEN "gone" ELSE @]
             IN  s \in MineSend /\ Like(s, r) /\ (s.p = p => s.home = "gone")
  <2> DEFINE h == IF r.p = p THEN "gone" ELSE r.home
             s == [r EXCEPT !.home = h]
  <2>1. h \in {"form", "view", "gone"} /\ (h # "gone" => r.home # "gone") /\ (r.p = p => h = "gone")
    BY DEF MineSend
  <2> HIDE DEF h
  <2>2. s \in MineSend /\ Like(s, r) /\ (s.p = p => s.home = "gone")
    BY <2>1 DEF MineSend, Like
  <2> QED BY <2>2 DEF h
<1> QED BY <1>1 DEF Leave

\* What is asked for is the ticket as it is stored.
LEMMA AskedFacts ==
  ASSUME MineTypes, EditsGoHome, NEW p \in Views, NEW t \in Own,
         NEW why \in {"toggle", "refetch", "load", "done"},
         why = "done" \/ view[p].form.kind # "edit"
  PROVE  LET a == Asked(p, t, why)
         IN  /\ a \in MineLoad /\ a.p = p /\ a.why = why /\ a.what.id = t
             /\ a.what.text.of = t /\ ~a.over
<1>1. DetailOf(t) \in Detail /\ DetailOf(t).id = t /\ DetailOf(t).text.of = t
  BY DEF DetailOf, Detail, MineTypes, EditsGoHome
<1>2. (view[p].form.kind = "edit" /\ why # "done") = FALSE
  OBVIOUS
<1> QED BY <1>1, <1>2 DEF Asked, MineLoad

-----------------------------------------------------------------------------
\* What one view is given, and what becomes of the calls under it.
LEMMA PutStep ==
  ASSUME MineInv, NEW p \in Views, NEW v \in MineView, NEW pending \in SUBSET MineSend,
         \A s \in pending : SendOK(s),
         v.shown # NoDetail => v.shown.text.of = v.shown.id,
         p = "page" => at # "list" /\ v.of = view["page"].of,
         p = "page" /\ v.shown # NoDetail => v.shown.id = v.of,
         Stays(p, v) /\ v.form.kind # "none" => v.form.text.of = v.of,
         v.form.typed => v.form.kind # "none",
         Put(p, v, pending), at' = at, kept' = kept
  PROVE  /\ view' \in [Views -> MineView] /\ \A q \in Views : ViewOK(q, view'[q])
         /\ PageOK' /\ view'["page"].of = view["page"].of
         /\ sends' \subseteq MineSend /\ \A s \in sends' : SendOK(s)'
<1> DEFINE w == Rendered(p, v)
<1>1. /\ w \in MineView /\ ViewOK(p, w)
      /\ w.of = v.of /\ w.shown = v.shown
  BY RenderOK
<1> HIDE DEF w
<1>2. view' = [view EXCEPT ![p] = w] /\ sends' = Outlived(p, v, pending)
  BY DEF Put, w
<1>3. view \in [Views -> MineView] /\ \A q \in Views : ViewOK(q, view[q])
  BY DEF MineInv, MineTypes
<1>4. view' \in [Views -> MineView] /\ view'[p] = w /\ \A q \in Views \ {p} : view'[q] = view[q]
  BY <1>1, <1>2, <1>3
<1>5. \A q \in Views : ViewOK(q, view'[q])
  BY <1>1, <1>3, <1>4
<1>6. PageOK
  BY DEF MineInv
<1>7. view'["page"].of = view["page"].of
  BY <1>1, <1>4 DEF Views
<1>8. PageOK'
  <2>1. CASE p = "page"
    BY <2>1, <1>1, <1>4, <1>6 DEF PageOK, Views
  <2>2. CASE p # "page"
    <3>1. view'["page"] = view["page"]
      BY <2>2, <1>4 DEF Views
    <3> QED BY <3>1, <1>6 DEF PageOK
  <2> QED BY <2>1, <2>2
<1>9. sends' \subseteq MineSend /\ \A s \in sends' : \E r \in pending : Like(s, r)
  BY <1>2, OutlivedLike
<1>10. ASSUME NEW s \in sends' PROVE SendOK(s)'
  <2>1. PICK r \in pending : Like(s, r)
    BY <1>9
  <2>2. SendOK(r)
    OBVIOUS
  <2> QED BY <2>1, <2>2, <1>7 DEF SendOK, Like
<1> QED BY <1>4, <1>5, <1>7, <1>8, <1>9, <1>10

\* The loads on their way, and one more.
LEMMA LoadsStay ==
  ASSUME MineInv, at' = at, view'["page"].of = view["page"].of
  PROVE  \A a \in loads : LoadOK(a)'
BY DEF MineInv, LoadOK

\* A detail that is asked for is in order.
LEMMA AskStep ==
  ASSUME MineInv, at' = at, view'["page"].of = view["page"].of,
         NEW p \in Views, NEW t \in Own, NEW why \in {"toggle", "refetch", "load", "done"},
         why = "done" \/ view[p].form.kind # "edit",
         why = "toggle" => p = "row", p = "page" => at # "list" /\ t = view["page"].of,
         Ask(p, t, why)
  PROVE  loads' \subseteq MineLoad /\ \A a \in loads' : LoadOK(a)'
<1>0. PICK a \in {Asked(p, t, why)} : a = Asked(p, t, why)
  OBVIOUS
<1>1. /\ a \in MineLoad /\ a.p = p /\ a.why = why /\ a.what.id = t
      /\ a.what.text.of = t /\ ~a.over
  BY <1>0, AskedFacts DEF MineInv
<1>2. loads' = loads \cup {a}
  BY <1>0 DEF Ask
<1>3. loads \subseteq MineLoad
  BY DEF MineInv, MineTypes
<1>4. LoadOK(a)'
  BY <1>1 DEF LoadOK
<1>5. \A b \in loads : LoadOK(b)'
  BY LoadsStay
<1> QED BY <1>1, <1>2, <1>3, <1>4, <1>5

\* The rest of the invariant, where the database and the place are as they were.
LEMMA RestStep ==
  ASSUME MineInv, UNCHANGED <<stored, kept, at>>, edits' \in Nat, listed' \in [Own -> MineStatus],
         view' \in [Views -> MineView], \A q \in Views : ViewOK(q, view'[q]), PageOK',
         loads' \subseteq MineLoad, \A a \in loads' : LoadOK(a)',
         sends' \subseteq MineSend, \A s \in sends' : SendOK(s)'
  PROVE  MineInv'
<1>1. MineTypes'
  BY DEF MineInv, MineTypes
<1>2. EditsGoHome'
  BY DEF MineInv, EditsGoHome
<1> QED BY <1>1, <1>2 DEF MineInv

\* What is known of a view as it stands.
LEMMA ViewFacts ==
  ASSUME MineInv, NEW p \in Views
  PROVE  /\ view[p] \in MineView /\ Stays(p, view[p])
         /\ view[p].shown # NoDetail => view[p].shown.text.of = view[p].shown.id
         /\ view[p].form.kind # "none" =>
              view[p].of \in Own /\ view[p].shown # NoDetail /\ view[p].shown.id = view[p].of
              /\ view[p].form.text.of = view[p].of
         /\ view[p].form.typed => view[p].form.kind # "none"
         /\ p = "page" /\ view[p].shown # NoDetail => view[p].shown.id = view[p].of
         /\ p = "page" /\ at = "list" => view[p] = Shut
<1>1. view[p] \in MineView /\ ViewOK(p, view[p]) /\ PageOK
  BY DEF MineInv, MineTypes
<1>2. view[p].shown # NoDetail => view[p].shown.id \in Own
  BY <1>1 DEF MineView, Detail
<1> QED BY <1>1, <1>2 DEF ViewOK, Stays, PageOK

\* Loading the list may take the form of the row away.
LEMMA RegroupedFacts ==
  ASSUME NEW row \in MineView
  PROVE  LET v == Regrouped(row)
         IN  /\ v \in MineView /\ v.of = row.of /\ v.shown = row.shown /\ v.failed = row.failed
             /\ v.editing = row.editing
             /\ v = row \/ (v.form = NoForm /\ row.of # "none"
                           /\ GroupOf(listed[row.of]) # GroupOf(stored[row.of].status))
<1> DEFINE w == [row EXCEPT !.form = NoForm]
<1>1. NoForm \in MineForm
  BY DEF NoForm, MineForm, Words
<1>2. /\ w \in MineView /\ w.of = row.of /\ w.shown = row.shown /\ w.failed = row.failed
      /\ w.editing = row.editing /\ w.form = NoForm
  BY <1>1 DEF MineView
<1> HIDE DEF w
<1>3. Regrouped(row) = w \/ Regrouped(row) = row
  BY DEF Regrouped, w
<1>4. Regrouped(row) = row \/ (row.of # "none" /\ GroupOf(listed[row.of]) # GroupOf(stored[row.of].status))
  BY DEF Regrouped
<1> QED BY <1>2, <1>3, <1>4

-----------------------------------------------------------------------------
\* The list is of the tickets there are.
LEMMA ListLoads ==
  ASSUME MineTypes, LoadList PROVE listed' \in [Own -> MineStatus]
<1>1. \A t \in Own : stored[t].status \in MineStatus
  BY DEF MineTypes
<1> QED BY <1>1 DEF LoadList

\* A move by the desks keeps the invariant.
LEMMA DeskMovesStep ==
  ASSUME MineInv, NEW t \in Own, NEW from, NEW to \in MineStatus, DeskMoves(t, from, to)
  PROVE  MineInv'
<1>1. stored \in [Own -> [status : MineStatus, text : Word]]
  BY DEF MineInv, MineTypes
<1> DEFINE row == [stored[t] EXCEPT !.status = to]
<1>2. stored[t] \in [status : MineStatus, text : Word]
  BY <1>1
<1>3. row \in [status : MineStatus, text : Word] /\ row.text = stored[t].text
  BY <1>2
<1>4. stored' = [stored EXCEPT ![t] = row]
  BY DEF DeskMoves
<1> HIDE DEF row
<1>5. stored' \in [Own -> [status : MineStatus, text : Word]] /\ \A u \in Own : stored'[u].text = stored[u].text
  BY <1>1, <1>3, <1>4
<1>6. UNCHANGED <<kept, listed, at, view, loads, sends, edits>>
  BY DEF DeskMoves
<1>7. MineTypes'
  BY <1>5, <1>6 DEF MineInv, MineTypes
<1>8. EditsGoHome'
  BY <1>5 DEF MineInv, EditsGoHome
<1>9. PageOK' /\ \A p \in Views : ViewOK(p, view'[p])
  BY <1>6 DEF MineInv, PageOK
<1>10. (\A a \in loads' : LoadOK(a)') /\ \A s \in sends' : SendOK(s)'
  BY <1>6 DEF MineInv, LoadOK, SendOK
<1> QED BY <1>7, <1>8, <1>9, <1>10 DEF MineInv

\* The opening and closing of a row keep it.
LEMMA ToggleStep ==
  ASSUME MineInv, NEW t \in Own, toggle(t) PROVE MineInv'
<1> DEFINE row == view["row"]
           v == IF row.of = t THEN [row EXCEPT !.of = "none", !.shown = NoDetail]
                ELSE [row EXCEPT !.of = t]
<1>1. /\ row \in MineView
      /\ row.shown # NoDetail => row.shown.text.of = row.shown.id
      /\ row.form.kind # "none" => row.shown # NoDetail /\ row.shown.id = row.of /\ row.form.text.of = row.of
      /\ row.form.typed => row.form.kind # "none"
      /\ row.form.kind = PanelOf("row", row)
  BY ViewFacts DEF MineInv, ViewOK, Views
<1>2. row.form.kind # "edit"
  BY <1>1, PanelFacts DEF Views
<1>3. UNCHANGED <<stored, kept, listed, at, edits>>
  BY DEF toggle, Database, Rest
<1>4. Put("row", v, sends)
  BY DEF toggle
<1> HIDE DEF row
<1>5. /\ v \in MineView /\ v.form = row.form
      /\ row.of = t => v.shown = NoDetail
      /\ row.of # t => v.shown = row.shown /\ v.of = t
  BY <1>1 DEF MineView
<1> HIDE DEF v
<1>6. Stays("row", v) /\ v.form.kind # "none" => v.form.text.of = v.of
  <2> SUFFICES ASSUME Stays("row", v), v.form.kind # "none" PROVE v.form.text.of = v.of
    OBVIOUS
  <2>1. PanelOf("row", v) # "none"
    BY DEF Stays
  <2>2. v.shown.id = v.of /\ v.shown # NoDetail
    BY <2>1, <1>5, PanelFacts DEF Views
  <2> QED BY <2>2, <1>1, <1>5
<1>7. sends \in SUBSET MineSend /\ \A s \in sends : SendOK(s)
  BY DEF MineInv, MineTypes
<1>8. "row" \in Views /\ "row" # "page"
  BY DEF Views
<1>9. /\ view' \in [Views -> MineView] /\ \A q \in Views : ViewOK(q, view'[q])
      /\ PageOK' /\ view'["page"].of = view["page"].of
      /\ sends' \subseteq MineSend /\ \A s \in sends' : SendOK(s)'
  BY <1>1, <1>3, <1>4, <1>5, <1>6, <1>7, <1>8, PutStep
<1>10. loads' \subseteq MineLoad /\ \A a \in loads' : LoadOK(a)'
  <2>1. CASE row.of = t
    <3>1. loads' = loads
      BY <2>1 DEF toggle, row
    <3> QED BY <3>1, <1>3, <1>9, LoadsStay DEF MineInv, MineTypes
  <2>2. CASE row.of # t
    <3>1. Ask("row", t, "toggle")
      BY <2>2 DEF toggle, row
    <3> QED BY <3>1, <1>2, <1>3, <1>8, <1>9, AskStep DEF row
  <2> QED BY <2>1, <2>2
<1>11. edits' \in Nat /\ listed' \in [Own -> MineStatus]
  BY <1>3 DEF MineInv, MineTypes
<1> QED BY <1>3, <1>9, <1>10, <1>11, RestStep

\* The row that a list is loaded over.
LEMMA RegroupStep ==
  ASSUME MineInv, NEW row \in MineView,
         row.shown = view["row"].shown, row.of = view["row"].of,
         row.form.kind = view["row"].form.kind, row.form.text = view["row"].form.text,
         row.form.typed = view["row"].form.typed
  PROVE  LET v == Regrouped(row)
         IN  /\ v \in MineView
             /\ v.shown # NoDetail => v.shown.text.of = v.shown.id
             /\ Stays("row", v) /\ v.form.kind # "none" => v.form.text.of = v.of
             /\ v.form.typed => v.form.kind # "none"
<1> DEFINE v == Regrouped(row)
<1>1. /\ v \in MineView /\ v.of = row.of /\ v.shown = row.shown
      /\ v = row \/ v.form = NoForm
  BY RegroupedFacts
<1>2. /\ view["row"].shown # NoDetail => view["row"].shown.text.of = view["row"].shown.id
      /\ view["row"].form.kind # "none" => view["row"].form.text.of = view["row"].of
      /\ view["row"].form.typed => view["row"].form.kind # "none"
  BY ViewFacts DEF Views
<1>3. NoForm.kind = "none" /\ NoForm.typed = FALSE
  BY DEF NoForm
<1> HIDE DEF v
<1> QED BY <1>1, <1>2, <1>3 DEF v

\* ... and so does the refresh of the list.
LEMMA RefetchStep ==
  ASSUME MineInv, refetch PROVE MineInv'
<1> DEFINE row == view["row"]
           v == Regrouped(row)
<1>1. row \in MineView /\ row.of \in Own \cup {"none"} /\ row.form.kind = PanelOf("row", row)
  BY DEF MineInv, MineTypes, ViewOK, MineView, Views
<1>2. row.form.kind # "edit"
  BY <1>1, PanelFacts DEF Views
<1>3. UNCHANGED <<stored, kept, at, edits>> /\ LoadList /\ Put("row", v, sends)
  BY DEF refetch, Database, Counts, Rest
<1>4. /\ v \in MineView
      /\ v.shown # NoDetail => v.shown.text.of = v.shown.id
      /\ Stays("row", v) /\ v.form.kind # "none" => v.form.text.of = v.of
      /\ v.form.typed => v.form.kind # "none"
  BY <1>1, RegroupStep
<1> HIDE DEF v, row
<1>5. sends \in SUBSET MineSend /\ \A s \in sends : SendOK(s)
  BY DEF MineInv, MineTypes
<1>6. "row" \in Views /\ "row" # "page"
  BY DEF Views
<1>7. /\ view' \in [Views -> MineView] /\ \A q \in Views : ViewOK(q, view'[q])
      /\ PageOK' /\ view'["page"].of = view["page"].of
      /\ sends' \subseteq MineSend /\ \A s \in sends' : SendOK(s)'
  BY <1>3, <1>4, <1>5, <1>6, PutStep
<1>8. loads' \subseteq MineLoad /\ \A a \in loads' : LoadOK(a)'
  <2>1. CASE row.of = "none"
    <3>1. loads' = loads
      BY <2>1 DEF refetch, row
    <3> QED BY <3>1, <1>3, <1>7, LoadsStay DEF MineInv, MineTypes
  <2>2. CASE row.of # "none"
    <3>1. Ask("row", row.of, "refetch")
      BY <2>2 DEF refetch, row
    <3> QED BY <3>1, <2>2, <1>1, <1>2, <1>3, <1>6, <1>7, AskStep DEF row
  <2> QED BY <2>1, <2>2
<1>9. edits' \in Nat /\ listed' \in [Own -> MineStatus]
  BY <1>3, ListLoads DEF MineInv, MineTypes
<1> QED BY <1>3, <1>7, <1>8, <1>9, RestStep

\* ... a cancellation.
LEMMA CancelStep ==
  ASSUME MineInv, NEW t \in Own, cancelTicket(t) PROVE MineInv'
<1>0. PICK s \in {[p |-> "row", id |-> t, kind |-> "cancel", text |-> Words(t, 0),
                  home |-> "view", stage |-> "asked"]} : TRUE
  OBVIOUS
<1>1. s \in MineSend /\ s.text.of = s.id /\ s.p = "row" /\ s.kind = "cancel"
  BY <1>0 DEF MineSend, Words, Word, Views
<1>2. UNCHANGED <<stored, kept, listed, at, view, loads, edits>> /\ sends' = sends \cup {s}
  BY <1>0 DEF cancelTicket, Database, Counts, Rest
<1>3. SendOK(s)'
  BY <1>1 DEF SendOK
<1>4. sends' \subseteq MineSend /\ \A r \in sends' : SendOK(r)'
  <2>1. \A r \in sends : SendOK(r)'
    BY <1>2 DEF MineInv, SendOK
  <2> QED BY <2>1, <1>1, <1>2, <1>3 DEF MineInv, MineTypes
<1>5. loads' \subseteq MineLoad /\ \A a \in loads' : LoadOK(a)'
  BY <1>2 DEF MineInv, MineTypes, LoadOK
<1>6. PageOK' /\ view' \in [Views -> MineView] /\ \A q \in Views : ViewOK(q, view'[q])
  BY <1>2 DEF MineInv, MineTypes, PageOK
<1>7. edits' \in Nat /\ listed' \in [Own -> MineStatus]
  BY <1>2 DEF MineInv, MineTypes
<1> QED BY <1>2, <1>4, <1>5, <1>6, <1>7, RestStep

-----------------------------------------------------------------------------
\* A view that is shut.
LEMMA ShutFacts ==
  /\ Shut \in MineView /\ Shut.of = "none" /\ Shut.shown = NoDetail /\ Shut.form = NoForm
  /\ NoForm.kind = "none" /\ NoForm.typed = FALSE /\ NoDetail.status = "none" /\ NoDetail.id = "none"
  /\ \A p \in Views : ViewOK(p, Shut)
<1>1. NoForm \in MineForm /\ NoForm.kind = "none" /\ NoForm.typed = FALSE
  BY DEF NoForm, MineForm, Words
<1>2. /\ Shut \in MineView /\ Shut.of = "none" /\ Shut.shown = NoDetail /\ Shut.form = NoForm
  BY <1>1 DEF Shut, MineView
<1>3. NoDetail.status = "none" /\ NoDetail.id = "none"
  BY DEF NoDetail
<1>4. ASSUME NEW p \in Views PROVE ViewOK(p, Shut)
  <2>1. PanelOf(p, Shut) = "none"
    BY <1>2, <1>3, PanelFacts
  <2> QED BY <2>1, <1>1, <1>2 DEF ViewOK
<1> QED BY <1>1, <1>2, <1>3, <1>4

\* A view that was just opened.
LEMMA FreshFacts ==
  ASSUME NEW t \in Own
  PROVE  /\ Fresh(t) \in MineView /\ Fresh(t).of = t /\ Fresh(t).shown = NoDetail
         /\ Fresh(t).form = NoForm /\ \A p \in Views : ViewOK(p, Fresh(t)) /\ Stays(p, Fresh(t))
<1> DEFINE v == Fresh(t)
<1>1. v \in MineView /\ v.of = t /\ v.shown = NoDetail /\ v.form = NoForm
  BY ShutFacts DEF Fresh, MineView
<1>2. ASSUME NEW p \in Views PROVE ViewOK(p, v) /\ Stays(p, v)
  <2>1. PanelOf(p, v) = "none"
    BY <1>1, ShutFacts, PanelFacts
  <2> HIDE DEF v
  <2> QED BY <2>1, <1>1, ShutFacts DEF ViewOK, Stays
<1> QED BY <1>1, <1>2

\* The opening of the modal keeps the invariant.
LEMMA OpenModalStep ==
  ASSUME MineInv, NEW t \in Own, OpenModal(t)
  PROVE  MineInv' /\ view' = [view EXCEPT !["page"] = Fresh(t)] /\ sends' = sends
<1>1. at = "list" /\ at' = "modal" /\ UNCHANGED <<stored, kept, listed, edits>>
  BY DEF OpenModal, Database, Rest
<1>2. view' = [view EXCEPT !["page"] = Fresh(t)] /\ sends' = sends
  BY FreshFacts DEF OpenModal, Put, Rendered, Outlived, Views
<1>3. view["page"] = Shut /\ view["page"].form.kind # "edit"
  BY <1>1, ShutFacts DEF MineInv, PageOK
<1>4. view \in [Views -> MineView] /\ \A q \in Views : ViewOK(q, view[q])
  BY DEF MineInv, MineTypes
<1>5. view'["page"] = Fresh(t) /\ view'["row"] = view["row"] /\ view' \in [Views -> MineView]
  BY <1>2, <1>4, FreshFacts DEF Views
<1>6. \A q \in Views : ViewOK(q, view'[q])
  BY <1>4, <1>5, FreshFacts DEF Views
<1>7. PageOK'
  BY <1>1, <1>5, FreshFacts DEF PageOK
<1>8. ASSUME NEW s \in sends PROVE SendOK(s)'
  <2>1. SendOK(s)
    BY DEF MineInv
  <2> QED BY <2>1, <1>1 DEF SendOK
<1>9. PICK a \in {Asked("page", t, "load")} : TRUE
  OBVIOUS
<1>10. /\ a \in MineLoad /\ a.p = "page" /\ a.why = "load" /\ a.what.id = t
       /\ a.what.text.of = t /\ ~a.over
  BY <1>3, <1>9, AskedFacts DEF MineInv, Views
<1>11. loads' = loads \cup {a}
  BY <1>9 DEF OpenModal, Ask
<1>12. ASSUME NEW b \in loads PROVE LoadOK(b)'
  <2>1. LoadOK(b)
    BY DEF MineInv
  <2> QED BY <2>1, <1>1 DEF LoadOK
<1>13. LoadOK(a)'
  BY <1>1, <1>5, <1>10, FreshFacts DEF LoadOK
<1>14. MineTypes'
  BY <1>1, <1>2, <1>5, <1>10, <1>11 DEF MineInv, MineTypes
<1>15. EditsGoHome'
  BY <1>1 DEF MineInv, EditsGoHome
<1>16. (\A b \in loads' : LoadOK(b)') /\ \A s \in sends' : SendOK(s)'
  BY <1>2, <1>8, <1>11, <1>12, <1>13
<1> QED BY <1>2, <1>6, <1>7, <1>14, <1>15, <1>16 DEF MineInv

\* ... of the route.
LEMMA OpenRouteStep ==
  ASSUME MineInv, NEW t \in Own, OpenRoute(t) PROVE MineInv'
<1>1. at' = "route" /\ UNCHANGED <<stored, kept, listed, edits>>
  BY DEF OpenRoute, Database, Rest
<1>2. view' = [row |-> Shut, page |-> Fresh(t)]
  BY DEF OpenRoute
<1>3. view'["row"] = Shut /\ view'["page"] = Fresh(t)
  BY <1>2
<1>4. view' \in [Views -> MineView] /\ \A q \in Views : ViewOK(q, view'[q])
  <2>1. \A q \in Views : view'[q] \in MineView /\ ViewOK(q, view'[q])
    BY <1>3, FreshFacts, ShutFacts DEF Views
  <2>2. view' = [q \in Views |-> view'[q]]
    BY <1>2 DEF Views
  <2> QED BY <2>1, <2>2
<1>5. PageOK'
  BY <1>1, <1>3, FreshFacts DEF PageOK
<1>6. sends \in SUBSET MineSend /\ \A s \in sends : SendOK(s)
  BY DEF MineInv, MineTypes
<1>7. Leave("row", sends) \subseteq MineSend
  BY <1>6, LeaveLike DEF Views
<1>8. sends' = Leave("page", Leave("row", sends))
  BY DEF OpenRoute
<1>9. sends' \subseteq MineSend
  BY <1>7, <1>8, LeaveLike DEF Views
<1>10. ASSUME NEW s \in sends' PROVE SendOK(s)'
  <2>1. PICK r \in Leave("row", sends) : Like(s, r) /\ (s.p = "page" => s.home = "gone")
    BY <1>7, <1>8, LeaveLike DEF Views
  <2>2. PICK u \in sends : Like(r, u)
    BY <1>6, LeaveLike DEF Views
  <2>3. SendOK(u)
    BY <1>6
  <2> QED BY <1>1, <2>1, <2>2, <2>3 DEF SendOK, Like
<1>11. PICK a \in {Asked("page", t, "load")} : TRUE
  OBVIOUS
<1>12. PICK b \in {[a EXCEPT !.over = FALSE]} : TRUE
  OBVIOUS
<1>13. a = [p |-> "page", why |-> "load", what |-> DetailOf(t), over |-> a.over]
  BY <1>11 DEF Asked
<1>14. DetailOf(t) \in Detail /\ DetailOf(t).id = t /\ DetailOf(t).text.of = t
  BY DEF DetailOf, Detail, MineInv, MineTypes, EditsGoHome
<1>15. b = [p |-> "page", why |-> "load", what |-> DetailOf(t), over |-> FALSE]
  BY <1>12, <1>13
<1>16. b \in MineLoad /\ b.what = DetailOf(t) /\ b.p = "page" /\ b.why = "load" /\ b.over = FALSE
  BY <1>14, <1>15 DEF MineLoad, Views
<1>17. LoadOK(b)'
  BY <1>1, <1>3, <1>14, <1>16, FreshFacts DEF LoadOK
<1>18. loads' = {b}
  BY <1>11, <1>12 DEF OpenRoute
<1>19. MineTypes'
  BY <1>1, <1>4, <1>9, <1>16, <1>18 DEF MineInv, MineTypes
<1>20. EditsGoHome'
  BY <1>1 DEF MineInv, EditsGoHome
<1>21. \A q \in loads' : LoadOK(q)'
  BY <1>17, <1>18
<1> QED BY <1>4, <1>5, <1>10, <1>19, <1>20, <1>21 DEF MineInv

\* ... and the closing of either.
LEMMA ClosePageStep ==
  ASSUME MineInv, ClosePage PROVE MineInv'
<1> DEFINE v == Regrouped(view["row"])
           w == Rendered("row", v)
<1>1. at' = "list" /\ UNCHANGED <<stored, kept, edits>> /\ LoadList
  BY DEF ClosePage, Database, Rest
<1>2. view["row"] \in MineView
  BY DEF MineInv, MineTypes, Views
<1>3. /\ v \in MineView
      /\ v.shown # NoDetail => v.shown.text.of = v.shown.id
      /\ Stays("row", v) /\ v.form.kind # "none" => v.form.text.of = v.of
      /\ v.form.typed => v.form.kind # "none"
  BY <1>2, RegroupStep
<1> HIDE DEF v
<1>4. w \in MineView /\ ViewOK("row", w)
  BY <1>3, RenderOK DEF Views
<1>5. view' = [row |-> w, page |-> Shut]
  BY DEF ClosePage, v
<1> HIDE DEF w
<1>6. view'["row"] = w /\ view'["page"] = Shut
  BY <1>5
<1>7. view' \in [Views -> MineView] /\ \A q \in Views : ViewOK(q, view'[q])
  <2>1. \A q \in Views : view'[q] \in MineView /\ ViewOK(q, view'[q])
    BY <1>4, <1>6, ShutFacts DEF Views
  <2>2. view' = [q \in Views |-> view'[q]]
    BY <1>5 DEF Views
  <2> QED BY <2>1, <2>2
<1>8. PageOK'
  BY <1>1, <1>6, ShutFacts DEF PageOK
<1>9. sends \in SUBSET MineSend /\ \A s \in sends : SendOK(s)
  BY DEF MineInv, MineTypes
<1>10. Leave("page", sends) \in SUBSET MineSend
  BY <1>9, LeaveLike DEF Views
<1>11. sends' = Outlived("row", v, Leave("page", sends))
  BY DEF ClosePage, v
<1>12. sends' \subseteq MineSend /\ \A s \in sends' : \E r \in Leave("page", sends) : Like(s, r)
  BY <1>10, <1>11, OutlivedLike DEF Views
<1>13. ASSUME NEW s \in sends' PROVE SendOK(s)'
  <2>1. PICK r \in Leave("page", sends) : Like(s, r)
    BY <1>12
  <2>2. PICK u \in sends : Like(r, u) /\ (r.p = "page" => r.home = "gone")
    BY <1>9, LeaveLike DEF Views
  <2>3. SendOK(u)
    BY <1>9
  <2> QED BY <1>1, <2>1, <2>2, <2>3 DEF SendOK, Like
<1>14. loads' \subseteq loads /\ \A a \in loads' : a.p # "page"
  BY DEF ClosePage, Others
<1>15. ASSUME NEW a \in loads' PROVE LoadOK(a)'
  <2>1. LoadOK(a)
    BY <1>14 DEF MineInv
  <2> QED BY <2>1, <1>14 DEF LoadOK
<1>16. listed' \in [Own -> MineStatus]
  BY <1>1, ListLoads DEF MineInv
<1>17. MineTypes'
  BY <1>1, <1>7, <1>12, <1>14, <1>16 DEF MineInv, MineTypes
<1>18. EditsGoHome'
  BY <1>1 DEF MineInv, EditsGoHome
<1> QED BY <1>7, <1>8, <1>13, <1>15, <1>17, <1>18 DEF MineInv

-----------------------------------------------------------------------------
\* A refresh of the page keeps it.
LEMMA RefetchPageStep ==
  ASSUME MineInv, RefetchPage PROVE MineInv'
<1> DEFINE page == view["page"]
           v == [page EXCEPT !.failed = FALSE]
<1>1. UNCHANGED <<stored, kept, listed, at, edits>> /\ at # "list"
  BY DEF RefetchPage, Database, Counts, Rest
<1>2. /\ page \in MineView /\ page.of \in Own
      /\ page.shown # NoDetail => page.shown.text.of = page.shown.id /\ page.shown.id = page.of
      /\ page.form.kind # "none" => page.form.text.of = page.of
      /\ page.form.typed => page.form.kind # "none"
      /\ page.form.kind = PanelOf("page", page)
  BY <1>1, ViewFacts DEF Views, MineInv, PageOK, ViewOK
<1>3. page.form.kind # "edit"
  BY <1>2, PanelFacts DEF RefetchPage, Views
<1>4. Put("page", v, sends) /\ Ask("page", page.of, "load")
  BY DEF RefetchPage
<1> HIDE DEF page
<1>5. v \in MineView /\ v.of = page.of /\ v.shown = page.shown /\ v.form = page.form
  BY <1>2 DEF MineView
<1> HIDE DEF v
<1>6. sends \in SUBSET MineSend /\ \A s \in sends : SendOK(s)
  BY DEF MineInv, MineTypes
<1>7. "page" \in Views
  BY DEF Views
<1>8. /\ view' \in [Views -> MineView] /\ \A q \in Views : ViewOK(q, view'[q])
      /\ PageOK' /\ view'["page"].of = view["page"].of
      /\ sends' \subseteq MineSend /\ \A s \in sends' : SendOK(s)'
  BY <1>1, <1>2, <1>4, <1>5, <1>6, <1>7, PutStep DEF page
<1>9. loads' \subseteq MineLoad /\ \A a \in loads' : LoadOK(a)'
  BY <1>1, <1>2, <1>3, <1>4, <1>7, <1>8, AskStep DEF page
<1>10. edits' \in Nat /\ listed' \in [Own -> MineStatus]
  BY <1>1 DEF MineInv, MineTypes
<1> QED BY <1>1, <1>8, <1>9, <1>10, RestStep

\* The opening and closing of the editor keep it.
LEMMA SetEditingStep ==
  ASSUME MineInv, NEW b \in BOOLEAN, setEditing(b) PROVE MineInv'
<1> DEFINE page == view["page"]
           v == [page EXCEPT !.editing = b]
<1>1. UNCHANGED <<stored, kept, listed, at, loads, edits>> /\ at # "list" /\ Put("page", v, sends)
  BY DEF setEditing, Database, Rest
<1>2. /\ page \in MineView /\ page.of \in Own
      /\ page.shown # NoDetail => page.shown.text.of = page.shown.id /\ page.shown.id = page.of
      /\ page.form.kind # "none" => page.form.text.of = page.of
      /\ page.form.typed => page.form.kind # "none"
  BY <1>1, ViewFacts DEF Views, MineInv, PageOK
<1> HIDE DEF page
<1>3. v \in MineView /\ v.of = page.of /\ v.shown = page.shown /\ v.form = page.form
  BY <1>2 DEF MineView
<1> HIDE DEF v
<1>4. sends \in SUBSET MineSend /\ \A s \in sends : SendOK(s)
  BY DEF MineInv, MineTypes
<1>5. "page" \in Views
  BY DEF Views
<1>6. /\ view' \in [Views -> MineView] /\ \A q \in Views : ViewOK(q, view'[q])
      /\ PageOK' /\ view'["page"].of = view["page"].of
      /\ sends' \subseteq MineSend /\ \A s \in sends' : SendOK(s)'
  BY <1>1, <1>2, <1>3, <1>4, <1>5, PutStep DEF page
<1>7. loads' \subseteq MineLoad /\ \A a \in loads' : LoadOK(a)'
  BY <1>1, <1>6, LoadsStay DEF MineInv, MineTypes
<1>8. edits' \in Nat /\ listed' \in [Own -> MineStatus]
  BY <1>1 DEF MineInv, MineTypes
<1> QED BY <1>1, <1>6, <1>7, <1>8, RestStep

\* A panel that stays over a detail of another ticket is none of the row's.
LEMMA ShowDetailStep ==
  ASSUME MineInv, NEW a \in loads, ShowDetail(a) PROVE MineInv'
<1> DEFINE p == a.p
           old == view[p]
           v == [old EXCEPT !.shown = a.what]
<1>1. UNCHANGED <<stored, kept, listed, at, edits>> /\ loads' = loads \ {a} /\ Put(p, v, sends)
  BY DEF ShowDetail, Database, Counts, Rest
<1>2. a \in MineLoad /\ LoadOK(a)
  BY DEF MineInv, MineTypes
<1>3. p \in Views /\ a.what \in Detail /\ a.what.text.of = a.what.id
  BY <1>2 DEF MineLoad, LoadOK
<1>4. p = "page" => at # "list" /\ a.what.id = view["page"].of
  BY <1>2 DEF LoadOK
<1>5. /\ old \in MineView
      /\ old.form.kind # "none" => old.form.text.of = old.of
      /\ old.form.typed => old.form.kind # "none"
      /\ old.form.kind # "none" => old.shown.id = old.of /\ old.shown # NoDetail
  BY <1>3, ViewFacts
<1> HIDE DEF p
<1>6. p = "page" => old.of = view["page"].of
  OBVIOUS
<1> HIDE DEF old
<1>7. v \in MineView /\ v.of = old.of /\ v.shown = a.what /\ v.form = old.form
  BY <1>3, <1>5 DEF MineView
<1> HIDE DEF v
<1>8. sends \in SUBSET MineSend /\ \A s \in sends : SendOK(s)
  BY DEF MineInv, MineTypes
<1>9. /\ v.shown # NoDetail => v.shown.text.of = v.shown.id
      /\ p = "page" => at # "list" /\ v.of = view["page"].of
      /\ p = "page" /\ v.shown # NoDetail => v.shown.id = v.of
      /\ Stays(p, v) /\ v.form.kind # "none" => v.form.text.of = v.of
      /\ v.form.typed => v.form.kind # "none"
  BY <1>3, <1>4, <1>5, <1>6, <1>7
<1>10. /\ view' \in [Views -> MineView] /\ \A q \in Views : ViewOK(q, view'[q])
       /\ PageOK' /\ view'["page"].of = view["page"].of
       /\ sends' \subseteq MineSend /\ \A s \in sends' : SendOK(s)'
  BY <1>1, <1>3, <1>7, <1>8, <1>9, PutStep
<1>11. loads' \subseteq MineLoad /\ \A b \in loads' : LoadOK(b)'
  BY <1>1, <1>10, LoadsStay DEF MineInv, MineTypes
<1>12. edits' \in Nat /\ listed' \in [Own -> MineStatus]
  BY <1>1 DEF MineInv, MineTypes
<1> QED BY <1>1, <1>10, <1>11, <1>12, RestStep

\* A detail that cannot be loaded keeps it.
LEMMA DetailFailsStep ==
  ASSUME MineInv, NEW a \in loads, DetailFails(a) PROVE MineInv'
<1> DEFINE p == a.p
           old == view[p]
           v == [old EXCEPT !.of = IF a.why = "toggle" THEN "none" ELSE @,
                            !.failed = @ \/ a.p = "page"]
           of == IF a.why = "toggle" THEN "none" ELSE old.of
           broken == old.failed \/ p = "page"
<1>1. UNCHANGED <<stored, kept, listed, at, edits>> /\ loads' = loads \ {a} /\ Put(p, v, sends)
  BY DEF DetailFails, Database
<1>2. a \in MineLoad /\ LoadOK(a)
  BY DEF MineInv, MineTypes
<1>3. p \in Views
  BY <1>2 DEF MineLoad
<1>4. p = "page" => at # "list" /\ a.why # "toggle"
  BY <1>2 DEF LoadOK
<1>5. /\ old \in MineView /\ old.form.kind = PanelOf(p, old)
      /\ old.shown # NoDetail => old.shown.text.of = old.shown.id
      /\ p = "page" /\ old.shown # NoDetail => old.shown.id = old.of
      /\ old.form.kind # "none" => old.form.text.of = old.of
      /\ old.form.typed => old.form.kind # "none"
      /\ old.form.kind # "none" => old.shown.id = old.of /\ old.shown # NoDetail
  BY <1>3, ViewFacts DEF Stays
<1>6. p = "page" => old.of = view["page"].of
  OBVIOUS
<1>7. of \in Own \cup {"none"} /\ broken \in BOOLEAN
  BY <1>5 DEF MineView
<1>8. v = [old EXCEPT !.of = of, !.failed = broken]
  OBVIOUS
<1> HIDE DEF old, v, broken
<1>9. v \in MineView /\ v.of = of /\ v.shown = old.shown /\ v.form = old.form
  BY <1>5, <1>7, <1>8 DEF MineView
<1>10. Stays(p, v) /\ v.form.kind # "none" => v.form.text.of = v.of
  <2> SUFFICES ASSUME Stays(p, v), v.form.kind # "none" PROVE v.form.text.of = v.of
    OBVIOUS
  <2>1. CASE a.why # "toggle"
    BY <2>1, <1>5, <1>9
  <2>2. CASE a.why = "toggle"
    <3>1. p = "row" /\ PanelOf(p, v) # "none"
      BY <2>2, <1>3, <1>4 DEF Stays, Views
    <3>2. v.shown # NoDetail /\ v.shown.id = v.of
      BY <3>1, <1>3, <1>9, PanelFacts
    <3> QED BY <3>2, <1>5, <1>9
  <2> QED BY <2>1, <2>2
<1>11. p = "page" => of = old.of
  BY <1>4
<1> HIDE DEF of, p
<1>12. /\ v.shown # NoDetail => v.shown.text.of = v.shown.id
       /\ p = "page" => at # "list" /\ v.of = view["page"].of
       /\ p = "page" /\ v.shown # NoDetail => v.shown.id = v.of
       /\ v.form.typed => v.form.kind # "none"
  BY <1>4, <1>5, <1>6, <1>9, <1>11
<1>13. sends \in SUBSET MineSend /\ \A s \in sends : SendOK(s)
  BY DEF MineInv, MineTypes
<1>14. /\ view' \in [Views -> MineView] /\ \A q \in Views : ViewOK(q, view'[q])
       /\ PageOK' /\ view'["page"].of = view["page"].of
       /\ sends' \subseteq MineSend /\ \A s \in sends' : SendOK(s)'
  BY <1>1, <1>3, <1>9, <1>10, <1>12, <1>13, PutStep
<1>15. loads' \subseteq MineLoad /\ \A b \in loads' : LoadOK(b)'
  BY <1>1, <1>14, LoadsStay DEF MineInv, MineTypes
<1>16. edits' \in Nat /\ listed' \in [Own -> MineStatus]
  BY <1>1 DEF MineInv, MineTypes
<1> QED BY <1>1, <1>14, <1>15, <1>16, RestStep

-----------------------------------------------------------------------------
\* A form is filled in, or waits: its view stays the view it was.
LEMMA FilledStep ==
  ASSUME MineInv, NEW p \in Views, NEW f \in MineForm,
         f.kind = view[p].form.kind, f.kind # "none" => f.text.of = view[p].form.text.of,
         f.typed => f.kind # "none", p = "page" => at # "list",
         view' = [view EXCEPT ![p].form = f], at' = at
  PROVE  /\ view' \in [Views -> MineView] /\ \A q \in Views : ViewOK(q, view'[q])
         /\ PageOK' /\ view'["page"].of = view["page"].of
<1> DEFINE v == view[p]
           w == [v EXCEPT !.form = f]
<1>1. v \in MineView /\ ViewOK(p, v)
  BY DEF MineInv, MineTypes
<1>2. view \in [Views -> MineView] /\ (\A q \in Views : ViewOK(q, view[q])) /\ PageOK
  BY DEF MineInv, MineTypes
<1>3. view' = [view EXCEPT ![p] = w]
  OBVIOUS
<1>4. f.kind = v.form.kind /\ (f.kind # "none" => f.text.of = v.form.text.of)
  OBVIOUS
<1>5. PanelOf(p, w) = PanelOf(p, v)
  BY <1>1, PanelFacts
<1> HIDE DEF v
<1>6. /\ w \in MineView /\ w.of = v.of /\ w.shown = v.shown /\ w.form = f
  BY <1>1 DEF MineView
<1>7. ViewOK(p, w)
  BY <1>1, <1>4, <1>5, <1>6 DEF ViewOK
<1> HIDE DEF w
<1>8. view' \in [Views -> MineView] /\ view'[p] = w /\ \A q \in Views \ {p} : view'[q] = view[q]
  BY <1>2, <1>3, <1>6
<1>9. \A q \in Views : ViewOK(q, view'[q])
  BY <1>2, <1>7, <1>8
<1>10. view'["page"].of = view["page"].of /\ view'["page"].shown = view["page"].shown
  BY <1>6, <1>8 DEF Views, v
<1>11. PageOK'
  <2>1. CASE p = "page"
    BY <2>1, <1>2, <1>10 DEF PageOK
  <2>2. CASE p # "page"
    <3>1. view'["page"] = view["page"]
      BY <2>2, <1>8 DEF Views
    <3> QED BY <3>1, <1>2 DEF PageOK
  <2> QED BY <2>1, <2>2
<1> QED BY <1>8, <1>9, <1>10, <1>11

\* Typing keeps it.
LEMMA TypeStep ==
  ASSUME MineInv, NEW p \in Views, Type(p) PROVE MineInv'
<1> DEFINE g == view[p].form
           f == [g EXCEPT !.text.n = edits + 1, !.typed = TRUE]
<1>1. UNCHANGED <<stored, kept, listed, at, loads, sends>> /\ edits' = edits + 1
  BY DEF Type, Database
<1>2. edits \in Nat /\ listed \in [Own -> MineStatus] /\ view \in [Views -> MineView]
  BY DEF MineInv, MineTypes
<1>3. g \in MineForm /\ g.kind # "none" /\ view[p].of \in Own
  BY <1>2, ViewFacts DEF Type, InUse, MineView
<1>4. /\ p = "page" => at # "list"
  BY <1>3, ShutFacts, ViewFacts
<1>5. view' = [view EXCEPT ![p].form.text.n = edits + 1, ![p].form.typed = TRUE]
  BY DEF Type
<1>6. view' = [view EXCEPT ![p].form = f]
  BY <1>5, <1>2
<1>7. f \in MineForm /\ f.kind = g.kind /\ f.text.of = g.text.of
  <2> DEFINE u == [g.text EXCEPT !.n = edits + 1]
  <2> HIDE DEF g
  <2>1. g.text \in [of : Own \cup {"none"}, n : Nat]
    BY <1>3 DEF MineForm
  <2>2. u \in [of : Own \cup {"none"}, n : Nat] /\ u.of = g.text.of
    BY <2>1, <1>2
  <2>3. f = [g EXCEPT !.text = u, !.typed = TRUE]
    BY <1>3 DEF MineForm
  <2> HIDE DEF u, f
  <2> QED BY <2>2, <2>3, <1>3 DEF MineForm
<1>8. /\ view' \in [Views -> MineView] /\ \A q \in Views : ViewOK(q, view'[q])
      /\ PageOK' /\ view'["page"].of = view["page"].of
  <2> HIDE DEF f
  <2> QED BY <1>1, <1>3, <1>4, <1>6, <1>7, FilledStep
<1>9. sends' \subseteq MineSend /\ \A s \in sends' : SendOK(s)'
  BY <1>1, <1>8 DEF MineInv, MineTypes, SendOK
<1>10. loads' \subseteq MineLoad /\ \A a \in loads' : LoadOK(a)'
  BY <1>1, <1>8, LoadsStay DEF MineInv, MineTypes
<1>11. edits' \in Nat /\ listed' \in [Own -> MineStatus]
  BY <1>1, <1>2
<1> QED BY <1>1, <1>8, <1>9, <1>10, <1>11, RestStep

\* The sending of a form keeps it.
LEMMA SubmitsStep ==
  ASSUME MineInv, NEW p \in Views, NEW kind \in {"receipt", "save", "edit"}, Submits(p, kind)
  PROVE  MineInv'
<1> DEFINE g == view[p].form
           f == [g EXCEPT !.busy = TRUE]
<1>1. UNCHANGED <<stored, kept, listed, at, loads, edits>>
  BY DEF Submits, Database, Counts, Rest
<1>2. edits \in Nat /\ listed \in [Own -> MineStatus] /\ view \in [Views -> MineView]
  BY DEF MineInv, MineTypes
<1>3. /\ g \in MineForm /\ g.kind # "none" /\ view[p].of \in Own
      /\ view[p].shown.id = view[p].of /\ g.text.of = view[p].of
  BY <1>2, ViewFacts DEF Submits, InUse, MineView
<1>4. /\ p = "page" => at # "list"
  BY <1>3, ShutFacts, ViewFacts
<1>5. view' = [view EXCEPT ![p].form = f]
  BY <1>2 DEF Submits
<1>6. f \in MineForm /\ f.kind = g.kind /\ f.text = g.text /\ f.typed = g.typed
  <2> HIDE DEF g
  <2> QED BY <1>3 DEF MineForm
<1>7. /\ view' \in [Views -> MineView] /\ \A q \in Views : ViewOK(q, view'[q])
      /\ PageOK' /\ view'["page"].of = view["page"].of
  <2> HIDE DEF f
  <2> QED BY <1>1, <1>3, <1>4, <1>5, <1>6, FilledStep
<1>8. PICK s \in {[p |-> p, id |-> view[p].shown.id, kind |-> kind,
                   text |-> view[p].form.text, home |-> "form", stage |-> "asked"]} : TRUE
  OBVIOUS
<1>9. g.text \in Word
  <2>1. g.text \in [of : Own \cup {"none"}, n : Nat]
    BY <1>3 DEF MineForm
  <2> HIDE DEF g
  <2> QED BY <2>1, <1>3 DEF Word
<1>10. s \in MineSend /\ s.text.of = s.id /\ s.p = p /\ s.id = view[p].of /\ s.stage = "asked"
       /\ s.kind # "resubmit"
  BY <1>3, <1>8, <1>9 DEF MineSend
<1>11. sends' = sends \cup {s}
  BY <1>8 DEF Submits
<1>12. SendOK(s)'
  BY <1>1, <1>4, <1>7, <1>10 DEF SendOK
<1>13. sends' \subseteq MineSend /\ \A r \in sends' : SendOK(r)'
  <2>1. \A r \in sends : SendOK(r)'
    BY <1>1, <1>7 DEF MineInv, SendOK
  <2> QED BY <2>1, <1>10, <1>11, <1>12 DEF MineInv, MineTypes
<1>14. loads' \subseteq MineLoad /\ \A a \in loads' : LoadOK(a)'
  BY <1>1, <1>7, LoadsStay DEF MineInv, MineTypes
<1>15. edits' \in Nat /\ listed' \in [Own -> MineStatus]
  BY <1>1, <1>2
<1> QED BY <1>1, <1>7, <1>13, <1>14, <1>15, RestStep

\* A call that is at another stage is the same call.
LEMMA StageFacts ==
  ASSUME NEW s \in MineSend, NEW stage \in {"asked", "ok", "refused", "lost"}
  PROVE  LET r == [s EXCEPT !.stage = stage]
         IN  /\ r \in MineSend /\ r.p = s.p /\ r.id = s.id /\ r.kind = s.kind /\ r.text = s.text
             /\ r.home = s.home /\ r.stage = stage
BY DEF MineSend

\* The loss of a call keeps it.
LEMMA MissStep ==
  ASSUME MineInv, NEW s \in sends, Miss(s) PROVE MineInv'
<1>1. UNCHANGED <<stored, kept, listed, at, view, loads, edits>> /\ Stage(s, "lost")
  BY DEF Miss, Database
<1>2. s \in MineSend /\ SendOK(s)
  BY DEF MineInv, MineTypes
<1>3. PICK r \in {[s EXCEPT !.stage = "lost"]} : TRUE
  OBVIOUS
<1>4. /\ r \in MineSend /\ r.p = s.p /\ r.id = s.id /\ r.kind = s.kind /\ r.text = s.text
      /\ r.home = s.home /\ r.stage = "lost"
  BY <1>2, <1>3 DEF MineSend
<1>5. sends' = (sends \ {s}) \cup {r}
  BY <1>1, <1>3 DEF Stage
<1>6. SendOK(r)'
  BY <1>1, <1>2, <1>4 DEF SendOK
<1>7. sends' \subseteq MineSend /\ \A q \in sends' : SendOK(q)'
  <2>1. \A q \in sends : SendOK(q)'
    BY <1>1 DEF MineInv, SendOK
  <2> QED BY <2>1, <1>4, <1>5, <1>6 DEF MineInv, MineTypes
<1>8. loads' \subseteq MineLoad /\ \A a \in loads' : LoadOK(a)'
  BY <1>1 DEF MineInv, MineTypes, LoadOK
<1>9. PageOK' /\ view' \in [Views -> MineView] /\ \A q \in Views : ViewOK(q, view'[q])
  BY <1>1 DEF MineInv, MineTypes, PageOK
<1>10. edits' \in Nat /\ listed' \in [Own -> MineStatus]
  BY <1>1 DEF MineInv, MineTypes
<1> QED BY <1>1, <1>7, <1>8, <1>9, <1>10, RestStep

\* The handling of a call by the server keeps it.
LEMMA HandleStep ==
  ASSUME MineInv, NEW s \in sends, Handle(s) PROVE MineInv'
<1>1. UNCHANGED <<listed, at, view, loads, edits>>
  BY DEF Handle, Counts, Rest
<1>2. s \in MineSend /\ SendOK(s)
  BY DEF MineInv, MineTypes
<1>3. /\ stored \in [Own -> [status : MineStatus, text : Word]] /\ EditsGoHome
      /\ kept \in [Own -> SUBSET Word] /\ s.id \in Own /\ s.text \in Word
  BY <1>2 DEF MineInv, MineTypes, MineSend
<1>4. PICK stage \in {"ok", "refused"} :
        /\ Stage(s, stage)
        /\ \/ UNCHANGED Database
           \/ /\ stored' = [stored EXCEPT ![s.id] = Effect(s, @)]
              /\ kept' = [kept EXCEPT ![s.id] = @ \cup {stored'[s.id].text}]
        /\ stage = "ok" =>
             /\ stored' = [stored EXCEPT ![s.id] = Effect(s, @)]
             /\ kept' = [kept EXCEPT ![s.id] = @ \cup {stored'[s.id].text}]
  BY DEF Handle
<1> DEFINE row == Effect(s, stored[s.id])
<1>5. stored[s.id] \in [status : MineStatus, text : Word] /\ stored[s.id].text.of = s.id
  BY <1>3 DEF EditsGoHome
<1>6. /\ row \in [status : MineStatus, text : Word] /\ row.text.of = s.id
      /\ s.kind = "save" => row.text = s.text
  <2>1. s.text.of = s.id
    BY <1>2 DEF SendOK
  <2> QED BY <2>1, <1>3, <1>5 DEF Effect, MineStatus
<1> HIDE DEF row
<1>8. /\ stored' \in [Own -> [status : MineStatus, text : Word]] /\ EditsGoHome'
      /\ kept' \in [Own -> SUBSET Word] /\ \A t \in Own : kept[t] \subseteq kept'[t]
      /\ stage = "ok" /\ s.kind = "save" => s.text \in kept'[s.id]
  <2>1. CASE UNCHANGED Database /\ stage # "ok"
    BY <2>1, <1>3 DEF Database, EditsGoHome
  <2>2. CASE /\ stored' = [stored EXCEPT ![s.id] = Effect(s, @)]
             /\ kept' = [kept EXCEPT ![s.id] = @ \cup {stored'[s.id].text}]
    <3>1. stored' = [stored EXCEPT ![s.id] = row]
      BY <2>2 DEF row
    <3>2. stored' \in [Own -> [status : MineStatus, text : Word]] /\ stored'[s.id] = row
      BY <3>1, <1>3, <1>6
    <3>3. EditsGoHome'
      BY <3>1, <1>3, <1>6 DEF EditsGoHome
    <3>4. row.text \in Word
      BY <1>6
    <3>5. /\ kept' = [kept EXCEPT ![s.id] = kept[s.id] \cup {row.text}]
      BY <2>2, <3>2
    <3>6. /\ kept' \in [Own -> SUBSET Word] /\ \A t \in Own : kept[t] \subseteq kept'[t]
          /\ row.text \in kept'[s.id]
      BY <3>4, <3>5, <1>3
    <3> QED BY <3>2, <3>3, <3>6, <1>6
  <2> QED BY <2>1, <2>2, <1>4
<1>9. PICK r \in {[s EXCEPT !.stage = stage]} : TRUE
  OBVIOUS
<1>10. /\ r \in MineSend /\ r.p = s.p /\ r.id = s.id /\ r.kind = s.kind /\ r.text = s.text
       /\ r.home = s.home /\ r.stage = stage
  BY <1>2, <1>9 DEF MineSend
<1>11. sends' = (sends \ {s}) \cup {r}
  BY <1>4, <1>9 DEF Stage
<1>12. ASSUME NEW q \in sends PROVE SendOK(q)'
  <2>1. SendOK(q) /\ q \in MineSend
    BY DEF MineInv, MineTypes
  <2>2. q.id \in Own
    BY <2>1 DEF MineSend
  <2> QED BY <2>1, <2>2, <1>1, <1>8 DEF SendOK
<1>13. SendOK(r)'
  <2>1. SendOK(s)'
    BY <1>12
  <2>2. r.kind = "save" /\ r.stage = "ok" => r.text \in kept'[r.id]
    BY <1>8, <1>10
  <2>3. r.kind = "resubmit" => r.text \in kept'[r.id]
    BY <2>1, <1>10 DEF SendOK
  <2> QED BY <2>1, <2>2, <2>3, <1>10 DEF SendOK
<1>14. PageOK' /\ view' \in [Views -> MineView] /\ \A q \in Views : ViewOK(q, view'[q])
  BY <1>1 DEF MineInv, MineTypes, PageOK
<1>15. MineTypes'
  BY <1>1, <1>8, <1>10, <1>11, <1>14 DEF MineInv, MineTypes
<1>16. (\A q \in sends' : SendOK(q)') /\ \A a \in loads' : LoadOK(a)'
  <2>1. \A a \in loads : LoadOK(a)'
    BY <1>1, LoadsStay
  <2> QED BY <2>1, <1>1, <1>11, <1>12, <1>13
<1> QED BY <1>8, <1>14, <1>15, <1>16 DEF MineInv

-----------------------------------------------------------------------------
\* What becomes of a call that is answered.
LEMMA ToldStep ==
  ASSUME MineInv, NEW s \in sends, Told(s), UNCHANGED <<stored, kept, at, edits>> PROVE MineInv'
<1>1. s \in MineSend /\ SendOK(s)
  BY DEF MineInv, MineTypes
<1>2. UNCHANGED <<loads, listed>> /\ sends' = sends \ {s}
  BY DEF Told
<1>3. view \in [Views -> MineView] /\ s.p \in Views
  BY <1>1 DEF MineInv, MineTypes, MineSend
<1>4. /\ view' \in [Views -> MineView] /\ \A q \in Views : ViewOK(q, view'[q])
      /\ PageOK' /\ view'["page"].of = view["page"].of
  <2>1. CASE s.home # "form"
    BY <2>1 DEF Told, MineInv, MineTypes, PageOK
  <2>2. CASE s.home = "form"
    <3> DEFINE g == view[s.p].form
               f == [g EXCEPT !.busy = FALSE]
    <3>1. view' = [view EXCEPT ![s.p].form = f]
      BY <2>2, <1>3 DEF Told
    <3>2. g \in MineForm /\ (g.typed => g.kind # "none")
      BY <1>3, ViewFacts DEF MineView
    <3>3. f \in MineForm /\ f.kind = g.kind /\ f.text = g.text /\ f.typed = g.typed
      <4> HIDE DEF g
      <4> QED BY <3>2 DEF MineForm
    <3>4. s.p = "page" => at # "list"
      BY <2>2, <1>1 DEF SendOK
    <3> HIDE DEF f
    <3> QED BY <3>1, <3>2, <3>3, <3>4, <1>3, FilledStep
  <2> QED BY <2>1, <2>2
<1>5. sends' \subseteq MineSend /\ \A q \in sends' : SendOK(q)'
  <2>1. \A q \in sends : SendOK(q)'
    BY <1>4 DEF MineInv, SendOK
  <2> QED BY <2>1, <1>2 DEF MineInv, MineTypes
<1>6. loads' \subseteq MineLoad /\ \A a \in loads' : LoadOK(a)'
  BY <1>2, <1>4, LoadsStay DEF MineInv, MineTypes
<1>7. edits' \in Nat /\ listed' \in [Own -> MineStatus]
  BY <1>2 DEF MineInv, MineTypes
<1> QED BY <1>4, <1>5, <1>6, <1>7, RestStep

\* The second call of a save keeps it.
LEMMA ResubmitStep ==
  ASSUME MineInv, NEW s \in sends, s.kind = "save", s.stage = "ok", ResubmitAnyway(s),
         UNCHANGED <<stored, kept, at, edits>>
  PROVE  MineInv'
<1>1. s \in MineSend /\ SendOK(s)
  BY DEF MineInv, MineTypes
<1>2. UNCHANGED <<view, loads, listed>>
  BY DEF ResubmitAnyway
<1>3. PICK r \in {[s EXCEPT !.kind = "resubmit", !.stage = "asked"]} : TRUE
  OBVIOUS
<1>4. /\ r \in MineSend /\ r.p = s.p /\ r.id = s.id /\ r.kind = "resubmit" /\ r.text = s.text
      /\ r.home = s.home
  BY <1>1, <1>3 DEF MineSend
<1>5. sends' = (sends \ {s}) \cup {r}
  BY <1>3 DEF ResubmitAnyway
<1>6. SendOK(r)'
  BY <1>1, <1>2, <1>4 DEF SendOK
<1>7. sends' \subseteq MineSend /\ \A q \in sends' : SendOK(q)'
  <2>1. \A q \in sends : SendOK(q)'
    BY <1>2 DEF MineInv, SendOK
  <2> QED BY <2>1, <1>4, <1>5, <1>6 DEF MineInv, MineTypes
<1>8. loads' \subseteq MineLoad /\ \A a \in loads' : LoadOK(a)'
  BY <1>2 DEF MineInv, MineTypes, LoadOK
<1>9. PageOK' /\ view' \in [Views -> MineView] /\ \A q \in Views : ViewOK(q, view'[q])
  BY <1>2 DEF MineInv, MineTypes, PageOK
<1>10. edits' \in Nat /\ listed' \in [Own -> MineStatus]
  BY <1>2 DEF MineInv, MineTypes
<1> QED BY <1>7, <1>8, <1>9, <1>10, RestStep

\* The row reloads with the list, with or without its detail.
LEMMA RowPutStep ==
  ASSUME MineInv, NEW row \in MineView, NEW pending \in SUBSET sends,
         row.shown = view["row"].shown, row.of = view["row"].of,
         row.form.kind = view["row"].form.kind, row.form.text = view["row"].form.text,
         row.form.typed = view["row"].form.typed,
         Put("row", Regrouped(row), pending), UNCHANGED <<stored, kept, at, edits>>
  PROVE  /\ view' \in [Views -> MineView] /\ \A q \in Views : ViewOK(q, view'[q])
         /\ PageOK' /\ view'["page"].of = view["page"].of
         /\ sends' \subseteq MineSend /\ \A q \in sends' : SendOK(q)'
<1> DEFINE v == Regrouped(row)
<1>1. /\ v \in MineView
      /\ v.shown # NoDetail => v.shown.text.of = v.shown.id
      /\ Stays("row", v) /\ v.form.kind # "none" => v.form.text.of = v.of
      /\ v.form.typed => v.form.kind # "none"
  BY RegroupStep
<1>2. Put("row", v, pending)
  OBVIOUS
<1> HIDE DEF v
<1>3. pending \in SUBSET MineSend /\ \A q \in pending : SendOK(q)
  BY DEF MineInv, MineTypes
<1>4. "row" \in Views /\ "row" # "page"
  BY DEF Views
<1> QED BY <1>1, <1>2, <1>3, <1>4, PutStep

\* What a view does when its call has succeeded keeps it.
LEMMA OnDoneStep ==
  ASSUME MineInv, NEW s \in sends, OnDone(s, sends \ {s}), UNCHANGED <<stored, kept, at, edits>>
  PROVE  MineInv'
<1>1. s \in MineSend /\ SendOK(s) /\ edits' \in Nat /\ listed \in [Own -> MineStatus]
  BY DEF MineInv, MineTypes
<1>2. s.id \in Own /\ sends \ {s} \in SUBSET sends /\ s.kind = s.kind
  BY <1>1 DEF MineSend
<1>3. CASE s.home = "gone" /\ sends' = sends \ {s} /\ UNCHANGED <<view, loads, listed>>
  <2>1. sends' \subseteq MineSend /\ \A q \in sends' : SendOK(q)'
    BY <1>3 DEF MineInv, MineTypes, SendOK
  <2>2. loads' \subseteq MineLoad /\ \A a \in loads' : LoadOK(a)'
    BY <1>3 DEF MineInv, MineTypes, LoadOK
  <2>3. PageOK' /\ view' \in [Views -> MineView] /\ \A q \in Views : ViewOK(q, view'[q])
    BY <1>3 DEF MineInv, MineTypes, PageOK
  <2> QED BY <1>1, <1>3, <2>1, <2>2, <2>3, RestStep
<1>4. CASE /\ s.home # "gone" /\ s.p = "row"
           /\ Put("row", Regrouped([view["row"] EXCEPT !.form.busy = @ /\ s.home # "form"]), sends \ {s})
           /\ Ask("row", s.id, "done") /\ LoadList
  <2> DEFINE old == view["row"]
             busy == old.form.busy /\ s.home # "form"
             f == [old.form EXCEPT !.busy = busy]
             row == [old EXCEPT !.form = f]
  <2>1. old \in MineView /\ old.form \in MineForm
    BY ViewFacts DEF Views, MineView
  <2>2. busy \in BOOLEAN
    BY <2>1 DEF MineForm
  <2>3. [old EXCEPT !.form.busy = @ /\ s.home # "form"] = row
    OBVIOUS
  <2> HIDE DEF old, busy
  <2>4. /\ f \in MineForm /\ f.kind = old.form.kind /\ f.text = old.form.text
        /\ f.typed = old.form.typed
    BY <2>1, <2>2 DEF MineForm
  <2> HIDE DEF f
  <2>5. row \in MineView /\ row.shown = old.shown /\ row.of = old.of /\ row.form = f
    BY <2>1, <2>4 DEF MineView
  <2>6. Put("row", Regrouped(row), sends \ {s})
    BY <1>4, <2>3 DEF old
  <2> HIDE DEF row
  <2>7. /\ view' \in [Views -> MineView] /\ \A q \in Views : ViewOK(q, view'[q])
        /\ PageOK' /\ view'["page"].of = view["page"].of
        /\ sends' \subseteq MineSend /\ \A q \in sends' : SendOK(q)'
    BY <1>2, <2>4, <2>5, <2>6, RowPutStep DEF old
  <2>8. loads' \subseteq MineLoad /\ \A a \in loads' : LoadOK(a)'
    BY <1>2, <1>4, <2>7, AskStep DEF Views
  <2>9. listed' \in [Own -> MineStatus]
    BY <1>4, ListLoads DEF MineInv
  <2> QED BY <1>1, <2>7, <2>8, <2>9, RestStep
<1>5. CASE /\ s.home # "gone" /\ s.p = "page"
           /\ Put("page", [view["page"] EXCEPT !.failed = FALSE, !.editing = @ /\ s.kind # "edit",
                                               !.form.busy = @ /\ s.home # "form"], sends \ {s})
           /\ Ask("page", s.id, "done") /\ UNCHANGED listed
  <2> DEFINE old == view["page"]
             busy == old.form.busy /\ s.home # "form"
             editing == old.editing /\ s.kind # "edit"
             f == [old.form EXCEPT !.busy = busy]
             v == [old EXCEPT !.failed = FALSE, !.editing = editing, !.form = f]
  <2>1. /\ old \in MineView /\ old.form \in MineForm
        /\ old.shown # NoDetail => old.shown.text.of = old.shown.id /\ old.shown.id = old.of
        /\ old.form.kind # "none" => old.form.text.of = old.of
        /\ old.form.typed => old.form.kind # "none"
    BY ViewFacts DEF Views, MineView
  <2>2. busy \in BOOLEAN /\ editing \in BOOLEAN
    BY <2>1 DEF MineForm, MineView
  <2>3. [view["page"] EXCEPT !.failed = FALSE, !.editing = @ /\ s.kind # "edit",
                             !.form.busy = @ /\ s.home # "form"] = v
    OBVIOUS
  <2>4. at # "list" /\ s.id = old.of
    BY <1>1, <1>5 DEF SendOK
  <2> HIDE DEF old, busy, editing
  <2>5. /\ f \in MineForm /\ f.kind = old.form.kind /\ f.text = old.form.text
        /\ f.typed = old.form.typed
    BY <2>1, <2>2 DEF MineForm
  <2> HIDE DEF f
  <2>6. v \in MineView /\ v.shown = old.shown /\ v.of = old.of /\ v.form = f
    BY <2>1, <2>2, <2>5 DEF MineView
  <2>7. Put("page", v, sends \ {s})
    BY <1>5, <2>3
  <2> HIDE DEF v
  <2>8. sends \ {s} \in SUBSET MineSend /\ \A q \in sends \ {s} : SendOK(q)
    BY DEF MineInv, MineTypes
  <2>9. /\ "page" \in Views
        /\ v.shown # NoDetail => v.shown.text.of = v.shown.id
        /\ v.of = view["page"].of
        /\ v.shown # NoDetail => v.shown.id = v.of
        /\ Stays("page", v) /\ v.form.kind # "none" => v.form.text.of = v.of
        /\ v.form.typed => v.form.kind # "none"
    BY <2>1, <2>5, <2>6 DEF Views, old
  <2>10. /\ view' \in [Views -> MineView] /\ \A q \in Views : ViewOK(q, view'[q])
         /\ PageOK' /\ view'["page"].of = view["page"].of
         /\ sends' \subseteq MineSend /\ \A q \in sends' : SendOK(q)'
    BY <2>4, <2>6, <2>7, <2>8, <2>9, PutStep
  <2>11. loads' \subseteq MineLoad /\ \A a \in loads' : LoadOK(a)'
    BY <1>2, <1>5, <2>4, <2>9, <2>10, AskStep DEF old
  <2>12. listed' \in [Own -> MineStatus]
    BY <1>1, <1>5
  <2> QED BY <1>1, <2>10, <2>11, <2>12, RestStep
<1> QED BY <1>3, <1>4, <1>5 DEF OnDone

\* The answer to a call keeps it.
LEMMA SettleStep ==
  ASSUME MineInv, NEW s \in sends, Settle(s) PROVE MineInv'
<1>1. UNCHANGED <<stored, kept, at, edits>>
  BY DEF Settle, Database, Counts, Rest
<1>2. CASE s.kind = "save" /\ s.stage = "ok" /\ ResubmitAnyway(s)
  BY <1>1, <1>2, ResubmitStep
<1>3. CASE Told(s)
  BY <1>1, <1>3, ToldStep
<1>4. CASE OnDone(s, sends \ {s})
  BY <1>1, <1>4, OnDoneStep
<1>5. CASE Put("row", Regrouped(view["row"]), sends \ {s}) /\ LoadList /\ UNCHANGED loads
  <2>1. view["row"] \in MineView /\ sends \ {s} \in SUBSET sends
    BY ViewFacts DEF Views
  <2>2. /\ view' \in [Views -> MineView] /\ \A q \in Views : ViewOK(q, view'[q])
        /\ PageOK' /\ view'["page"].of = view["page"].of
        /\ sends' \subseteq MineSend /\ \A q \in sends' : SendOK(q)'
    BY <1>1, <1>5, <2>1, RowPutStep
  <2>3. loads' \subseteq MineLoad /\ \A a \in loads' : LoadOK(a)'
    BY <1>1, <1>5, <2>2, LoadsStay DEF MineInv, MineTypes
  <2>4. edits' \in Nat /\ listed' \in [Own -> MineStatus]
    BY <1>1, <1>5, ListLoads DEF MineInv, MineTypes
  <2> QED BY <1>1, <2>2, <2>3, <2>4, RestStep
<1> QED BY <1>2, <1>3, <1>4, <1>5 DEF Settle, AfterSave

-----------------------------------------------------------------------------
\* The invariant holds of the page as it is opened.
LEMMA MineInvInit == MineInit => MineInv
<1> SUFFICES ASSUME MineInit PROVE MineInv
  OBVIOUS
<1>1. /\ stored = [t \in Own |-> [status |-> IF t \in Fixing THEN "Return-fixing" ELSE "Submitted",
                                  text |-> Words(t, 0)]]
      /\ kept = [t \in Own |-> {Words(t, 0)}]
      /\ listed = [t \in Own |-> stored[t].status]
      /\ at = "list" /\ view = [p \in {"row", "page"} |-> Shut]
      /\ loads = {} /\ sends = {} /\ edits = 0
  BY DEF MineInit
<1>2. \A t \in Own : Words(t, 0) \in Word /\ Words(t, 0).of = t
  BY DEF Words, Word
<1>3. /\ stored \in [Own -> [status : MineStatus, text : Word]] /\ kept \in [Own -> SUBSET Word]
      /\ EditsGoHome
  BY <1>1, <1>2 DEF MineStatus, EditsGoHome
<1>4. listed \in [Own -> MineStatus]
  BY <1>1, <1>3
<1>5. view \in [Views -> MineView] /\ (\A p \in Views : view[p] = Shut)
  BY <1>1, ShutFacts DEF Views
<1>6. PageOK /\ \A p \in Views : ViewOK(p, view[p])
  BY <1>1, <1>5, ShutFacts DEF PageOK, Views
<1> QED BY <1>1, <1>3, <1>4, <1>5, <1>6 DEF MineInv, MineTypes

\* Every step keeps the invariant.
LEMMA MineInvStep == MineInv /\ [MineNext]_mineVars => MineInv'
<1> SUFFICES ASSUME MineInv, [MineNext]_mineVars PROVE MineInv'
  OBVIOUS
<1>1. ASSUME NEW t \in Own, DeskMoves(t, {"Submitted"}, "Submitted to VP Andy") PROVE MineInv'
  BY <1>1, DeskMovesStep DEF MineStatus
<1>2. ASSUME NEW t \in Own, DeskMoves(t, {"Submitted", "Submitted to VP Andy"}, "Returned") PROVE MineInv'
  BY <1>2, DeskMovesStep DEF MineStatus
<1>3. ASSUME NEW t \in Own, toggle(t) \/ cancelTicket(t) \/ OpenModal(t) \/ OpenRoute(t) PROVE MineInv'
  BY <1>3, ToggleStep, CancelStep, OpenModalStep, OpenRouteStep
<1>4. CASE refetch \/ RefetchPage \/ ClosePage
  BY <1>4, RefetchStep, RefetchPageStep, ClosePageStep
<1>5. ASSUME NEW a \in loads, ShowDetail(a) \/ DetailFails(a) PROVE MineInv'
  BY <1>5, ShowDetailStep, DetailFailsStep
<1>6. ASSUME NEW b \in BOOLEAN, setEditing(b) PROVE MineInv'
  BY <1>6, SetEditingStep
<1>7. ASSUME NEW p \in {"row", "page"}, Type(p) \/ confirm(p) \/ saveAndResubmit(p) PROVE MineInv'
  BY <1>7, TypeStep, SubmitsStep DEF confirm, saveAndResubmit, Views
<1>8. CASE save
  BY <1>8, SubmitsStep DEF save, Views
<1>9. ASSUME NEW s \in sends, Handle(s) \/ Miss(s) \/ Settle(s) PROVE MineInv'
  BY <1>9, HandleStep, MissStep, SettleStep
<1>10. CASE UNCHANGED mineVars
  BY <1>10 DEF mineVars, MineInv, MineTypes, EditsGoHome, PageOK, LoadOK, SendOK
<1> QED BY <1>1, <1>2, <1>3, <1>4, <1>5, <1>6, <1>7, <1>8, <1>9, <1>10 DEF MineNext

\* What was typed is stored, unless it was refused, lost or overwritten.
LEMMA MineIsSound == MineInv => EditsSound
BY DEF MineInv, EditsSound, ResubmitsSaved, SendOK

-----------------------------------------------------------------------------
\* A view that is put back with its panel and its form keeps what was typed.
LEMMA StandsIfKept ==
  ASSUME MineInv, NEW p \in Views, view'[p].form.typed = view[p].form.typed
  PROVE  FormStands(p)
<1>1. view[p].form.typed \in BOOLEAN
  BY ViewFacts DEF MineView, MineForm
<1> QED BY <1>1 DEF FormStands

\* A view that takes the place of another loses no typed form of its own accord.
LEMMA PutStands ==
  ASSUME MineInv, NEW p \in Views, NEW v \in MineView, NEW pending,
         Put(p, v, pending), v.form.typed = view[p].form.typed,
         Stays(p, v) \/ FormStands(p), NEW q \in Views
  PROVE  FormStands(q)
<1>1. view \in [Views -> MineView]
  BY DEF MineInv, MineTypes
<1>2. CASE q # p
  BY <1>1, <1>2, StandsIfKept DEF Put
<1>3. CASE q = p /\ Stays(p, v)
  <2>1. view'[p] = v
    BY <1>1, <1>3 DEF Put, Rendered
  <2> QED BY <1>3, <2>1, StandsIfKept
<1> QED BY <1>2, <1>3

\* What is typed is typed into the form of a panel.
LEMMA TypedFacts ==
  ASSUME MineInv, NEW p \in Views, view[p].form.typed
  PROVE  /\ view[p].form.kind \in {"return", "edit"} /\ PanelOf(p, view[p]) = view[p].form.kind
         /\ view[p].of \in Own /\ view[p].shown # NoDetail /\ view[p].shown.id = view[p].of
         /\ p = "page" => at # "list" /\ ~view[p].failed
<1>1. PanelOf(p, view[p]) = view[p].form.kind /\ view[p].form.kind # "none" /\ view[p] \in MineView
  BY ViewFacts DEF Stays
<1>2. view[p].form.kind \in {"return", "edit"}
  BY <1>1, PanelFacts
<1>3. p = "page" => at # "list"
  BY ViewFacts, ShutFacts
<1> QED BY <1>1, <1>2, <1>3, PanelFacts, ViewFacts

\* The grouping of the list anew loses none.
LEMMA RegroupStands ==
  ASSUME MineInv, NEW row \in MineView, NEW pending, Put("row", Regrouped(row), pending), LoadList,
         row.shown = view["row"].shown, row.of = view["row"].of, row.failed = view["row"].failed,
         row.form.kind = view["row"].form.kind, row.form.typed = view["row"].form.typed,
         NEW q \in Views
  PROVE  FormStands(q)
<1> DEFINE v == Regrouped(row)
<1>1. /\ v \in MineView /\ v.of = row.of /\ v.shown = row.shown
      /\ v = row \/ (v.form = NoForm /\ row.of # "none"
                     /\ GroupOf(listed[row.of]) # GroupOf(stored[row.of].status))
  BY RegroupedFacts
<1>2. Put("row", v, pending)
  OBVIOUS
<1> HIDE DEF v
<1>3. view \in [Views -> MineView] /\ "row" \in Views
  BY DEF MineInv, MineTypes, Views
<1>4. CASE v = row
  <2>1. PanelOf("row", v) = PanelOf("row", view["row"])
    BY <1>1 DEF PanelOf, RowPanel
  <2>2. Stays("row", v)
    BY <2>1, <1>3, <1>4, ViewFacts DEF Stays
  <2> QED BY <2>2, <1>1, <1>2, <1>3, <1>4, PutStands
<1>5. CASE row.of # "none" /\ GroupOf(listed[row.of]) # GroupOf(stored[row.of].status)
  <2>1. row.of \in Own
    BY <1>5 DEF MineView
  <2>2. listed'[row.of] # listed[row.of]
    BY <2>1, <1>5 DEF LoadList
  <2>3. listed' # listed
    BY <2>2
  <2> QED BY <2>3 DEF FormStands
<1> QED BY <1>1, <1>4, <1>5

\* A form is lost to what its owner does only where that closes it.
LEMMA NavigationStands ==
  ASSUME MineInv, NEW t \in Own, toggle(t) \/ OpenModal(t) \/ OpenRoute(t) \/ ClosePage, NEW q \in Views
  PROVE  FormStands(q)
<1>1. view \in [Views -> MineView] /\ "none" \notin Own
  BY MineAssumption DEF MineInv, MineTypes
<1>2. SUFFICES ASSUME view[q].form.typed, view[q].of = view'[q].of PROVE FormStands(q)
  BY DEF FormStands
<1>3. view[q].of \in Own /\ (q = "page" => at # "list")
  BY <1>2, TypedFacts
<1>4. CASE toggle(t)
  <2> DEFINE row == view["row"]
             v == IF row.of = t THEN [row EXCEPT !.of = "none", !.shown = NoDetail]
                  ELSE [row EXCEPT !.of = t]
  <2>1. Put("row", v, sends)
    BY <1>4 DEF toggle
  <2>2. row \in MineView
    BY <1>1 DEF Views
  <2> HIDE DEF row
  <2>3. v \in MineView /\ v.of # row.of
    BY <1>1, <2>2, ShutFacts DEF MineView
  <2> HIDE DEF v
  <2>4. Rendered("row", v).of = v.of
    BY <2>3 DEF Rendered, MineView
  <2>5. view'["row"].of # row.of
    BY <1>1, <2>1, <2>3, <2>4 DEF Put, Views
  <2>6. q # "row"
    BY <1>2, <2>5 DEF row
  <2>7. view'[q] = view[q]
    BY <1>1, <2>1, <2>6 DEF Put
  <2> QED BY <2>7, StandsIfKept
<1>5. CASE OpenModal(t)
  <2>1. at = "list" /\ view' = [view EXCEPT !["page"] = Fresh(t)]
    BY <1>5, OpenModalStep DEF OpenModal
  <2>2. view'[q] = view[q]
    BY <1>1, <1>3, <2>1
  <2> QED BY <2>2, StandsIfKept
<1>6. CASE OpenRoute(t)
  <2>1. view' = [row |-> Shut, page |-> Fresh(t)] /\ t # view["page"].of
    BY <1>6 DEF OpenRoute
  <2>2. view'["row"].of = "none" /\ view'["page"].of = t
    BY <2>1, ShutFacts, FreshFacts
  <2> QED BY <1>1, <1>2, <1>3, <2>1, <2>2 DEF Views
<1>7. CASE ClosePage
  <2> DEFINE v == Regrouped(view["row"])
  <2>1. view' = [row |-> Rendered("row", v), page |-> Shut] /\ LoadList
    BY <1>7 DEF ClosePage
  <2>2. view'["page"].of = "none" /\ view'["row"] = Rendered("row", v)
    BY <2>1, ShutFacts
  <2>3. q = "row"
    BY <1>1, <1>2, <1>3, <2>2 DEF Views
  <2>4. view["row"] \in MineView
    BY <1>1 DEF Views
  <2>5. /\ v.of = view["row"].of /\ v.shown = view["row"].shown
        /\ v = view["row"] \/ GroupOf(listed[view["row"].of]) # GroupOf(stored[view["row"].of].status)
    BY <2>4, RegroupedFacts
  <2> HIDE DEF v
  <2>6. CASE v = view["row"]
    <3>1. Stays("row", v)
      BY <2>6, ViewFacts DEF Views
    <3>2. view'["row"] = view["row"]
      BY <3>1, <2>2, <2>6 DEF Rendered
    <3> QED BY <3>2, <2>3, StandsIfKept
  <2>7. CASE GroupOf(listed[view["row"].of]) # GroupOf(stored[view["row"].of].status)
    <3>1. listed'[view["row"].of] # listed[view["row"].of]
      BY <1>3, <2>1, <2>3, <2>7 DEF LoadList
    <3>2. listed' # listed
      BY <3>1
    <3> QED BY <3>2 DEF FormStands
  <2> QED BY <2>5, <2>6, <2>7
<1> QED BY <1>4, <1>5, <1>6, <1>7

\* What was typed is not thrown away by a refetch, and an edit ends by itself.
LEMMA PageStands ==
  ASSUME MineInv, RefetchPage \/ (\E b \in BOOLEAN : setEditing(b)), NEW q \in Views
  PROVE  FormStands(q)
<1>1. view \in [Views -> MineView] /\ "page" \in Views
  BY DEF MineInv, MineTypes, Views
<1>2. SUFFICES ASSUME view[q].form.typed PROVE FormStands(q)
  BY DEF FormStands
<1>3. CASE RefetchPage
  <2> DEFINE v == [view["page"] EXCEPT !.failed = FALSE]
  <2>1. Put("page", v, sends)
    BY <1>3 DEF RefetchPage
  <2>2. CASE q = "row"
    <3>1. view'[q] = view[q]
      BY <1>1, <2>1, <2>2 DEF Put, Views
    <3> QED BY <3>1, StandsIfKept
  <2>3. CASE q = "page"
    <3>1. view["page"] \in MineView /\ ~view["page"].failed
      BY <1>1, <1>2, <2>3, TypedFacts
    <3>2. view["page"].failed \in BOOLEAN
      BY <3>1 DEF MineView
    <3>3. view["page"].failed = FALSE
      BY <3>1, <3>2, Zenon
    <3>4. v = view["page"]
      BY <3>1, <3>3 DEF MineView
    <3> HIDE DEF v
    <3>5. Stays("page", v)
      BY <1>1, <3>4, ViewFacts
    <3>6. view'["page"] = view["page"]
      BY <1>1, <2>1, <3>4, <3>5 DEF Put, Rendered
    <3> QED BY <2>3, <3>6, StandsIfKept
  <2> QED BY <2>2, <2>3 DEF Views
<1>4. ASSUME NEW b \in BOOLEAN, setEditing(b) PROVE FormStands(q)
  <2> DEFINE page == view["page"]
             v == [page EXCEPT !.editing = b]
  <2>1. Put("page", v, sends) /\ page.editing # b /\ page.shown.status = "Submitted"
    BY <1>4 DEF setEditing
  <2>2. CASE q = "row"
    <3>1. view'[q] = view[q]
      BY <1>1, <2>1, <2>2 DEF Put, Views
    <3> QED BY <3>1, StandsIfKept
  <2>3. CASE q = "page"
    <3>1. /\ page.form.kind \in {"return", "edit"} /\ PanelOf("page", page) = page.form.kind
          /\ page \in MineView
      BY <1>1, <1>2, <2>3, TypedFacts
    <3>2. page.form.kind # "return"
      BY <1>1, <2>1, <3>1, PanelFacts DEF RETURN_STATES
    <3>3. page.form.kind = "edit" /\ page.editing
      BY <1>1, <3>1, <3>2, PanelFacts
    <3> HIDE DEF page
    <3>4. v.editing = b
      BY <3>1 DEF MineView
    <3>5. Rendered("page", v).editing = b
      BY <3>1, <3>4 DEF Rendered, MineView
    <3>6. ~b
      <4>1. page.editing \in BOOLEAN
        BY <3>1 DEF MineView
      <4> QED BY <4>1, <1>4, <2>1, <3>3
    <3>7. view'["page"].editing = b
      BY <1>1, <2>1, <3>5 DEF Put
    <3> QED BY <2>3, <3>3, <3>6, <3>7 DEF FormStands, page
  <2> QED BY <2>2, <2>3 DEF Views
<1> QED BY <1>3, <1>4

\* An answer takes a form away for a reason.
LEMMA AnswerStands ==
  ASSUME MineInv, NEW a \in loads, ShowDetail(a) \/ DetailFails(a), NEW q \in Views
  PROVE  FormStands(q)
<1>1. view \in [Views -> MineView] /\ "none" \notin Own
  BY MineAssumption DEF MineInv, MineTypes
<1>2. SUFFICES ASSUME view[q].form.typed, view[q].of = view'[q].of PROVE FormStands(q)
  BY DEF FormStands
<1> DEFINE old == view[q]
<1>3. /\ old \in MineView /\ old.form.kind \in {"return", "edit"} /\ PanelOf(q, old) = old.form.kind
      /\ old.of \in Own
      /\ q = "page" => ~old.failed
  BY <1>1, <1>2, TypedFacts
<1>4. a \in MineLoad /\ LoadOK(a)
  BY DEF MineInv, MineTypes
<1>5. a.p \in Views /\ a.what \in Detail /\ ~a.over
  BY <1>4 DEF MineLoad, LoadOK
<1>6. a \in loads \ loads'
  BY DEF ShowDetail, DetailFails
<1>7. CASE a.p # q
  <2>1. view'[q] = view[q]
    BY <1>1, <1>7 DEF ShowDetail, DetailFails, Put
  <2> QED BY <2>1, StandsIfKept
<1>8. CASE old.form.kind = "edit"
  BY <1>5, <1>6, <1>8 DEF FormStands
<1>9. CASE a.p = q /\ old.form.kind = "return" /\ ShowDetail(a)
  <2> DEFINE v == [old EXCEPT !.shown = a.what]
  <2>1. Put(q, v, sends)
    BY <1>9 DEF ShowDetail
  <2>2. CASE a.what.id # old.of \/ a.what.status \notin RETURN_STATES
    BY <1>6, <1>9, <2>2 DEF FormStands
  <2>3. CASE a.what.id = old.of /\ a.what.status \in RETURN_STATES
    <3>1. NoDetail.status = "none"
      BY ShutFacts
    <3>2. a.what # NoDetail
      BY <2>3, <3>1 DEF RETURN_STATES
    <3> HIDE DEF old
    <3>3. /\ v.shown = a.what /\ v.of = old.of /\ v.failed = old.failed /\ v.form = old.form
          /\ v \in MineView
      BY <1>3, <1>5 DEF MineView
    <3> HIDE DEF v
    <3>4. PanelOf(q, v) = "return"
      BY <1>3, <2>3, <3>2, <3>3 DEF PanelOf, RowPanel, PagePanel, Views, RETURN_STATES
    <3>5. Stays(q, v)
      BY <1>9, <3>3, <3>4 DEF Stays
    <3> QED BY <2>1, <3>3, <3>5, PutStands DEF old
  <2> QED BY <2>2, <2>3
<1>10. CASE a.p = q /\ old.form.kind = "return" /\ DetailFails(a)
  <2> DEFINE of == IF a.why = "toggle" THEN "none" ELSE old.of
             broken == old.failed \/ a.p = "page"
             v == [old EXCEPT !.of = of, !.failed = broken]
  <2>1. Put(q, v, sends)
    BY <1>10 DEF DetailFails
  <2>2. of \in Own \cup {"none"} /\ broken \in BOOLEAN
    BY <1>3 DEF MineView
  <2>3. (broken /\ q = "page") \/ (broken <=> old.failed)
    BY <1>10
  <2>4. q = "page" => broken
    BY <1>10
  <2> HIDE DEF old, broken, of
  <2>5. v \in MineView /\ v.of = of /\ v.shown = old.shown /\ v.form = old.form /\ v.failed = broken
    BY <1>3, <2>2 DEF MineView
  <2> HIDE DEF v
  <2>6. Rendered(q, v).of = of /\ Rendered(q, v).failed = broken
    BY <2>5 DEF Rendered, MineView
  <2>7. view'[q].of = of /\ view'[q].failed = broken
    BY <1>1, <2>1, <2>6 DEF Put
  <2>8. CASE q = "page"
    BY <1>6, <1>10, <2>4, <2>7, <2>8 DEF FormStands, old
  <2>9. CASE q = "row"
    <3>1. v.of = old.of
      BY <1>2, <2>5, <2>7 DEF old
    <3>2. PanelOf(q, v) = PanelOf(q, old)
      BY <2>5, <2>9, <3>1 DEF PanelOf, RowPanel
    <3>3. Stays(q, v)
      BY <1>3, <2>5, <3>2 DEF Stays
    <3> QED BY <2>1, <2>5, <3>3, PutStands DEF old
  <2> QED BY <2>8, <2>9 DEF Views
<1> QED BY <1>3, <1>7, <1>8, <1>9, <1>10

\* Filling in a form loses none.
LEMMA FillingStands ==
  ASSUME MineInv, NEW p \in Views, NEW f \in MineForm, f.typed = view[p].form.typed \/ f.typed = TRUE,
         view' = [view EXCEPT ![p].form = f], NEW q \in Views
  PROVE  FormStands(q)
<1>1. view \in [Views -> MineView]
  BY DEF MineInv, MineTypes
<1>2. CASE q # p
  BY <1>1, <1>2, StandsIfKept
<1>3. CASE q = p
  <2>1. view'[p].form = f
    BY <1>1 DEF MineView
  <2>2. CASE f.typed = TRUE
    BY <1>3, <2>1, <2>2 DEF FormStands
  <2> QED BY <1>3, <2>1, <2>2, StandsIfKept
<1> QED BY <1>2, <1>3

\* Typing and sending lose none.
LEMMA FormsStand ==
  ASSUME MineInv, NEW p \in Views,
         Type(p) \/ (\E kind \in {"receipt", "save", "edit"} : Submits(p, kind)), NEW q \in Views
  PROVE  FormStands(q)
<1> DEFINE g == view[p].form
<1>1. view \in [Views -> MineView] /\ edits \in Nat
  BY DEF MineInv, MineTypes
<1>2. g \in MineForm
  BY <1>1 DEF MineView
<1>3. CASE Type(p)
  <2> DEFINE u == [g.text EXCEPT !.n = edits + 1]
             f == [g EXCEPT !.text = u, !.typed = TRUE]
  <2>1. view' = [view EXCEPT ![p].form = f]
    BY <1>1, <1>3 DEF Type
  <2> HIDE DEF g
  <2>2. g.text \in [of : Own \cup {"none"}, n : Nat]
    BY <1>2 DEF MineForm
  <2>3. u \in [of : Own \cup {"none"}, n : Nat]
    BY <1>1, <2>2
  <2> HIDE DEF u
  <2>4. f \in MineForm /\ f.typed = TRUE
    BY <1>2, <2>3 DEF MineForm
  <2> HIDE DEF f
  <2> QED BY <2>1, <2>4, FillingStands
<1>4. CASE \E kind \in {"receipt", "save", "edit"} : Submits(p, kind)
  <2> DEFINE f == [g EXCEPT !.busy = TRUE]
  <2>1. view' = [view EXCEPT ![p].form = f]
    BY <1>1, <1>4 DEF Submits
  <2> HIDE DEF g
  <2>2. f \in MineForm /\ f.typed = g.typed
    BY <1>2 DEF MineForm
  <2> HIDE DEF f
  <2> QED BY <2>1, <2>2, FillingStands DEF g
<1> QED BY <1>3, <1>4

\* The answer that was awaited may take its own form.
LEMMA ToldStands ==
  ASSUME MineInv, NEW s \in sends, Told(s), NEW q \in Views PROVE FormStands(q)
<1>1. view \in [Views -> MineView] /\ s.p \in Views
  BY DEF MineInv, MineTypes, MineSend
<1>2. CASE s.home # "form"
  <2>1. view' = view
    BY <1>2 DEF Told
  <2> QED BY <2>1, StandsIfKept
<1>3. CASE s.home = "form"
  <2> DEFINE g == view[s.p].form
             f == [g EXCEPT !.busy = FALSE]
  <2>1. view' = [view EXCEPT ![s.p].form = f]
    BY <1>1, <1>3 DEF Told
  <2>2. g \in MineForm
    BY <1>1 DEF MineView
  <2> HIDE DEF g
  <2>3. f \in MineForm /\ f.typed = g.typed
    BY <2>2 DEF MineForm
  <2> HIDE DEF f
  <2> QED BY <1>1, <2>1, <2>3, FillingStands DEF g
<1> QED BY <1>2, <1>3

\* The end of a call takes no other form than its own.
LEMMA OnDoneStands ==
  ASSUME MineInv, NEW s \in sends, OnDone(s, sends \ {s}), NEW q \in Views PROVE FormStands(q)
<1>1. view \in [Views -> MineView] /\ {"row", "page"} = Views
  BY DEF MineInv, MineTypes, Views
<1>2. CASE UNCHANGED view
  BY <1>2, StandsIfKept
<1>3. CASE /\ s.p = "row" /\ LoadList
           /\ Put("row", Regrouped([view["row"] EXCEPT !.form.busy = @ /\ s.home # "form"]), sends \ {s})
  <2> DEFINE old == view["row"]
             busy == old.form.busy /\ s.home # "form"
             f == [old.form EXCEPT !.busy = busy]
             row == [old EXCEPT !.form = f]
  <2>1. old \in MineView /\ old.form \in MineForm
    BY <1>1 DEF MineView
  <2>2. busy \in BOOLEAN
    BY <2>1 DEF MineForm
  <2>3. [old EXCEPT !.form.busy = @ /\ s.home # "form"] = row
    OBVIOUS
  <2>4. Put("row", Regrouped(row), sends \ {s})
    BY <1>3, <2>3
  <2> HIDE DEF old, busy
  <2>5. f \in MineForm /\ f.kind = old.form.kind /\ f.typed = old.form.typed
    BY <2>1, <2>2 DEF MineForm
  <2> HIDE DEF f
  <2>6. row \in MineView /\ row.shown = old.shown /\ row.of = old.of /\ row.failed = old.failed /\ row.form = f
    BY <2>1, <2>5 DEF MineView
  <2> HIDE DEF row
  <2> QED BY <1>3, <2>4, <2>5, <2>6, RegroupStands DEF old
<1>4. CASE /\ s.p = "page"
           /\ Put("page", [view["page"] EXCEPT !.failed = FALSE, !.editing = @ /\ s.kind # "edit",
                                               !.form.busy = @ /\ s.home # "form"], sends \ {s})
  <2> SUFFICES ASSUME view[q].form.typed PROVE FormStands(q)
    BY DEF FormStands
  <2> DEFINE old == view["page"]
             busy == old.form.busy /\ s.home # "form"
             editing == old.editing /\ s.kind # "edit"
             f == [old.form EXCEPT !.busy = busy]
             v == [old EXCEPT !.failed = FALSE, !.editing = editing, !.form = f]
  <2>1. old \in MineView /\ old.form \in MineForm
    BY <1>1 DEF MineView
  <2>2. busy \in BOOLEAN /\ editing \in BOOLEAN
    BY <2>1 DEF MineForm, MineView
  <2>3. [view["page"] EXCEPT !.failed = FALSE, !.editing = @ /\ s.kind # "edit",
                             !.form.busy = @ /\ s.home # "form"] = v
    OBVIOUS
  <2>4. Put("page", v, sends \ {s})
    BY <1>4, <2>3
  <2>5. s.kind # "edit" => editing = old.editing
    <3>1. old.editing \in BOOLEAN
      BY <2>1 DEF MineView
    <3> QED BY <3>1, Zenon
  <2>6. s.kind = "edit" => editing = FALSE
    OBVIOUS
  <2> HIDE DEF busy, editing
  <2>7. f \in MineForm /\ f.kind = old.form.kind /\ f.typed = old.form.typed
    <3> HIDE DEF old
    <3> QED BY <2>1, <2>2 DEF MineForm
  <2> HIDE DEF f
  <2>8. /\ v \in MineView /\ v.shown = old.shown /\ v.failed = FALSE /\ v.editing = editing /\ v.form = f
        /\ v.of = old.of
    <3> HIDE DEF old
    <3> QED BY <2>1, <2>2, <2>7 DEF MineView
  <2> HIDE DEF v
  <2>9. CASE q # "page"
    <3>1. view'[q] = view[q]
      BY <1>1, <2>4, <2>9 DEF Put
    <3> QED BY <3>1, StandsIfKept
  <2>10. CASE q = "page"
    <3>1. /\ old.form.kind \in {"return", "edit"} /\ PagePanel(old) = old.form.kind
          /\ ~old.failed /\ old.shown # NoDetail
      BY <1>1, <2>10, TypedFacts DEF PanelOf
    <3>2. CASE old.form.kind = "edit" /\ s.kind = "edit"
      <4>1. old.editing
        BY <1>1, <2>1, <3>1, <3>2, PanelFacts DEF PanelOf
      <4>2. Rendered("page", v).editing = FALSE
        BY <2>6, <2>8, <3>2 DEF Rendered, MineView
      <4>3. view'["page"].editing = FALSE
        BY <1>1, <2>4, <4>2 DEF Put
      <4> QED BY <2>10, <3>2, <4>1, <4>3 DEF FormStands
    <3>3. CASE old.form.kind = "return" \/ s.kind # "edit"
      <4> HIDE DEF old
      <4>1. old.shown.status \in RETURN_STATES \/ (s.kind # "edit")
        BY <1>1, <2>1, <3>1, <3>3, PanelFacts DEF PanelOf
      <4>2. PagePanel(v) = PagePanel(old)
        BY <2>5, <2>8, <3>1, <4>1 DEF PagePanel, RETURN_STATES
      <4>3. Stays("page", v)
        BY <2>7, <2>8, <3>1, <4>2 DEF Stays, PanelOf
      <4> QED BY <1>1, <2>4, <2>7, <2>8, <4>3, PutStands DEF old
    <3> QED BY <3>1, <3>2, <3>3
  <2> QED BY <2>9, <2>10
<1> QED BY <1>2, <1>3, <1>4 DEF OnDone

\* No step takes a typed form away but as FormStands allows.
LEMMA FormsStandStep ==
  MineInv /\ [MineNext]_mineVars => [\A p \in {"row", "page"} : FormStands(p)]_mineVars
<1> SUFFICES ASSUME MineInv, MineNext, NEW q \in Views PROVE FormStands(q)
  BY DEF Views
<1>1. CASE UNCHANGED view
  BY <1>1, StandsIfKept
<1>2. ASSUME NEW t \in Own, toggle(t) \/ OpenModal(t) \/ OpenRoute(t) PROVE FormStands(q)
  BY <1>2, NavigationStands
<1>3. CASE refetch
  <2>1. view["row"] \in MineView
    BY ViewFacts DEF Views
  <2> QED BY <2>1, <1>3, RegroupStands DEF refetch
<1>4. CASE ClosePage
  <2>1. CASE Own = {}
    <3>1. CASE view[q].form.typed
      BY <2>1, <3>1, TypedFacts
    <3> QED BY <3>1 DEF FormStands
  <2>2. CASE Own # {}
    BY <1>4, <2>2, NavigationStands
  <2> QED BY <2>1, <2>2
<1>5. CASE RefetchPage \/ \E b \in BOOLEAN : setEditing(b)
  BY <1>5, PageStands
<1>6. ASSUME NEW a \in loads, ShowDetail(a) \/ DetailFails(a) PROVE FormStands(q)
  BY <1>6, AnswerStands
<1>7. ASSUME NEW p \in {"row", "page"}, Type(p) \/ confirm(p) \/ saveAndResubmit(p) PROVE FormStands(q)
  BY <1>7, FormsStand DEF confirm, saveAndResubmit, Views
<1>8. CASE save
  BY <1>8, FormsStand DEF save, Views
<1>9. ASSUME NEW s \in sends, Handle(s) \/ Miss(s) \/ Settle(s) PROVE FormStands(q)
  <2>1. CASE UNCHANGED view
    BY <2>1, StandsIfKept
  <2>2. CASE Told(s)
    BY <2>2, ToldStands
  <2>3. CASE OnDone(s, sends \ {s})
    BY <2>3, OnDoneStands
  <2>4. CASE Put("row", Regrouped(view["row"]), sends \ {s}) /\ LoadList
    <3>1. view["row"] \in MineView
      BY ViewFacts DEF Views
    <3> QED BY <2>4, <3>1, RegroupStands
  <2> QED BY <1>9, <2>1, <2>2, <2>3, <2>4 DEF Handle, Miss, Settle, AfterSave, ResubmitAnyway
<1> QED
  <2>1. MineNext => \/ UNCHANGED view
                    \/ (\E t \in Own : toggle(t) \/ OpenModal(t) \/ OpenRoute(t))
                    \/ refetch \/ ClosePage
                    \/ (RefetchPage \/ \E b \in BOOLEAN : setEditing(b))
                    \/ (\E a \in loads : ShowDetail(a) \/ DetailFails(a))
                    \/ (\E p \in {"row", "page"} : Type(p) \/ confirm(p) \/ saveAndResubmit(p))
                    \/ save
                    \/ (\E s \in sends : Handle(s) \/ Miss(s) \/ Settle(s))
    BY DEF MineNext, DeskMoves, cancelTicket
  <2> QED BY <2>1, <1>1, <1>2, <1>3, <1>4, <1>5, <1>6, <1>7, <1>8, <1>9

-----------------------------------------------------------------------------
(***************************************************************************)
(* The create form.                                                        *)
(***************************************************************************)
Nos == {"none", "N/A", "typed", "assigned"}
DraftForm == [draft : Nat, type : Types, no : Nos, hasty : BOOLEAN]
FiledTicket == [id : Nat, draft : Nat, type : Types, no : Nos, day : Nat,
                status : {"Submitted", "Completed", "Cancelled"}]

DraftTypes ==
  /\ tickets \subseteq FiledTicket /\ form \in DraftForm
  /\ opened \in BOOLEAN /\ catalogue \in BOOLEAN /\ wasLocked \in BOOLEAN
  /\ post \in [at : {"none", "asked", "created"}, form : DraftForm]
  /\ clones \subseteq [type : Types, no : Nos]
  /\ today \in Nat /\ typed \in Nat /\ drafts \in Nat /\ lost \in Nat

\* What the fieldset remembers is how its field is, and a placeholder that is not
\* due is left over from haste, be the dialog open or not.
LockInv ==
  /\ opened => wasLocked = contractLocked(catalogue, form)
  /\ form.no = "N/A" /\ FlowOfType(form.type) # "Contract" => form.hasty

\* What is posted and what was filed has a number, or the placeholder in its place.
NumbersInv ==
  /\ post.at = "asked" => post.form.no # "none" \/ FlowOfType(post.form.type) = "Contract"
  /\ \A t \in tickets : t.no # "none" /\ (FlowOfType(t.type) = "Contract" => t.no = "N/A")

\* Tickets are numbered in their order, and drafts are too.
FiledDrafts == {t.draft : t \in tickets}
IdsInv ==
  /\ IsFiniteSet(tickets)
  /\ \A t \in tickets : t.id <= Cardinality(tickets)
  /\ \A t, u \in tickets : t.id = u.id => t = u
  /\ \A d \in FiledDrafts \cup {form.draft, post.form.draft} : d <= drafts

\* A draft that was filed and may be filed again was answered by a loss.
TwinsInv ==
  /\ TwinsOnlyByLoss
  /\ \/ post.at # "created" /\ form.draft \in FiledDrafts
     \/ post.at = "asked" /\ post.form.draft \in FiledDrafts
     => Cardinality(tickets) + 1 <= Cardinality(FiledDrafts) + lost

DraftInv == /\ DraftTypes /\ LockInv /\ NumbersInv /\ IdsInv /\ TwinsInv

-----------------------------------------------------------------------------
\* When the field for the number is locked.
LEMMA LockFacts ==
  ASSUME NEW known \in BOOLEAN, NEW f
  PROVE  /\ contractLocked(known, f) \in BOOLEAN
         /\ contractLocked(known, f) => FlowOfType(f.type) = "Contract"
         /\ FlowOfType(f.type) = "Contract" => contractLocked(known, f) \/ KnownFlow(known, f.type) = "none"
         /\ KnownFlow(known, f.type) = "none" => FlowOfType(f.type) = "Contract" \/ f.type = "none"
BY DEF contractLocked, KnownFlow, FlowOfType

\* An empty form.
LEMMA EmptyFacts ==
  ASSUME NEW n \in Nat
  PROVE  EMPTY(n) \in DraftForm /\ EMPTY(n).draft = n /\ EMPTY(n).no = "none"
BY DEF EMPTY, DraftForm, Types, Nos

\* The effect of the fieldset on a draft.
LEMMA EffectFacts ==
  ASSUME NEW known \in BOOLEAN, NEW f \in DraftForm, NEW was \in BOOLEAN
  PROVE  LET g == LockEffect(known, f, was)
         IN  /\ g \in DraftForm /\ g.draft = f.draft /\ g.type = f.type
             /\ contractLocked(known, g) = contractLocked(known, f)
             /\ g.no = "N/A" /\ FlowOfType(g.type) # "Contract" =>
                  g.no = f.no /\ g.hasty = f.hasty /\ ~was
<1> DEFINE on == [f EXCEPT !.no = "N/A", !.hasty = FALSE]
           off == [f EXCEPT !.no = "none", !.hasty = FALSE]
           g == LockEffect(known, f, was)
<1>1. on \in DraftForm /\ on.draft = f.draft /\ on.type = f.type /\ on.no = "N/A"
  BY DEF DraftForm, Nos
<1>2. off \in DraftForm /\ off.draft = f.draft /\ off.type = f.type /\ off.no = "none"
  BY DEF DraftForm, Nos
<1>3. /\ contractLocked(known, f) /\ ~was => g = on
      /\ ~contractLocked(known, f) /\ was => g = off
      /\ contractLocked(known, f) = was => g = f
  BY LockFacts DEF LockEffect
<1>4. contractLocked(known, f) => FlowOfType(f.type) = "Contract"
  BY LockFacts
<1> HIDE DEF on, off, g
<1>5. g \in DraftForm /\ g.draft = f.draft /\ g.type = f.type
  BY <1>1, <1>2, <1>3, LockFacts
<1>6. contractLocked(known, g) = contractLocked(known, f)
  BY <1>5 DEF contractLocked
<1>7. g.no = "N/A" /\ FlowOfType(g.type) # "Contract" => g.no = f.no /\ g.hasty = f.hasty /\ ~was
  BY <1>1, <1>2, <1>3, <1>4, LockFacts
<1> QED
  BY <1>5, <1>6, <1>7 DEF g

\* What is on the form, whatever brought it there.
FormInv == DraftTypes /\ LockInv /\ NumbersInv

\* A render leaves the number and the lock in order.
LEMMA RenderKeeps ==
  ASSUME FormInv, NEW known \in BOOLEAN, NEW f \in DraftForm,
         f.no = "N/A" /\ FlowOfType(f.type) # "Contract" /\ ~wasLocked => f.hasty,
         Render(known, f)
  PROVE  form' \in DraftForm /\ wasLocked' \in BOOLEAN /\ catalogue' \in BOOLEAN /\ LockInv'
         /\ form'.draft = f.draft
<1>1. form' = LockEffect(known, f, wasLocked) /\ wasLocked' = contractLocked(known, f)
      /\ catalogue' = known /\ wasLocked \in BOOLEAN
  BY DEF Render, FormInv, DraftTypes
<1>2. /\ form' \in DraftForm /\ form'.draft = f.draft
      /\ contractLocked(known, form') = contractLocked(known, f)
      /\ form'.no = "N/A" /\ FlowOfType(form'.type) # "Contract" =>
           f.no = "N/A" /\ f.hasty = form'.hasty /\ ~wasLocked /\ form'.type = f.type
  BY <1>1, EffectFacts
<1>3. contractLocked(catalogue, form)' = contractLocked(known, form')
  BY <1>1 DEF contractLocked, KnownFlow, FlowOfType
<1>4. form'.no = "N/A" /\ FlowOfType(form'.type) # "Contract" => form'.hasty
  BY <1>2
<1> QED
  BY <1>1, <1>2, <1>3, <1>4, LockFacts DEF LockInv, FlowOfType

\* ... the opening of the dialog does.
LEMMA MountKeeps ==
  ASSUME NEW f \in DraftForm, Mount(f),
         f.no = "N/A" /\ FlowOfType(f.type) # "Contract" => f.hasty
  PROVE  /\ form' \in DraftForm /\ wasLocked' \in BOOLEAN /\ catalogue' \in BOOLEAN /\ LockInv'
         /\ opened' \in BOOLEAN /\ form'.draft = f.draft
<1>1. form' = LockEffect(FALSE, f, FALSE) /\ wasLocked' = contractLocked(FALSE, f)
      /\ catalogue' = FALSE /\ opened' = TRUE
  BY DEF Mount
<1>2. /\ form' \in DraftForm /\ form'.draft = f.draft
      /\ contractLocked(FALSE, form') = contractLocked(FALSE, f)
      /\ form'.no = "N/A" /\ FlowOfType(form'.type) # "Contract" =>
           f.no = "N/A" /\ f.hasty = form'.hasty /\ form'.type = f.type
  BY <1>1, EffectFacts
<1>3. contractLocked(catalogue, form)' = contractLocked(FALSE, form')
  BY <1>1 DEF contractLocked, KnownFlow, FlowOfType
<1>4. form'.no = "N/A" /\ FlowOfType(form'.type) # "Contract" => form'.hasty
  BY <1>2
<1>5. catalogue' \in BOOLEAN /\ opened' \in BOOLEAN
  BY <1>1, Zenon
<1> QED
  BY <1>1, <1>2, <1>3, <1>4, <1>5, LockFacts DEF LockInv, FlowOfType

\* ... and its closing.
LEMMA UnmountKeeps ==
  ASSUME Unmount, form'.no = "N/A" /\ FlowOfType(form'.type) # "Contract" => form'.hasty
  PROVE  LockInv' /\ opened' \in BOOLEAN /\ wasLocked' \in BOOLEAN /\ catalogue' \in BOOLEAN
<1>1. opened' \in BOOLEAN /\ wasLocked' \in BOOLEAN /\ catalogue' \in BOOLEAN
  BY Zenon DEF Unmount
<1>2. LockInv'
  BY DEF Unmount, LockInv, FlowOfType
<1> QED
  BY <1>1, <1>2

\* What is filed has a number.
LEMMA FiledFacts ==
  ASSUME DraftTypes, IsFiniteSet(tickets), NEW f \in DraftForm,
         f.no # "none" \/ FlowOfType(f.type) = "Contract"
  PROVE  /\ Filed(f) \in FiledTicket
         /\ Filed(f).id = Cardinality(tickets) + 1 /\ Filed(f).draft = f.draft
         /\ Filed(f).no # "none" /\ (FlowOfType(Filed(f).type) = "Contract" => Filed(f).no = "N/A")
<1>0. Cardinality(tickets) \in Nat
  BY FS_CardinalityType
<1>1. Cardinality(tickets) + 1 \in Nat /\ today \in Nat
  <2>1. Cardinality(tickets) + 1 \in Nat
    BY <1>0
  <2> QED
    BY <2>1, Zenon DEF DraftTypes
<1>2. normalizeContractNo(f.no, FlowOfType(f.type)) \in Nos \ {"none"}
  BY DEF normalizeContractNo, DraftForm, Nos
<1>3. FlowOfType(f.type) = "Contract" => normalizeContractNo(f.no, FlowOfType(f.type)) = "N/A"
  BY DEF normalizeContractNo
<1>4. f.draft \in Nat /\ f.type \in Types
  BY DEF DraftForm
<1> QED
  BY <1>1, <1>2, <1>3, <1>4 DEF Filed, FiledTicket

\* A ticket that moves keeps all but its status.
LEMMA MovedFacts ==
  ASSUME NEW t \in FiledTicket, NEW status \in {"Completed", "Cancelled"}
  PROVE  LET u == [t EXCEPT !.status = status]
         IN  /\ u \in FiledTicket /\ u.id = t.id /\ u.draft = t.draft /\ u.type = t.type
             /\ u.no = t.no
BY DEF FiledTicket

\* Every step keeps the form in order.
LEMMA FormStep ==
  ASSUME FormInv, IsFiniteSet(tickets), [DraftNext]_draftVars
  PROVE  FormInv'
<1>0. /\ DraftTypes /\ LockInv /\ NumbersInv /\ today \in Nat /\ typed \in Nat /\ drafts \in Nat
      /\ lost \in Nat /\ form \in DraftForm /\ wasLocked \in BOOLEAN /\ catalogue \in BOOLEAN
      /\ opened \in BOOLEAN /\ post \in [at : {"none", "asked", "created"}, form : DraftForm]
  BY DEF FormInv, DraftTypes
<1>1. CASE openForm
  <2>1. Mount(form) /\ UNCHANGED <<tickets, post, clones, today, typed, drafts, lost>>
    BY <1>1 DEF openForm
  <2>2. /\ form' \in DraftForm /\ wasLocked' \in BOOLEAN /\ catalogue' \in BOOLEAN /\ LockInv'
        /\ opened' \in BOOLEAN
    BY <1>0, <2>1, MountKeeps DEF LockInv
  <2> QED
    BY <1>0, <2>1, <2>2 DEF FormInv, DraftTypes, NumbersInv
<1>2. CASE close
  <2>1. Unmount /\ UNCHANGED <<tickets, form, post, clones, today, typed, drafts, lost>>
    BY <1>2 DEF close
  <2>2. LockInv' /\ opened' \in BOOLEAN /\ wasLocked' \in BOOLEAN /\ catalogue' \in BOOLEAN
    BY <1>0, <2>1, UnmountKeeps DEF LockInv
  <2> QED
    BY <1>0, <2>1, <2>2 DEF FormInv, DraftTypes, NumbersInv
<1>3. CASE discard
  <2>1. /\ Unmount /\ UNCHANGED <<tickets, post, clones, today, typed, lost>>
        /\ drafts' = drafts + 1 /\ form' = EMPTY(drafts')
    BY <1>3 DEF discard, NewDraft
  <2>2. drafts' \in Nat
    BY <1>0, <2>1
  <2>3. form' \in DraftForm /\ form'.no = "none"
    BY <2>1, <2>2, EmptyFacts
  <2>4. LockInv' /\ opened' \in BOOLEAN /\ wasLocked' \in BOOLEAN /\ catalogue' \in BOOLEAN
    BY <2>1, <2>3, UnmountKeeps
  <2> QED
    BY <1>0, <2>1, <2>2, <2>3, <2>4 DEF FormInv, DraftTypes, NumbersInv
<1>4. CASE CatalogueLoads
  <2>1. Render(TRUE, form) /\ UNCHANGED <<tickets, opened, post, clones, today, typed, drafts, lost>>
    BY <1>4 DEF CatalogueLoads
  <2>2. form' \in DraftForm /\ wasLocked' \in BOOLEAN /\ catalogue' \in BOOLEAN /\ LockInv'
    BY <1>0, <2>1, RenderKeeps DEF LockInv
  <2> QED
    BY <1>0, <2>1, <2>2 DEF FormInv, DraftTypes, NumbersInv
<1>5. CASE \E type \in Types : Choose(type)
  <2>1. PICK type \in Types : Choose(type)
    BY <1>5
  <2> DEFINE f == [form EXCEPT !.type = type, !.hasty = @ \/ KnownFlow(catalogue, form.type) = "none"]
  <2>2. /\ opened /\ Render(catalogue, f) /\ typed' = typed + 1
        /\ UNCHANGED <<tickets, opened, post, clones, today, drafts, lost>>
    BY <2>1 DEF Choose, Typing
  <2>3. ASSUME NEW b \in BOOLEAN
        PROVE  LET g == [form EXCEPT !.type = type, !.hasty = b]
               IN  g \in DraftForm /\ g.no = form.no /\ g.type = type /\ g.hasty = b
    BY <1>0 DEF DraftForm
  <2>4. /\ f \in DraftForm /\ f.no = form.no /\ f.type = type
        /\ f.hasty = (form.hasty \/ KnownFlow(catalogue, form.type) = "none")
    BY <2>3
  <2>5. f.no = "N/A" /\ ~wasLocked => f.hasty
    <3> SUFFICES ASSUME f.no = "N/A", ~wasLocked PROVE form.hasty \/ KnownFlow(catalogue, form.type) = "none"
      BY <2>4
    <3>1. ~contractLocked(catalogue, form) /\ form.no = "N/A"
      BY <1>0, <2>2, <2>4 DEF LockInv
    <3> QED
      BY <1>0, <3>1, LockFacts DEF LockInv
  <2> HIDE DEF f
  <2>6. form' \in DraftForm /\ wasLocked' \in BOOLEAN /\ catalogue' \in BOOLEAN /\ LockInv'
    BY <1>0, <2>2, <2>4, <2>5, RenderKeeps
  <2> QED
    BY <1>0, <2>2, <2>6 DEF FormInv, DraftTypes, NumbersInv
<1>6. CASE setContractNo
  <2>1. /\ form' = [form EXCEPT !.no = "typed"] /\ typed' = typed + 1
        /\ UNCHANGED <<tickets, opened, catalogue, wasLocked, post, clones, today, drafts, lost>>
    BY <1>6 DEF setContractNo, Typing
  <2>2. form' \in DraftForm /\ form'.no = "typed" /\ form'.type = form.type
    BY <1>0, <2>1 DEF DraftForm, Nos
  <2>3. LockInv'
    BY <1>0, <2>1, <2>2 DEF LockInv, contractLocked, KnownFlow, FlowOfType
  <2> QED
    BY <1>0, <2>1, <2>2, <2>3 DEF FormInv, DraftTypes, NumbersInv
<1>7. CASE submit
  <2>1. /\ form.no # "none" \/ contractLocked(catalogue, form)
        /\ post' = [at |-> "asked", form |-> form]
        /\ UNCHANGED <<tickets, form, opened, catalogue, wasLocked, clones, today, typed, drafts, lost>>
    BY <1>7 DEF submit
  <2>2. NumbersInv'
    BY <1>0, <2>1, LockFacts DEF NumbersInv, FlowOfType
  <2>3. LockInv'
    BY <1>0, <2>1 DEF LockInv, contractLocked, KnownFlow, FlowOfType
  <2> QED
    BY <1>0, <2>1, <2>2, <2>3 DEF FormInv, DraftTypes
<1>8. CASE create
  <2>1. /\ post.at = "asked" /\ tickets' = tickets \cup {Filed(post.form)}
        /\ post' = [post EXCEPT !.at = "created"]
        /\ UNCHANGED <<form, opened, catalogue, wasLocked, clones, today, typed, drafts, lost>>
    BY <1>8 DEF create
  <2>2. post.form \in DraftForm /\ (post.form.no # "none" \/ FlowOfType(post.form.type) = "Contract")
    BY <1>0, <2>1 DEF NumbersInv
  <2>3. /\ Filed(post.form) \in FiledTicket /\ Filed(post.form).no # "none"
        /\ FlowOfType(Filed(post.form).type) = "Contract" => Filed(post.form).no = "N/A"
    BY <1>0, <2>2, FiledFacts
  <2>4. post' \in [at : {"none", "asked", "created"}, form : DraftForm] /\ post'.at = "created"
    BY <1>0, <2>1
  <2>5. NumbersInv'
    BY <1>0, <2>1, <2>3, <2>4 DEF NumbersInv, FlowOfType
  <2>6. LockInv'
    BY <1>0, <2>1 DEF LockInv, contractLocked, KnownFlow, FlowOfType
  <2> QED
    BY <1>0, <2>1, <2>3, <2>4, <2>5, <2>6 DEF FormInv, DraftTypes
<1>9. CASE Created
  <2>1. /\ Unmount /\ UNCHANGED <<tickets, clones, today, typed, lost>>
        /\ drafts' = drafts + 1 /\ form' = EMPTY(drafts') /\ post' = NoPost
    BY <1>9 DEF Created, NewDraft
  <2>2. drafts' \in Nat
    BY <1>0, <2>1
  <2>3. form' \in DraftForm /\ form'.no = "none"
    BY <2>1, <2>2, EmptyFacts
  <2>4. LockInv' /\ opened' \in BOOLEAN /\ wasLocked' \in BOOLEAN /\ catalogue' \in BOOLEAN
    BY <2>1, <2>3, UnmountKeeps
  <2>5. NoPost \in [at : {"none", "asked", "created"}, form : DraftForm] /\ NoPost.at = "none"
    BY EmptyFacts DEF NoPost
  <2> QED
    BY <1>0, <2>1, <2>2, <2>3, <2>4, <2>5 DEF FormInv, DraftTypes, NumbersInv
<1>10. CASE CreateFails
  <2>1. /\ post' = NoPost /\ lost' = lost + 1
        /\ UNCHANGED <<tickets, form, opened, catalogue, wasLocked, clones, today, typed, drafts>>
    BY <1>10 DEF CreateFails
  <2>2. NoPost \in [at : {"none", "asked", "created"}, form : DraftForm] /\ NoPost.at = "none"
    BY EmptyFacts DEF NoPost
  <2>3. LockInv'
    BY <1>0, <2>1 DEF LockInv, contractLocked, KnownFlow, FlowOfType
  <2> QED
    BY <1>0, <2>1, <2>2, <2>3 DEF FormInv, DraftTypes, NumbersInv
<1>11. CASE \E t \in tickets : clone(t)
  <2>1. PICK t \in tickets : clone(t)
    BY <1>11
  <2>2. UNCHANGED <<tickets, form, opened, catalogue, wasLocked, post, today, typed, drafts, lost>>
    BY <2>1 DEF clone
  <2>3. PICK no \in {t.no, "assigned"} : clones' = clones \cup {[type |-> t.type, no |-> no]}
    BY <2>1 DEF clone
  <2>4. t.type \in Types /\ no \in Nos
    BY <1>0 DEF DraftTypes, FiledTicket, Nos
  <2>5. clones' \subseteq [type : Types, no : Nos]
    BY <1>0, <2>3, <2>4 DEF DraftTypes
  <2>6. LockInv'
    BY <1>0, <2>2 DEF LockInv, contractLocked, KnownFlow, FlowOfType
  <2> QED
    BY <1>0, <2>2, <2>5, <2>6 DEF FormInv, DraftTypes, NumbersInv
<1>12. CASE \E t \in tickets, status \in {"Completed", "Cancelled"} : Move(t, status)
  <2>1. PICK t \in tickets, status \in {"Completed", "Cancelled"} : Move(t, status)
    BY <1>12
  <2> DEFINE u == [t EXCEPT !.status = status]
  <2>2. /\ tickets' = (tickets \ {t}) \cup {u}
        /\ UNCHANGED <<form, opened, catalogue, wasLocked, post, clones, today, typed, drafts, lost>>
    BY <2>1 DEF Move
  <2>3. u \in FiledTicket /\ u.type = t.type /\ u.no = t.no
    BY <1>0, MovedFacts DEF DraftTypes
  <2> HIDE DEF u
  <2>4. NumbersInv'
    BY <1>0, <2>2, <2>3 DEF NumbersInv, FlowOfType
  <2>5. LockInv'
    BY <1>0, <2>2 DEF LockInv, contractLocked, KnownFlow, FlowOfType
  <2> QED
    BY <1>0, <2>2, <2>3, <2>4, <2>5 DEF FormInv, DraftTypes
<1>13. CASE \E t \in clones : openCreateFormWith(t)
  <2>1. PICK t \in clones : openCreateFormWith(t)
    BY <1>13
  <2> DEFINE seed == [EMPTY(drafts') EXCEPT !.type = t.type, !.no = t.no,
                        !.hasty = t.no = "N/A" /\ FlowOfType(t.type) # "Contract"]
  <2>2. /\ drafts' = drafts + 1 /\ clones' = clones \ {t}
        /\ IF opened THEN Render(catalogue, seed) /\ UNCHANGED opened ELSE Mount(seed)
        /\ UNCHANGED <<tickets, post, today, typed, lost>>
    BY <2>1 DEF openCreateFormWith, NewDraft
  <2>3. drafts' \in Nat /\ t.type \in Types /\ t.no \in Nos
    BY <1>0, <2>2 DEF DraftTypes
  <2>4. ASSUME NEW b \in BOOLEAN, NEW e \in DraftForm
        PROVE  LET g == [e EXCEPT !.type = t.type, !.no = t.no, !.hasty = b]
               IN  g \in DraftForm /\ g.no = t.no /\ g.type = t.type /\ g.hasty = b
    BY <2>3 DEF DraftForm
  <2>5. /\ seed \in DraftForm /\ seed.no = t.no /\ seed.type = t.type
        /\ seed.hasty = (t.no = "N/A" /\ FlowOfType(t.type) # "Contract")
    <3>1. EMPTY(drafts') \in DraftForm
      BY <2>3, EmptyFacts
    <3>2. (t.no = "N/A" /\ FlowOfType(t.type) # "Contract") \in BOOLEAN
      OBVIOUS
    <3> QED
      BY <2>4, <3>1, <3>2, Zenon
  <2> HIDE DEF seed
  <2>6. seed.no = "N/A" /\ FlowOfType(seed.type) # "Contract" => seed.hasty
    BY <2>5
  <2>7. /\ form' \in DraftForm /\ wasLocked' \in BOOLEAN /\ catalogue' \in BOOLEAN /\ LockInv'
        /\ opened' \in BOOLEAN
    BY <1>0, <2>2, <2>5, <2>6, RenderKeeps, MountKeeps
  <2> QED
    BY <1>0, <2>2, <2>3, <2>7 DEF FormInv, DraftTypes, NumbersInv
<1>14. CASE Tomorrow
  <2>1. LockInv'
    BY <1>0, <1>14 DEF Tomorrow, LockInv, contractLocked, KnownFlow, FlowOfType
  <2> QED
    BY <1>0, <1>14, <2>1 DEF Tomorrow, FormInv, DraftTypes, NumbersInv
<1>15. CASE UNCHANGED draftVars
  <2>1. LockInv'
    BY <1>0, <1>15 DEF draftVars, LockInv, contractLocked, KnownFlow, FlowOfType
  <2> QED
    BY <1>0, <1>15, <2>1 DEF draftVars, FormInv, DraftTypes, NumbersInv
<1> QED
  BY <1>1, <1>2, <1>3, <1>4, <1>5, <1>6, <1>7, <1>8, <1>9, <1>10, <1>11, <1>12, <1>13, <1>14, <1>15
     DEF DraftNext

-----------------------------------------------------------------------------
\* What is known of the counts.
LEMMA IdsCount ==
  ASSUME DraftTypes, IdsInv
  PROVE  /\ Cardinality(tickets) \in Nat /\ drafts \in Nat /\ lost \in Nat
         /\ IsFiniteSet(FiledDrafts) /\ Cardinality(FiledDrafts) \in Nat
         /\ form.draft \in Nat /\ post.form.draft \in Nat
<1>1. \A d \in FiledDrafts : d \in 0..drafts
  BY DEF DraftTypes, IdsInv, FiledDrafts, FiledTicket
<1>2. IsFiniteSet(0..drafts)
  BY FS_Interval DEF DraftTypes
<1>3. IsFiniteSet(FiledDrafts)
  BY <1>1, <1>2, FS_Subset
<1>4. Cardinality(tickets) \in Nat /\ Cardinality(FiledDrafts) \in Nat
  BY <1>3, FS_CardinalityType DEF IdsInv
<1>5. form.draft \in Nat /\ post.form.draft \in Nat
  BY DEF DraftTypes, DraftForm
<1> QED
  BY <1>3, <1>4, <1>5 DEF DraftTypes

\* What the steps do to the drafts: most leave the tickets and give the form a new
\* number at most.
Renewed == \/ UNCHANGED <<form.draft, drafts>>
           \/ drafts' = drafts + 1 /\ form'.draft = drafts'

\* A step changes the form, files a ticket, or brings its answer.
LEMMA DraftKinds ==
  ASSUME FormInv, DraftNext
  PROVE  \/ /\ UNCHANGED <<tickets, lost>> /\ Renewed
            /\ \/ UNCHANGED post
               \/ /\ post.at = "none" /\ UNCHANGED <<form, drafts>>
                  /\ post'.at = "asked" /\ post'.form = form
         \/ create
         \/ Created
         \/ CreateFails
         \/ \E t \in tickets, status \in {"Completed", "Cancelled"} : Move(t, status)
<1>0. /\ drafts \in Nat /\ form \in DraftForm /\ wasLocked \in BOOLEAN /\ catalogue \in BOOLEAN
      /\ LockInv
  BY DEF FormInv, DraftTypes
<1>1. CASE openForm
  <2>1. Mount(form) /\ UNCHANGED <<tickets, post, drafts, lost>>
    BY <1>1 DEF openForm
  <2>2. form'.draft = form.draft
    BY <1>0, <2>1, MountKeeps DEF LockInv
  <2> QED
    BY <2>1, <2>2 DEF Renewed
<1>2. CASE close \/ setContractNo \/ Tomorrow \/ \E t \in tickets : clone(t)
  <2>1. UNCHANGED <<tickets, post, drafts, lost>>
    BY <1>2 DEF close, setContractNo, Tomorrow, clone
  <2>2. form' = form \/ form' = [form EXCEPT !.no = "typed"]
    BY <1>2 DEF close, setContractNo, Tomorrow, clone
  <2>3. form'.draft = form.draft
    BY <1>0, <2>2 DEF DraftForm
  <2> QED
    BY <2>1, <2>3 DEF Renewed
<1>3. CASE discard
  <2>1. UNCHANGED <<tickets, post, lost>> /\ drafts' = drafts + 1 /\ form' = EMPTY(drafts')
    BY <1>3 DEF discard, NewDraft
  <2> QED
    BY <2>1 DEF Renewed, EMPTY
<1>4. CASE CatalogueLoads
  <2>1. Render(TRUE, form) /\ UNCHANGED <<tickets, post, drafts, lost>>
    BY <1>4 DEF CatalogueLoads
  <2>2. form' = LockEffect(TRUE, form, wasLocked)
    BY <2>1 DEF Render
  <2>3. form'.draft = form.draft
    BY <1>0, <2>2, EffectFacts
  <2> QED
    BY <2>1, <2>3 DEF Renewed
<1>5. CASE \E type \in Types : Choose(type)
  <2>1. PICK type \in Types : Choose(type)
    BY <1>5
  <2> DEFINE f == [form EXCEPT !.type = type, !.hasty = @ \/ KnownFlow(catalogue, form.type) = "none"]
  <2>2. Render(catalogue, f) /\ UNCHANGED <<tickets, post, drafts, lost>>
    BY <2>1 DEF Choose
  <2>3. ASSUME NEW b \in BOOLEAN
        PROVE  LET g == [form EXCEPT !.type = type, !.hasty = b]
               IN  g \in DraftForm /\ g.draft = form.draft
    BY <1>0 DEF DraftForm
  <2>4. f \in DraftForm /\ f.draft = form.draft
    BY <2>3
  <2> HIDE DEF f
  <2>5. form' = LockEffect(catalogue, f, wasLocked)
    BY <2>2 DEF Render
  <2>6. form'.draft = form.draft
    BY <1>0, <2>4, <2>5, EffectFacts
  <2> QED
    BY <2>2, <2>6 DEF Renewed
<1>6. CASE submit
  <2>1. /\ post = NoPost /\ post' = [at |-> "asked", form |-> form]
        /\ UNCHANGED <<tickets, form, drafts, lost>>
    BY <1>6 DEF submit, NotBusy
  <2> QED
    BY <2>1 DEF Renewed, NoPost
<1>7. CASE \E t \in clones : openCreateFormWith(t)
  <2>1. PICK t \in clones : openCreateFormWith(t)
    BY <1>7
  <2> DEFINE seed == [EMPTY(drafts') EXCEPT !.type = t.type, !.no = t.no,
                        !.hasty = t.no = "N/A" /\ FlowOfType(t.type) # "Contract"]
  <2>2. /\ drafts' = drafts + 1 /\ UNCHANGED <<tickets, post, lost>>
        /\ IF opened THEN Render(catalogue, seed) /\ UNCHANGED opened ELSE Mount(seed)
    BY <2>1 DEF openCreateFormWith, NewDraft
  <2>3. drafts' \in Nat /\ t.type \in Types /\ t.no \in Nos
    BY <1>0, <2>1, <2>2 DEF FormInv, DraftTypes
  <2>4. ASSUME NEW b \in BOOLEAN, NEW e \in DraftForm
        PROVE  LET g == [e EXCEPT !.type = t.type, !.no = t.no, !.hasty = b]
               IN  g \in DraftForm /\ g.draft = e.draft
    BY <2>3 DEF DraftForm
  <2>5. EMPTY(drafts') \in DraftForm /\ EMPTY(drafts').draft = drafts'
    BY <2>3, EmptyFacts
  <2>6. seed \in DraftForm /\ seed.draft = drafts'
    BY <2>4, <2>5
  <2> HIDE DEF seed
  <2>7. \/ form' = LockEffect(catalogue, seed, wasLocked)
        \/ form' = LockEffect(FALSE, seed, FALSE)
    BY <2>2 DEF Render, Mount
  <2>8. form'.draft = drafts'
    <3>1. FALSE \in BOOLEAN
      OBVIOUS
    <3>2. LockEffect(FALSE, seed, FALSE).draft = drafts'
      BY <2>6, <3>1, EffectFacts
    <3>3. LockEffect(catalogue, seed, wasLocked).draft = drafts'
      BY <1>0, <2>6, EffectFacts
    <3> QED
      BY <2>7, <3>2, <3>3
  <2> QED
    BY <2>2, <2>8 DEF Renewed
<1> QED
  BY <1>1, <1>2, <1>3, <1>4, <1>5, <1>6, <1>7 DEF DraftNext, FormInv

\* Every step keeps the numbers of the tickets, and the twins known.
LEMMA TwinsStep ==
  ASSUME FormInv, IdsInv, TwinsInv, DraftNext
  PROVE  IdsInv' /\ TwinsInv'
<1> DEFINE N == Cardinality(tickets)
           D == Cardinality(FiledDrafts)
<1>0. /\ N \in Nat /\ D \in Nat /\ drafts \in Nat /\ lost \in Nat /\ IsFiniteSet(FiledDrafts)
      /\ IsFiniteSet(tickets) /\ form.draft \in Nat /\ post.form.draft \in Nat /\ N <= D + lost
      /\ DraftTypes
  BY IdsCount DEF FormInv, TwinsInv, TwinsOnlyByLoss, FiledDrafts, IdsInv
<1>1. \A d \in FiledDrafts : d <= drafts /\ d \in Nat
  BY <1>0 DEF IdsInv, FiledDrafts, DraftTypes, FiledTicket
<1>2. CASE /\ UNCHANGED <<tickets, lost>> /\ Renewed
           /\ \/ UNCHANGED post
              \/ /\ post.at = "none" /\ UNCHANGED <<form, drafts>>
                 /\ post'.at = "asked" /\ post'.form = form
  <2>1. UNCHANGED <<FiledDrafts, N, D>>
    BY <1>2 DEF FiledDrafts
  <2>2. IdsInv'
    BY <1>0, <1>1, <1>2, <2>1 DEF IdsInv, Renewed
  <2>3. form'.draft \in FiledDrafts => form'.draft = form.draft
    BY <1>0, <1>1, <1>2 DEF Renewed
  <2>4. TwinsOnlyByLoss'
    BY <1>2 DEF TwinsInv, TwinsOnlyByLoss
  <2>5. TwinsInv'
    BY <1>2, <2>1, <2>3, <2>4 DEF TwinsInv
  <2> QED
    BY <2>2, <2>5
<1>3. CASE create
  <2> DEFINE t == Filed(post.form)
             d == post.form.draft
  <2>1. /\ post.at = "asked" /\ tickets' = tickets \cup {t}
        /\ post' = [post EXCEPT !.at = "created"]
        /\ UNCHANGED <<form, drafts, lost>>
    BY <1>3 DEF create
  <2>2. post.form \in DraftForm /\ (post.form.no # "none" \/ FlowOfType(post.form.type) = "Contract")
    BY <1>0, <2>1 DEF FormInv, NumbersInv, DraftTypes
  <2>3. t.id = N + 1 /\ t.draft = d
    BY <1>0, <2>2, FiledFacts
  <2>4. post'.at = "created" /\ post'.form = post.form
    BY <1>0, <2>1 DEF DraftTypes
  <2> HIDE DEF t
  <2>5. \A u \in tickets : u.id <= N /\ u.id \in Nat
    BY <1>0 DEF IdsInv, DraftTypes, FiledTicket
  <2>6. t \notin tickets
    BY <1>0, <2>3, <2>5
  <2>7. IsFiniteSet(tickets') /\ Cardinality(tickets)' = N + 1
    BY <1>0, <2>1, <2>6, FS_AddElement
  <2>8. FiledDrafts' = FiledDrafts \cup {d}
    BY <2>1, <2>3 DEF FiledDrafts
  <2>9. Cardinality(FiledDrafts)' = IF d \in FiledDrafts THEN D ELSE D + 1
    BY <1>0, <2>8, FS_AddElement
  <2>10. \A u \in tickets' : u.id <= N + 1
    BY <1>0, <2>1, <2>3, <2>5
  <2>11. \A u, v \in tickets' : u.id = v.id => u = v
    BY <1>0, <2>1, <2>3, <2>5 DEF IdsInv
  <2>12. \A e \in FiledDrafts' \cup {form'.draft, post'.form.draft} : e <= drafts'
    BY <2>1, <2>4, <2>8 DEF IdsInv
  <2>13. IdsInv'
    BY <2>7, <2>10, <2>11, <2>12 DEF IdsInv
  <2>14. N + 1 <= Cardinality(FiledDrafts)' + lost
    BY <1>0, <2>1, <2>9 DEF TwinsInv
  <2>15. TwinsOnlyByLoss'
    BY <2>1, <2>7, <2>14 DEF TwinsOnlyByLoss, FiledDrafts
  <2> QED
    BY <2>4, <2>13, <2>15 DEF TwinsInv
<1>4. CASE Created
  <2>1. /\ UNCHANGED <<tickets, lost>> /\ drafts' = drafts + 1
        /\ form' = EMPTY(drafts') /\ post' = NoPost
    BY <1>4 DEF Created, NewDraft
  <2>2. form'.draft = drafts' /\ post'.at = "none" /\ post'.form.draft = 0
    BY <2>1 DEF EMPTY, NoPost
  <2>3. UNCHANGED <<FiledDrafts, N, D>>
    BY <2>1 DEF FiledDrafts
  <2>4. IdsInv'
    BY <1>0, <1>1, <2>1, <2>2, <2>3 DEF IdsInv
  <2>5. TwinsOnlyByLoss'
    BY <2>1 DEF TwinsInv, TwinsOnlyByLoss
  <2>6. form'.draft \notin FiledDrafts'
    BY <1>0, <1>1, <2>1, <2>2, <2>3
  <2> QED
    BY <2>2, <2>4, <2>5, <2>6 DEF TwinsInv
<1>5. CASE CreateFails
  <2>1. UNCHANGED <<tickets, form, drafts>> /\ lost' = lost + 1 /\ post' = NoPost
    BY <1>5 DEF CreateFails
  <2>2. post'.at = "none" /\ post'.form.draft = 0
    BY <2>1 DEF EMPTY, NoPost
  <2>3. UNCHANGED <<FiledDrafts, N, D>>
    BY <2>1 DEF FiledDrafts
  <2>4. IdsInv'
    BY <1>0, <1>1, <2>1, <2>2, <2>3 DEF IdsInv
  <2>5. N + 1 <= D + lost'
    BY <1>0, <2>1
  <2>6. TwinsOnlyByLoss'
    BY <1>0, <2>1, <2>3, <2>5 DEF TwinsOnlyByLoss, FiledDrafts
  <2> QED
    BY <2>1, <2>3, <2>4, <2>5, <2>6 DEF TwinsInv
<1>6. CASE \E t \in tickets, status \in {"Completed", "Cancelled"} : Move(t, status)
  <2>1. PICK t \in tickets, status \in {"Completed", "Cancelled"} : Move(t, status)
    BY <1>6
  <2> DEFINE u == [t EXCEPT !.status = status]
  <2>2. tickets' = (tickets \ {t}) \cup {u} /\ UNCHANGED <<form, post, drafts, lost>>
    BY <2>1 DEF Move
  <2>3. u.id = t.id /\ u.draft = t.draft
    BY <1>0, MovedFacts DEF DraftTypes
  <2> HIDE DEF u
  <2>4. u \notin tickets \ {t}
    BY <2>3 DEF IdsInv
  <2>5. IsFiniteSet(tickets \ {t}) /\ Cardinality(tickets \ {t}) = N - 1
    BY <1>0, FS_RemoveElement
  <2>6. IsFiniteSet(tickets') /\ Cardinality(tickets)' = N
    <3>1. Cardinality((tickets \ {t}) \cup {u}) = N - 1 + 1 /\ IsFiniteSet((tickets \ {t}) \cup {u})
      BY <2>4, <2>5, FS_AddElement
    <3> QED
      BY <1>0, <2>2, <3>1
  <2>7. FiledDrafts' = FiledDrafts
    BY <2>2, <2>3 DEF FiledDrafts
  <2>8. IdsInv'
    BY <2>2, <2>3, <2>6, <2>7 DEF IdsInv
  <2>9. TwinsOnlyByLoss'
    BY <1>0, <2>2, <2>6, <2>7 DEF TwinsOnlyByLoss, FiledDrafts
  <2> QED
    BY <2>2, <2>6, <2>7, <2>8, <2>9 DEF TwinsInv
<1> QED
  BY <1>2, <1>3, <1>4, <1>5, <1>6, DraftKinds

\* The invariant holds of the form at first.
LEMMA DraftInvInit == DraftInit => DraftInv
<1> SUFFICES ASSUME DraftInit PROVE DraftInv
  OBVIOUS
<1>1. /\ tickets = {} /\ form = EMPTY(0) /\ opened = FALSE /\ catalogue = FALSE /\ wasLocked = FALSE
      /\ post = NoPost /\ clones = {} /\ today = 0 /\ typed = 0 /\ drafts = 0 /\ lost = 0
  BY DEF DraftInit
<1>2. form \in DraftForm /\ form.draft = 0 /\ form.no = "none"
  BY <1>1, EmptyFacts
<1>3. post \in [at : {"none", "asked", "created"}, form : DraftForm] /\ post.at = "none"
      /\ post.form.draft = 0
  BY <1>1, EmptyFacts DEF NoPost
<1>4. opened \in BOOLEAN /\ catalogue \in BOOLEAN /\ wasLocked \in BOOLEAN
  BY <1>1, Zenon
<1>5. DraftTypes
  BY <1>1, <1>2, <1>3, <1>4 DEF DraftTypes
<1>6. LockInv /\ NumbersInv
  BY <1>1, <1>2, <1>3 DEF LockInv, NumbersInv
<1>7. FiledDrafts = {} /\ {t.draft : t \in tickets} = {}
  BY <1>1 DEF FiledDrafts
<1>8. IsFiniteSet({}) /\ Cardinality({}) = 0
  BY FS_EmptySet, Zenon
<1>9. IdsInv
  BY <1>1, <1>2, <1>3, <1>7, <1>8 DEF IdsInv
<1>10. TwinsInv
  BY <1>1, <1>7, <1>8 DEF TwinsInv, TwinsOnlyByLoss
<1> QED
  BY <1>5, <1>6, <1>9, <1>10 DEF DraftInv

\* Every step keeps the invariant.
LEMMA DraftInvStep == DraftInv /\ [DraftNext]_draftVars => DraftInv'
<1> SUFFICES ASSUME DraftInv, [DraftNext]_draftVars PROVE DraftInv'
  OBVIOUS
<1>1. FormInv /\ IdsInv /\ TwinsInv /\ IsFiniteSet(tickets)
  BY DEF DraftInv, FormInv, IdsInv
<1>2. FormInv'
  BY <1>1, FormStep
<1>3. CASE UNCHANGED draftVars
  BY <1>1, <1>2, <1>3 DEF draftVars, DraftInv, FormInv, IdsInv, TwinsInv, TwinsOnlyByLoss, FiledDrafts
<1>4. CASE DraftNext
  BY <1>1, <1>2, <1>4, TwinsStep DEF DraftInv, FormInv
<1> QED
  BY <1>3, <1>4

\* What the form and the hints owe follows from the invariant.
LEMMA DraftIsSound == DraftInv => DraftSound
<1> SUFFICES ASSUME DraftInv PROVE DraftSound
  OBVIOUS
<1>1. /\ TwinsOnlyByLoss /\ NumbersInv /\ LockInv
  BY DEF DraftInv, TwinsInv
<1>2. TwinsFlagged
  <2> SUFFICES ASSUME NEW a \in tickets, NEW b \in tickets, a.status = "Submitted", a.no # "N/A",
                      b.status = "Submitted", b.no # "N/A", a.id # b.id, a.type = b.type, a.no = b.no,
                      daysBetween(a.day, b.day) <= Window
               PROVE  b \in dupOf(a)
    BY DEF TwinsFlagged
  <2>1. isDuplicate(a, b)
    BY <1>1 DEF isDuplicate, contractKey, NumbersInv
  <2>2. b \in DuplicateCandidates
    BY DEF DuplicateCandidates, Closed
  <2> QED
    BY <2>1, <2>2 DEF dupOf
<1>3. PlaceholderLeaves
  BY <1>1 DEF PlaceholderLeaves, LockInv
<1>4. ClonesComeClean
  BY <1>1 DEF ClonesComeClean, NumbersInv
<1> QED
  BY <1>1, <1>2, <1>3, <1>4 DEF DraftSound
-----------------------------------------------------------------------------
(***************************************************************************)
(* The configuration pages: the table of thresholds.                       *)
(***************************************************************************)
IsTable(t) == t \in [stage : {"none", "asked", "read"}, rows : {t.rows}, moved : {t.moved}]
IsPane(x) == x \in [rows : {x.rows}, edits : {x.edits}, queue : {x.queue}, saving : BOOLEAN,
                    error : BOOLEAN, moved : {x.moved}]
IsQueue(q) == \E Call : q \in Seq(Call)

\* What is shown or was read is what is stored, but for what was stored since.
Current(rows, but) == \A k \in Station \ but : rows[k] = slaDays[k]

\* The rows of a save are answered one by one, and then the table is loaded; until
\* that load has come the save is under way.
SavesInTurn ==
  /\ sla.queue # <<>> => sla.saving
  /\ tables["save"].stage # "none" => sla.saving /\ sla.queue = <<>>

TablesCurrent ==
  /\ tables \in [{"page", "save"} -> {tables["page"], tables["save"]}]
  /\ \A why \in {"page", "save"} :
       /\ IsTable(tables[why])
       /\ tables[why].stage = "read" => Current(tables[why].rows, tables[why].moved)

TableInv ==
  /\ IsPane(sla) /\ IsQueue(sla.queue) /\ DOMAIN slaDays = Station
  /\ TablesCurrent /\ SavesInTurn
  /\ ~sla.saving /\ ~sla.error /\ tables["page"].stage = "none" => Current(sla.rows, sla.moved)

\* The table as it was seeded.
LEMMA TableInvInit == SettingsInit => TableInv
<1> SUFFICES ASSUME SettingsInit PROVE TableInv
  OBVIOUS
<1>1. /\ IsPane(sla) /\ sla.queue = <<>> /\ ~sla.saving /\ sla.rows = slaDays
      /\ DOMAIN slaDays = Station
  BY DEF SettingsInit, IsPane
<1>2. IsQueue(<<>>)
  <2>1. <<>> \in Seq({})
    OBVIOUS
  <2> QED
    BY <2>1 DEF IsQueue
<1>3. tables = [why \in {"page", "save"} |-> NoTable]
  BY DEF SettingsInit
<1>4. NoTable.stage = "none" /\ IsTable(NoTable)
  BY DEF NoTable, IsTable
<1> QED
  BY <1>1, <1>2, <1>3, <1>4 DEF TableInv, TablesCurrent, SavesInTurn, Current

\* Edits are typed over the rows, and leave them.
LEMMA EditsKeepTable ==
  ASSUME TableInv, NEW e, sla' = [sla EXCEPT !.edits = e], UNCHANGED <<slaDays, tables>>
  PROVE  TableInv'
<1>1. /\ IsPane(sla') /\ sla'.queue = sla.queue /\ sla'.saving = sla.saving
      /\ sla'.error = sla.error /\ sla'.rows = sla.rows /\ sla'.moved = sla.moved
  BY DEF TableInv, IsPane
<1> QED
  BY <1>1 DEF TableInv, TablesCurrent, SavesInTurn, Current

\* A save begins with the edited rows in a sequence.
LEMMA SaveAllKeeps ==
  ASSUME TableInv, saveAll
  PROVE  TableInv'
<1>1. PICK q : q = [i \in 1 .. Cardinality(Dirty) |->
                      [key |-> Changed(i), n |-> sla.edits[Changed(i)], done |-> FALSE]]
  OBVIOUS
<1>2. IsQueue(q)
  <2>1. Cardinality(Dirty) \in Nat
    <3>1. IsFiniteSet(Station) /\ Dirty \subseteq Station
      BY SettingsAssumption, FS_Interval DEF Station, Dirty
    <3> QED
      BY <3>1, FS_Subset, FS_CardinalityType
  <2>2. PICK n \in Nat : n = Cardinality(Dirty)
    BY <2>1
  <2>3. q \in [1 .. n -> {q[i] : i \in 1 .. n}]
    BY <1>1, <2>2
  <2>4. q \in Seq({q[i] : i \in 1 .. n})
    BY <2>3
  <2> QED
    BY <2>4 DEF IsQueue
<1>3. /\ sla' = [sla EXCEPT !.saving = TRUE, !.queue = q] /\ ~sla.saving
      /\ UNCHANGED <<slaDays, tables>>
  BY <1>1 DEF saveAll
<1>4. IsPane(sla') /\ sla'.queue = q /\ sla'.saving
  BY <1>3 DEF TableInv, IsPane
<1> QED
  BY <1>2, <1>3, <1>4 DEF TableInv, TablesCurrent, SavesInTurn, Current

\* A threshold is stored: the tables on their way know of it.
LEMMA OvertakenFacts ==
  ASSUME TablesCurrent, DOMAIN slaDays = Station, NEW k, NEW n,
         slaDays' = [slaDays EXCEPT ![k] = n], tables' = Overtaken(k)
  PROVE  /\ TablesCurrent' /\ DOMAIN slaDays' = Station
         /\ \A j \in Station : j # k => slaDays'[j] = slaDays[j]
         /\ \A why \in {"page", "save"} : tables'[why].stage = tables[why].stage
<1>1. DOMAIN slaDays' = Station /\ \A j \in Station : j # k => slaDays'[j] = slaDays[j]
  OBVIOUS
<1>2. DOMAIN tables = {"page", "save"}
  BY DEF TablesCurrent
<1>3. tables' \in [{"page", "save"} -> {tables'["page"], tables'["save"]}]
  BY <1>2 DEF Overtaken
<1>4. ASSUME NEW why \in {"page", "save"}
      PROVE  /\ tables'[why].stage = tables[why].stage /\ IsTable(tables'[why])
             /\ tables'[why].stage = "read" => Current(tables[why].rows, tables[why].moved)'
  <2>1. tables'[why] = [tables[why] EXCEPT
                          !.moved = IF tables[why].stage = "read" THEN @ \cup {k} ELSE @]
    BY <1>2 DEF Overtaken
  <2>2. IsTable(tables[why]) /\ (tables[why].stage = "read" => Current(tables[why].rows, tables[why].moved))
    BY DEF TablesCurrent
  <2>3. /\ tables'[why].stage = tables[why].stage /\ tables'[why].rows = tables[why].rows
        /\ IsTable(tables'[why])
        /\ tables'[why].stage = "read" => tables'[why].moved = tables[why].moved \cup {k}
    BY <2>1, <2>2 DEF IsTable
  <2>4. ASSUME tables'[why].stage = "read"
        PROVE  Current(tables[why].rows, tables[why].moved)'
    <3>1. \A j \in Station \ tables[why].moved : tables[why].rows[j] = slaDays[j]
      BY <2>2, <2>3, <2>4 DEF Current
    <3> QED
      BY <1>1, <2>3, <2>4, <3>1 DEF Current
  <2> QED
    BY <2>3, <2>4
<1> QED
  BY <1>1, <1>3, <1>4 DEF TablesCurrent

\* The save writes a row.
LEMMA UpsertKeeps ==
  ASSUME TableInv, upsertSla
  PROVE  TableInv'
<1>1. PICK q : q = [sla.queue EXCEPT ![1].done = TRUE]
  OBVIOUS
<1>2. /\ sla' = [sla EXCEPT !.queue = q] /\ sla.queue # <<>>
      /\ slaDays' = [slaDays EXCEPT ![Head(sla.queue).key] = Head(sla.queue).n]
      /\ tables' = Overtaken(Head(sla.queue).key)
  BY <1>1 DEF upsertSla
<1>3. IsQueue(q)
  <2>1. PICK Call : sla.queue \in Seq(Call)
    BY DEF TableInv, IsQueue
  <2>2. PICK d : d = [sla.queue[1] EXCEPT !.done = TRUE]
    OBVIOUS
  <2>3. q = [sla.queue EXCEPT ![1] = d]
    BY <1>1, <2>2
  <2>4. sla.queue \in Seq(Call \cup {d}) /\ 1 \in 1 .. Len(sla.queue)
    BY <1>2, <2>1, EmptySeq
  <2>5. q \in Seq(Call \cup {d})
    BY <2>3, <2>4, ExceptSeq
  <2> QED
    BY <2>5 DEF IsQueue
<1>4. IsPane(sla') /\ sla'.queue = q /\ sla'.saving = sla.saving
  BY <1>2 DEF TableInv, IsPane
<1>5. /\ TablesCurrent' /\ DOMAIN slaDays' = Station
      /\ tables'["save"].stage = tables["save"].stage
  BY <1>2, OvertakenFacts DEF TableInv
<1>6. sla.saving /\ tables["save"].stage = "none"
  BY <1>2 DEF TableInv, SavesInTurn
<1> QED
  BY <1>3, <1>4, <1>5, <1>6 DEF TableInv, SavesInTurn

\* So does another administrator.
LEMMA RivalKeeps ==
  ASSUME TableInv, NEW k, NEW n, RivalSla(k, n)
  PROVE  TableInv'
<1>1. /\ slaDays' = [slaDays EXCEPT ![k] = n] /\ tables' = Overtaken(k)
      /\ sla' = [sla EXCEPT !.moved = @ \cup {k}]
  BY DEF RivalSla
<1>2. /\ IsPane(sla') /\ sla'.queue = sla.queue /\ sla'.saving = sla.saving
      /\ sla'.error = sla.error /\ sla'.rows = sla.rows /\ sla'.moved = sla.moved \cup {k}
  BY <1>1 DEF TableInv, IsPane
<1>3. /\ TablesCurrent' /\ DOMAIN slaDays' = Station
      /\ \A j \in Station : j # k => slaDays'[j] = slaDays[j]
      /\ \A why \in {"page", "save"} : tables'[why].stage = tables[why].stage
  BY <1>1, OvertakenFacts DEF TableInv
<1> QED
  BY <1>2, <1>3 DEF TableInv, SavesInTurn, Current

\* A table other than that of a load under way.
LEMMA TableSet ==
  ASSUME TablesCurrent, UNCHANGED slaDays, NEW why \in {"page", "save"}, NEW t, IsTable(t),
         t.stage = "read" => Current(t.rows, t.moved), tables' = [tables EXCEPT ![why] = t]
  PROVE  TablesCurrent' /\ tables'[why] = t /\ \A o \in {"page", "save"} : o # why => tables'[o] = tables[o]
<1>1. /\ tables'[why] = t /\ \A o \in {"page", "save"} : o # why => tables'[o] = tables[o]
      /\ DOMAIN tables' = {"page", "save"}
  BY DEF TablesCurrent
<1>2. tables' \in [{"page", "save"} -> {tables'["page"], tables'["save"]}]
  <2>1. tables' = [o \in {"page", "save"} |-> tables'[o]]
    BY DEF TablesCurrent
  <2> QED
    BY <2>1
<1> QED
  BY <1>1, <1>2 DEF TablesCurrent, Current

\* A load is asked for, and a load that is over leaves no table.
LEMMA LoadKinds ==
  ASSUME NEW stage \in {"none", "asked"}
  PROVE  /\ IsTable([NoTable EXCEPT !.stage = stage]) /\ IsTable(NoTable)
         /\ [NoTable EXCEPT !.stage = stage].stage = stage /\ NoTable.stage = "none"
BY DEF IsTable, NoTable

\* The page asks for the table.
LEMMA LoadAsked ==
  ASSUME TablesCurrent, UNCHANGED slaDays, NEW why \in {"page", "save"}, Load(why)
  PROVE  /\ TablesCurrent' /\ tables'[why].stage = "asked"
         /\ \A o \in {"page", "save"} : o # why => tables'[o] = tables[o]
<1>1. PICK t : t = [NoTable EXCEPT !.stage = "asked"]
  OBVIOUS
<1>2. IsTable(t) /\ t.stage = "asked"
  BY <1>1, LoadKinds
<1> QED
  BY <1>1, <1>2, TableSet DEF Load

\* The answer to a row, and after the last one the load.
LEMMA SavedRowKeeps ==
  ASSUME TableInv, SavedRow
  PROVE  TableInv'
<1>1. PICK Call : sla.queue \in Seq(Call)
  BY DEF TableInv, IsQueue
<1>2. /\ sla.queue # <<>> /\ UNCHANGED slaDays
      /\ sla' = [sla EXCEPT !.queue = Tail(@), !.error = @ /\ Len(sla.queue) > 1]
      /\ IF Len(sla.queue) = 1 THEN Load("save") ELSE UNCHANGED tables
  BY DEF SavedRow
<1>3. PICK e \in BOOLEAN : e = (sla.error /\ Len(sla.queue) > 1)
  OBVIOUS
<1>4. sla' = [sla EXCEPT !.queue = Tail(sla.queue), !.error = e]
  BY <1>2, <1>3, Zenon
<1>5. IsPane(sla') /\ sla'.queue = Tail(sla.queue) /\ sla'.saving = sla.saving
  BY <1>4 DEF TableInv, IsPane
<1>6. Tail(sla.queue) \in Seq(Call) /\ (Len(sla.queue) = 1 => Tail(sla.queue) = <<>>)
  <2>1. Tail(sla.queue) \in Seq(Call) /\ Len(Tail(sla.queue)) = Len(sla.queue) - 1
    BY <1>1, <1>2, HeadTailProperties
  <2>2. Len(sla.queue) = 1 => Len(Tail(sla.queue)) = 0
    BY <2>1
  <2> QED
    BY <2>1, <2>2, EmptySeq
<1>7. sla.saving /\ tables["save"].stage = "none"
  BY <1>2 DEF TableInv, SavesInTurn
<1>8. /\ IsQueue(sla'.queue) /\ IsPane(sla') /\ sla'.saving /\ DOMAIN slaDays' = Station
  BY <1>2, <1>5, <1>6, <1>7 DEF IsQueue, TableInv
<1>9. TablesCurrent' /\ (tables'["save"].stage # "none" => sla'.queue = <<>>)
  <2>1. CASE Len(sla.queue) = 1
    BY <1>2, <1>5, <1>6, <2>1, LoadAsked DEF TableInv
  <2>2. CASE Len(sla.queue) # 1
    BY <1>2, <1>7, <2>2 DEF TableInv, TablesCurrent, Current
  <2> QED
    BY <2>1, <2>2
<1> QED
  BY <1>8, <1>9 DEF TableInv, SavesInTurn

\* A row that fails ends the save with a load.
LEMMA SaveFailsKeeps ==
  ASSUME TableInv, SaveFails
  PROVE  TableInv'
<1>1. /\ sla.queue # <<>> /\ sla' = [sla EXCEPT !.queue = <<>>, !.error = FALSE]
      /\ Load("save") /\ UNCHANGED slaDays
  BY DEF SaveFails, Resync
<1>2. IsPane(sla') /\ sla'.queue = <<>> /\ sla'.saving = sla.saving /\ sla.saving
  BY <1>1 DEF TableInv, IsPane, SavesInTurn
<1>3. IsQueue(<<>>)
  <2>1. <<>> \in Seq({})
    OBVIOUS
  <2> QED
    BY <2>1 DEF IsQueue
<1> QED
  BY <1>1, <1>2, <1>3, LoadAsked DEF TableInv, SavesInTurn

\* A load is asked for, read, and shown or lost.
LEMMA LoadsKeep ==
  ASSUME TableInv,
         \/ Retry
         \/ \E why \in {"page", "save"} : ReadTable(why) \/ ShowTable(why) \/ LoadTableFails(why)
  PROVE  TableInv'
<1>1. CASE Retry
  <2>1. sla' = [sla EXCEPT !.error = FALSE] /\ Load("page") /\ UNCHANGED slaDays
    BY <1>1 DEF Retry
  <2>2. IsPane(sla') /\ sla'.queue = sla.queue /\ sla'.saving = sla.saving
    BY <2>1 DEF TableInv, IsPane
  <2> QED
    BY <2>1, <2>2, LoadAsked DEF TableInv, SavesInTurn
<1>2. ASSUME NEW why \in {"page", "save"}, ReadTable(why) PROVE TableInv'
  <2>1. PICK t : t = [stage |-> "read", rows |-> slaDays, moved |-> {}]
    OBVIOUS
  <2>2. /\ tables[why].stage = "asked" /\ tables' = [tables EXCEPT ![why] = t]
        /\ UNCHANGED <<slaDays, sla>>
    BY <1>2, <2>1 DEF ReadTable
  <2>3. IsTable(t) /\ t.stage = "read" /\ Current(t.rows, t.moved)
    BY <2>1 DEF IsTable, Current
  <2>4. TablesCurrent' /\ tables'[why] = t /\ \A o \in {"page", "save"} : o # why => tables'[o] = tables[o]
    BY <2>2, <2>3, TableSet DEF TableInv
  <2> QED
    BY <2>2, <2>3, <2>4 DEF TableInv, SavesInTurn, Current
<1>3. ASSUME NEW why \in {"page", "save"}, ShowTable(why) \/ LoadTableFails(why) PROVE TableInv'
  <2>1. tables[why].stage # "none" /\ tables' = [tables EXCEPT ![why] = NoTable] /\ UNCHANGED slaDays
    BY <1>3 DEF ShowTable, LoadTableFails
  <2>2. /\ TablesCurrent' /\ tables'[why].stage = "none"
        /\ \A o \in {"page", "save"} : o # why => tables'[o] = tables[o]
    BY <2>1, LoadKinds, TableSet DEF TableInv
  <2>3. PICK s \in BOOLEAN : s = (sla.saving /\ why # "save")
    OBVIOUS
  <2>4. CASE ShowTable(why)
    <3>1. sla' = [sla EXCEPT !.rows = tables[why].rows, !.edits = NoEdits,
                             !.moved = tables[why].moved, !.saving = s]
      BY <2>3, <2>4, Zenon DEF ShowTable
    <3>2. /\ IsPane(sla') /\ sla'.queue = sla.queue /\ sla'.saving = s
          /\ sla'.rows = tables[why].rows /\ sla'.moved = tables[why].moved
      BY <3>1 DEF TableInv, IsPane
    <3>3. Current(tables[why].rows, tables[why].moved)
      BY <2>4 DEF ShowTable, TableInv, TablesCurrent
    <3> QED
      BY <2>1, <2>2, <2>3, <3>2, <3>3 DEF TableInv, SavesInTurn, Current
  <2>5. CASE LoadTableFails(why)
    <3>1. sla' = [sla EXCEPT !.error = TRUE, !.saving = s]
      BY <2>3, <2>5, Zenon DEF LoadTableFails
    <3>2. IsPane(sla') /\ sla'.queue = sla.queue /\ sla'.saving = s /\ sla'.error
      BY <3>1 DEF TableInv, IsPane
    <3> QED
      BY <2>1, <2>2, <2>3, <3>2 DEF TableInv, SavesInTurn
  <2> QED
    BY <1>3, <2>4, <2>5
<1> QED
  BY <1>1, <1>2, <1>3

\* Every step of either page keeps the table in order.
LEMMA TableInvStep == TableInv /\ [SettingsNext]_settingsVars => TableInv'
<1> SUFFICES ASSUME TableInv, [SettingsNext]_settingsVars PROVE TableInv'
  OBVIOUS
<1>1. ASSUME NEW k \in Station,
             \/ \E n \in 1 .. MostDays : setVal(k, n) \/ RivalSla(k, n)
             \/ setVal(k, Emptied) \/ commitVal(k)
      PROVE  TableInv'
  <2>1. ASSUME NEW n, sla' = [sla EXCEPT !.edits[k] = n], UNCHANGED <<slaDays, tables>>
        PROVE  TableInv'
    <3>1. PICK e : e = [sla.edits EXCEPT ![k] = n]
      OBVIOUS
    <3> QED
      BY <2>1, <3>1, EditsKeepTable
  <2> QED
    BY <1>1, <2>1, RivalKeeps DEF setVal, commitVal
<1>2. CASE revertAll
  BY <1>2, EditsKeepTable DEF revertAll
<1>3. CASE UNCHANGED SlaPane
  BY <1>3 DEF SlaPane, TableInv, TablesCurrent, SavesInTurn, Current
<1>4. CASE \/ saveAll \/ upsertSla \/ SavedRow \/ SaveFails \/ Retry
           \/ \E why \in {"page", "save"} : ReadTable(why) \/ ShowTable(why) \/ LoadTableFails(why)
  BY <1>4, SaveAllKeeps, UpsertKeeps, SavedRowKeeps, SaveFailsKeeps, LoadsKeep
<1>5. [SettingsNext]_settingsVars =>
        \/ \E k \in Station : \/ \E n \in 1 .. MostDays : setVal(k, n) \/ RivalSla(k, n)
                              \/ setVal(k, Emptied) \/ commitVal(k)
        \/ revertAll \/ saveAll \/ upsertSla \/ SavedRow \/ SaveFails \/ Retry
        \/ \E why \in {"page", "save"} : ReadTable(why) \/ ShowTable(why) \/ LoadTableFails(why)
        \/ UNCHANGED SlaPane
  <2>1. settingsVars' = settingsVars => UNCHANGED SlaPane
    BY DEF settingsVars, SlaPane
  <2>2. OnMail => UNCHANGED SlaPane
    BY DEF OnMail
  <2>3. \A filled : Edits(filled) => OnMail
    BY DEF Edits
  <2> QED
    BY <2>1, <2>2, <2>3 DEF SettingsNext, ReadForm, ShowForm, LoadFormFails, Fill, RivalMail, SaveMail,
       ReadPassword, UpsertSmtp, SmtpSaved, SmtpFails, RetryMail, SaveVp, UpsertVp, RivalVp, VpSaved, VpFails
<1> QED
  BY <1>1, <1>2, <1>3, <1>4, <1>5

\* What the save bar offers is not stored yet.
LEMMA BarIsTrue == TableInv => DirtyIsUnsaved
BY DEF TableInv, DirtyIsUnsaved, Dirty, Current

-----------------------------------------------------------------------------
(***************************************************************************)
(* The configuration pages: the mail account and the name of the VP.       *)
(***************************************************************************)
IsMail(m) == m \in [host : {m.host}, pass : {m.pass}, source : {m.source}, saw : {m.saw},
                    behind : BOOLEAN, vp : {m.vp}, label : {m.label}, renamed : BOOLEAN,
                    busy : {m.busy}, error : {m.error},
                    naming : [name : {m.naming.name}, stored : BOOLEAN]]
IsForm(f) == f \in [stage : {"none", "asked", "read"}, host : {f.host}, source : {f.source},
                    vp : {f.vp}, behind : BOOLEAN]
IsPut(p) == p \in [by : {p.by}, host : {p.host}, pass : {p.pass}, found : {p.found},
                   stage : {"asked", "read", "written"}, asLoaded : BOOLEAN, behind : BOOLEAN]

MailTypes ==
  /\ IsMail(mail) /\ smtp \in [host : {smtp.host}, pass : {smtp.pass}]
  /\ forms \in [{"page", "save"} -> {forms["page"], forms["save"]}]
  /\ \A why \in {"page", "save"} : IsForm(forms[why])
  /\ \A p \in puts : IsPut(p)

\* A form that shows the account of the database and is not behind shows that account.
Shows(f, host) == ~f.behind /\ f.source = "db" => smtp.host # Blank /\ host = smtp.host
FormsShow == /\ Shows(mail, mail.saw)
             /\ \A why \in {"page", "save"} :
                  forms[why].stage = "read" => Shows(forms[why], forms[why].host)

\* So a call that was sent from such a form, and is not behind, carries that account,
\* and has found its password.
PutKnows(p) ==
  p.by = "page" /\ ~p.behind /\ p.stage # "written" =>
    /\ p.asLoaded => smtp.host # Blank /\ p.host = smtp.host
    /\ p.stage = "read" => p.found = smtp.pass
PutsKnow == \A p \in puts : PutKnows(p)

\* The name on its way is stored, or the one that is shown is.
NameShown ==
  ~mail.renamed => IF mail.naming.stored THEN vpName = mail.naming.name ELSE mail.label = vpName

MailInv == MailTypes /\ FormsShow /\ PutsKnow /\ NameShown

\* The account as the environment has it.
LEMMA MailInvInit == SettingsInit => MailInv
<1> SUFFICES ASSUME SettingsInit PROVE MailInv
  OBVIOUS
<1>1. /\ IsMail(mail) /\ mail.source = "env" /\ mail.label = vpName /\ ~mail.naming.stored
      /\ smtp \in [host : {smtp.host}, pass : {smtp.pass}] /\ puts = {}
      /\ forms = [why \in {"page", "save"} |-> NoForms]
  BY DEF SettingsInit, IsMail, Unnamed, NoRow, EnvSmtp
<1>2. NoForms.stage = "none" /\ IsForm(NoForms)
  BY DEF NoForms, IsForm
<1> QED
  BY <1>1, <1>2 DEF MailInv, MailTypes, FormsShow, Shows, PutsKnow, NameShown

\* What stays in order with the account.
LEMMA AccountStays ==
  ASSUME MailInv, UNCHANGED <<smtp, forms, puts>>, IsMail(mail'), NameShown',
         \/ mail'.behind
         \/ mail'.behind = mail.behind /\ mail'.source = mail.source /\ mail'.saw = mail.saw
  PROVE  MailInv'
BY DEF MailInv, MailTypes, FormsShow, Shows, PutsKnow, PutKnows

\* The VP's name: typed, sent, stored, shown, by one administrator or by another.
LEMMA NamesKeep ==
  ASSUME MailInv, SaveVp \/ UpsertVp \/ RivalVp \/ VpSaved \/ VpFails
  PROVE  MailInv'
<1>1. IsMail(mail) /\ NameShown
  BY DEF MailInv, MailTypes
<1>2. CASE SaveVp
  <2>1. /\ mail' = [mail EXCEPT !.naming.name = mail.vp] /\ mail.naming = Unnamed
        /\ UNCHANGED <<smtp, forms, puts, vpName>>
    BY <1>2 DEF SaveVp, Edits, MailServer
  <2>2. ~mail.naming.stored
    BY <2>1 DEF Unnamed
  <2>3. /\ IsMail(mail') /\ ~mail'.naming.stored /\ mail'.label = mail.label
        /\ mail'.renamed = mail.renamed /\ mail'.behind = mail.behind
        /\ mail'.source = mail.source /\ mail'.saw = mail.saw
    BY <1>1, <2>1, <2>2 DEF IsMail
  <2> QED
    BY <1>1, <2>1, <2>2, <2>3, AccountStays DEF NameShown
<1>3. CASE UpsertVp
  <2>1. /\ mail' = [mail EXCEPT !.naming.stored = TRUE, !.renamed = FALSE]
        /\ vpName' = mail.naming.name /\ UNCHANGED <<smtp, forms, puts>>
    BY <1>3 DEF UpsertVp, Edits
  <2>2. /\ IsMail(mail') /\ mail'.naming.stored /\ mail'.naming.name = mail.naming.name
        /\ mail'.behind = mail.behind /\ mail'.source = mail.source /\ mail'.saw = mail.saw
    BY <1>1, <2>1 DEF IsMail
  <2> QED
    BY <2>1, <2>2, AccountStays DEF NameShown
<1>4. CASE RivalVp
  <2>1. mail' = [mail EXCEPT !.renamed = TRUE] /\ UNCHANGED <<smtp, forms, puts>>
    BY <1>4 DEF RivalVp, Edits
  <2>2. /\ IsMail(mail') /\ mail'.renamed
        /\ mail'.behind = mail.behind /\ mail'.source = mail.source /\ mail'.saw = mail.saw
    BY <1>1, <2>1 DEF IsMail
  <2> QED
    BY <2>1, <2>2, AccountStays DEF NameShown
<1>5. CASE VpSaved
  <2>1. /\ mail' = [mail EXCEPT !.label = mail.naming.name, !.naming = Unnamed]
        /\ mail.naming.stored /\ UNCHANGED <<smtp, forms, puts, vpName>>
    BY <1>5 DEF VpSaved, Edits, MailServer
  <2>2. /\ IsMail(mail') /\ ~mail'.naming.stored /\ mail'.label = mail.naming.name
        /\ mail'.renamed = mail.renamed /\ mail'.behind = mail.behind
        /\ mail'.source = mail.source /\ mail'.saw = mail.saw
    BY <1>1, <2>1 DEF IsMail, Unnamed
  <2> QED
    BY <1>1, <2>1, <2>2, AccountStays DEF NameShown
<1>6. CASE VpFails
  <2>1. PICK b \in BOOLEAN : b = (mail.renamed \/ mail.naming.stored)
    OBVIOUS
  <2>2. mail' = [mail EXCEPT !.naming = Unnamed, !.renamed = b] /\ UNCHANGED <<smtp, forms, puts, vpName>>
    <3>1. mail' = [mail EXCEPT !.naming = Unnamed, !.renamed = mail.renamed \/ mail.naming.stored]
          /\ UNCHANGED <<smtp, forms, puts, vpName>>
      BY <1>6 DEF VpFails, Edits, MailServer
    <3> QED
      BY <2>1, <3>1, Zenon
  <2>3. /\ IsMail(mail') /\ ~mail'.naming.stored /\ mail'.label = mail.label
        /\ mail'.renamed = b /\ mail'.behind = mail.behind
        /\ mail'.source = mail.source /\ mail'.saw = mail.saw
    BY <1>1, <2>2 DEF IsMail, Unnamed
  <2> QED
    BY <1>1, <2>1, <2>2, <2>3, AccountStays DEF NameShown
<1> QED
  BY <1>2, <1>3, <1>4, <1>5, <1>6

\* The fields of a mail form that calls and loads leave alone.
NamesStay == /\ vpName' = vpName /\ mail'.renamed = mail.renamed
             /\ mail'.naming = mail.naming /\ mail'.label = mail.label
\* A name shown stays so.
LEMMA NameStays == ASSUME MailInv, NamesStay PROVE NameShown'
BY DEF MailInv, NameShown, NamesStay

\* What is typed in the form, and whether it is busy or in error, is nothing to the account.
Retyped == /\ IsMail(mail') /\ mail'.behind = mail.behind /\ mail'.source = mail.source
           /\ mail'.saw = mail.saw /\ mail'.renamed = mail.renamed
           /\ mail'.naming = mail.naming /\ mail'.label = mail.label

\* The form is retyped, while calls are sent and forms are loaded.
LEMMA FormsKeep ==
  ASSUME MailInv, UNCHANGED <<smtp, vpName>>, Retyped,
         \A p \in puts' : p \in puts \/ (IsPut(p) /\ PutKnows(p)'),
         \/ UNCHANGED forms
         \/ \E why \in {"page", "save"} : \E f :
              forms' = [forms EXCEPT ![why] = f] /\ IsForm(f) /\ (f.stage = "read" => Shows(f, f.host)')
  PROVE  MailInv'
<1>1. /\ IsMail(mail') /\ mail'.behind = mail.behind /\ mail'.source = mail.source
      /\ mail'.saw = mail.saw /\ mail'.renamed = mail.renamed
      /\ mail'.naming = mail.naming /\ mail'.label = mail.label
  BY DEF Retyped
<1>2. NameShown'
  BY <1>1, NameStays DEF NamesStay
<1>3. \A p \in puts' : IsPut(p) /\ PutKnows(p)'
  BY DEF MailInv, MailTypes, PutsKnow, PutKnows
<1>4. /\ forms' \in [{"page", "save"} -> {forms'["page"], forms'["save"]}]
      /\ \A why \in {"page", "save"} :
           IsForm(forms'[why]) /\ (forms'[why].stage = "read" => Shows(forms[why], forms[why].host)')
  <2>1. CASE UNCHANGED forms
    BY <2>1 DEF MailInv, MailTypes, FormsShow, Shows
  <2>2. ASSUME NEW why \in {"page", "save"}, NEW f, forms' = [forms EXCEPT ![why] = f], IsForm(f),
               f.stage = "read" => Shows(f, f.host)'
        PROVE  <1>4!1 /\ <1>4!2
    <3>1. /\ forms'[why] = f /\ forms' = [o \in {"page", "save"} |-> forms'[o]]
          /\ \A o \in {"page", "save"} : o # why => forms'[o] = forms[o]
      BY <2>2 DEF MailInv, MailTypes
    <3>2. \A o \in {"page", "save"} :
            IsForm(forms'[o]) /\ (forms'[o].stage = "read" => Shows(forms[o], forms[o].host)')
      BY <2>2, <3>1 DEF MailInv, MailTypes, FormsShow, Shows
    <3>3. forms' \in [{"page", "save"} -> {forms'["page"], forms'["save"]}]
      BY <3>1
    <3> QED
      BY <3>2, <3>3
  <2> QED
    BY <2>1, <2>2
<1>5. Shows(mail, mail.saw)'
  BY <1>1 DEF MailInv, FormsShow, Shows
<1> QED
  BY <1>1, <1>2, <1>3, <1>4, <1>5 DEF MailInv, MailTypes, FormsShow, PutsKnow

\* A call is sent, reads the password, is refused or lost.
LEMMA CallsKeep ==
  ASSUME MailInv,
         \/ SaveMail \/ \E h, s : RivalMail(h, s)
         \/ \E p \in puts : ReadPassword(p) \/ SmtpFails(p)
  PROVE  MailInv'
<1>0. IsMail(mail) /\ \A p \in puts : IsPut(p)
  BY DEF MailInv, MailTypes
<1>1. CASE SaveMail
  <2>1. PICK p : p = PutOf("page", mail.host, mail.pass, mail.behind)
    OBVIOUS
  <2>2. /\ mail' = [mail EXCEPT !.busy = TRUE] /\ puts' = puts \cup {p}
        /\ UNCHANGED <<smtp, vpName, forms>>
    BY <1>1, <2>1 DEF SaveMail, Edits
  <2>3. /\ IsPut(p) /\ p.stage = "asked" /\ p.host = mail.host /\ p.behind = mail.behind
        /\ p.asLoaded => mail.source = "db" /\ mail.host = mail.saw
    BY <1>0, <2>1 DEF PutOf, IsPut, IsMail
  <2>4. PutKnows(p)'
    BY <2>2, <2>3 DEF PutKnows, MailInv, FormsShow, Shows
  <2>5. Retyped
    BY <1>0, <2>2 DEF IsMail, Retyped
  <2> QED
    BY <2>2, <2>3, <2>4, <2>5, FormsKeep
<1>2. ASSUME NEW h, NEW s, RivalMail(h, s) PROVE MailInv'
  <2>1. PICK p : p = PutOf("rival", h, s, TRUE)
    OBVIOUS
  <2>2. puts' = puts \cup {p} /\ UNCHANGED <<smtp, vpName, mail, forms>>
    BY <1>2, <2>1 DEF RivalMail
  <2>3. IsPut(p) /\ p.by = "rival"
    BY <1>0, <2>1 DEF PutOf, IsPut
  <2>4. PutKnows(p)'
    BY <2>3 DEF PutKnows
  <2>5. Retyped
    BY <1>0, <2>2 DEF IsMail, Retyped
  <2> QED
    BY <2>2, <2>3, <2>4, <2>5, FormsKeep
<1>3. ASSUME NEW p \in puts, ReadPassword(p) PROVE MailInv'
  <2>1. PICK q : q = [p EXCEPT !.found = smtp.pass, !.stage = "read"]
    OBVIOUS
  <2>2. /\ puts' = (puts \ {p}) \cup {q} /\ UNCHANGED <<smtp, vpName, mail, forms>>
        /\ p.stage = "asked"
    BY <1>3, <2>1 DEF ReadPassword
  <2>3. /\ IsPut(q) /\ q.found = smtp.pass /\ q.by = p.by /\ q.behind = p.behind
        /\ q.asLoaded = p.asLoaded /\ q.host = p.host
    BY <1>0, <2>1 DEF IsPut
  <2>4. PutKnows(q)'
    BY <2>2, <2>3 DEF PutKnows, MailInv, PutsKnow
  <2>5. Retyped
    BY <1>0, <2>2 DEF IsMail, Retyped
  <2> QED
    BY <2>2, <2>3, <2>4, <2>5, FormsKeep
<1>4. ASSUME NEW p \in puts, SmtpFails(p) PROVE MailInv'
  <2>1. mail' = [mail EXCEPT !.busy = FALSE] /\ puts' = puts \ {p} /\ UNCHANGED <<smtp, vpName, forms>>
    BY <1>4 DEF SmtpFails, Edits
  <2>2. Retyped
    BY <1>0, <2>1 DEF IsMail, Retyped
  <2> QED
    BY <2>1, <2>2, FormsKeep
<1> QED
  BY <1>1, <1>2, <1>3, <1>4

\* Something is typed; a form is asked for, read or lost.
LEMMA ReadingsKeep ==
  ASSUME MailInv,
         \/ \E field \in {"host", "pass", "vp"} : \E v : Fill(field, v)
         \/ \E p \in puts : SmtpSaved(p)
         \/ RetryMail \/ \E why \in {"page", "save"} : ReadForm(why) \/ LoadFormFails(why)
  PROVE  MailInv'
<1>0. IsMail(mail)
  BY DEF MailInv, MailTypes
<1>1. IsForm(NoForms) /\ NoForms.stage = "none"
  BY DEF IsForm, NoForms
<1>2. IsForm([NoForms EXCEPT !.stage = "asked"]) /\ [NoForms EXCEPT !.stage = "asked"].stage = "asked"
  BY DEF IsForm, NoForms
<1>3. ASSUME NEW field \in {"host", "pass", "vp"}, NEW v, Fill(field, v) PROVE MailInv'
  <2>1. mail' = [mail EXCEPT ![field] = v] /\ UNCHANGED <<smtp, vpName, forms, puts>>
    BY <1>3 DEF Fill, Edits, MailServer
  <2>2. Retyped
    <3>1. field = "host" \/ field = "pass" \/ field = "vp"
      OBVIOUS
    <3> QED
      BY <1>0, <2>1, <3>1 DEF IsMail, Retyped
  <2> QED
    BY <2>1, <2>2, FormsKeep
<1>4. ASSUME NEW p \in puts, SmtpSaved(p) PROVE MailInv'
  <2>1. /\ mail' = [mail EXCEPT !.pass = Blank, !.error = FALSE] /\ puts' = puts \ {p}
        /\ LoadForm("save") /\ UNCHANGED <<smtp, vpName>>
    BY <1>4 DEF SmtpSaved, Edits
  <2>2. Retyped
    BY <1>0, <2>1 DEF IsMail, Retyped
  <2> QED
    BY <1>2, <2>1, <2>2, FormsKeep DEF LoadForm
<1>5. CASE RetryMail
  <2>1. /\ mail' = [mail EXCEPT !.error = FALSE] /\ LoadForm("page") /\ UNCHANGED <<smtp, vpName, puts>>
    BY <1>5 DEF RetryMail, Edits
  <2>2. Retyped
    BY <1>0, <2>1 DEF IsMail, Retyped
  <2> QED
    BY <1>2, <2>1, <2>2, FormsKeep DEF LoadForm
<1>6. ASSUME NEW why \in {"page", "save"}, ReadForm(why) PROVE MailInv'
  <2>1. PICK f : f = Form
    OBVIOUS
  <2>2. forms' = [forms EXCEPT ![why] = f] /\ UNCHANGED <<smtp, vpName, mail, puts>>
    BY <1>6, <2>1 DEF ReadForm
  <2>3. IsForm(f) /\ Shows(f, f.host)'
    BY <2>1, <2>2 DEF Form, IsForm, Shows, effective
  <2>4. Retyped
    BY <1>0, <2>2 DEF IsMail, Retyped
  <2> QED
    BY <2>2, <2>3, <2>4, FormsKeep
<1>7. ASSUME NEW why \in {"page", "save"}, LoadFormFails(why) PROVE MailInv'
  <2>1. PICK b : b = (mail.busy /\ why # "save")
    OBVIOUS
  <2>2. /\ mail' = [mail EXCEPT !.error = TRUE, !.busy = b] /\ forms' = [forms EXCEPT ![why] = NoForms]
        /\ UNCHANGED <<smtp, vpName, puts>>
    BY <1>7, <2>1, Zenon DEF LoadFormFails, Edits
  <2>3. Retyped
    BY <1>0, <2>2 DEF IsMail, Retyped
  <2> QED
    BY <1>1, <2>2, <2>3, FormsKeep
<1> QED
  BY <1>3, <1>4, <1>5, <1>6, <1>7

\* The account is written: whoever has read it is behind.
LEMMA UpsertSmtpKeeps ==
  ASSUME MailInv, NEW p \in puts, UpsertSmtp(p)
  PROVE  MailInv'
<1>0. IsMail(mail) /\ \A q \in puts : IsPut(q)
  BY DEF MailInv, MailTypes
<1>1. /\ mail' = [mail EXCEPT !.behind = TRUE] /\ UNCHANGED vpName
      /\ smtp' = [host |-> p.host, pass |-> PasswordEnc(p)]
      /\ puts' = {[q EXCEPT !.behind = TRUE] : q \in puts \ {p}}
                   \cup (IF p.by = "page" THEN {[p EXCEPT !.stage = "written"]} ELSE {})
      /\ forms' = [why \in DOMAIN forms |-> [forms[why] EXCEPT !.behind = forms[why].stage = "read"]]
  BY DEF UpsertSmtp, Edits
<1>2. /\ IsMail(mail') /\ mail'.behind /\ mail'.renamed = mail.renamed
      /\ mail'.naming = mail.naming /\ mail'.label = mail.label
  BY <1>0, <1>1 DEF IsMail
<1>3. NameShown'
  BY <1>1, <1>2, NameStays DEF NamesStay
<1>4. \A q \in puts' : IsPut(q) /\ PutKnows(q)'
  <2>1. ASSUME NEW q \in puts PROVE IsPut([q EXCEPT !.behind = TRUE]) /\ PutKnows([q EXCEPT !.behind = TRUE])'
    BY <1>0 DEF IsPut, PutKnows
  <2>2. IsPut([p EXCEPT !.stage = "written"]) /\ PutKnows([p EXCEPT !.stage = "written"])'
    BY <1>0 DEF IsPut, PutKnows
  <2> QED
    BY <1>1, <2>1, <2>2
<1>5. smtp' \in [host : {smtp'.host}, pass : {smtp'.pass}]
  BY <1>1
<1>6. ASSUME NEW why \in {"page", "save"}
      PROVE  IsForm(forms'[why]) /\ (forms'[why].stage = "read" => forms'[why].behind)
  <2>1. DOMAIN forms = {"page", "save"} /\ IsForm(forms[why])
    BY DEF MailInv, MailTypes
  <2>2. PICK b \in BOOLEAN : b = (forms[why].stage = "read")
    OBVIOUS
  <2>3. forms'[why] = [forms[why] EXCEPT !.behind = forms[why].stage = "read"]
    BY <1>1, <2>1
  <2>4. forms'[why] = [forms[why] EXCEPT !.behind = b]
    BY <2>2, <2>3, Zenon
  <2> QED
    BY <2>1, <2>2, <2>4 DEF IsForm
<1>7. forms' \in [{"page", "save"} -> {forms'["page"], forms'["save"]}]
  <2>1. DOMAIN forms = {"page", "save"}
    BY DEF MailInv, MailTypes
  <2>2. forms' = [why \in {"page", "save"} |-> forms'[why]]
    BY <1>1, <2>1
  <2> QED
    BY <2>2
<1> QED
  BY <1>2, <1>3, <1>4, <1>5, <1>6, <1>7 DEF MailInv, MailTypes, FormsShow, Shows, PutsKnow

\* A form that was read is shown.
LEMMA ShowFormKeeps ==
  ASSUME MailInv, NEW why \in {"page", "save"}, ShowForm(why)
  PROVE  MailInv'
<1>0. IsMail(mail) /\ IsForm(forms[why])
  BY DEF MailInv, MailTypes
<1>1. PICK b : b = (mail.busy /\ why # "save")
  OBVIOUS
<1>2. /\ mail' = [mail EXCEPT !.host = forms[why].host, !.saw = forms[why].host,
                              !.source = forms[why].source, !.behind = forms[why].behind,
                              !.pass = Blank, !.vp = forms[why].vp, !.busy = b]
      /\ forms[why].stage = "read" /\ forms' = [forms EXCEPT ![why] = NoForms]
      /\ UNCHANGED <<smtp, vpName, puts>>
  BY <1>1, Zenon DEF ShowForm, Edits
<1>3. /\ IsMail(mail') /\ mail'.saw = forms[why].host /\ mail'.source = forms[why].source
      /\ mail'.behind = forms[why].behind /\ mail'.renamed = mail.renamed
      /\ mail'.naming = mail.naming /\ mail'.label = mail.label
  BY <1>0, <1>2 DEF IsMail, IsForm
<1>4. NameShown' /\ Shows(mail, mail.saw)'
  BY <1>2, <1>3, NameStays DEF NamesStay, MailInv, FormsShow, Shows
<1>5. IsForm(NoForms) /\ NoForms.stage = "none"
  BY DEF IsForm, NoForms
<1>6. /\ forms'[why] = NoForms /\ forms' = [o \in {"page", "save"} |-> forms'[o]]
      /\ \A o \in {"page", "save"} : o # why => forms'[o] = forms[o]
  BY <1>2 DEF MailInv, MailTypes
<1>7. forms' \in [{"page", "save"} -> {forms'["page"], forms'["save"]}]
  BY <1>6
<1> QED
  BY <1>2, <1>3, <1>4, <1>5, <1>6, <1>7 DEF MailInv, MailTypes, FormsShow, Shows, PutsKnow, PutKnows

\* Every step of either page keeps the account in order.
LEMMA MailInvStep == MailInv /\ [SettingsNext]_settingsVars => MailInv'
<1> SUFFICES ASSUME MailInv, [SettingsNext]_settingsVars PROVE MailInv'
  OBVIOUS
<1>1. CASE UNCHANGED MailPane
  BY <1>1 DEF MailPane, MailInv, MailTypes, FormsShow, Shows, PutsKnow, PutKnows, NameShown
<1>2. UNCHANGED settingsVars => UNCHANGED MailPane
  BY DEF settingsVars, MailPane
<1>3. OnSla => UNCHANGED MailPane
  BY DEF OnSla
<1>4. CASE \/ \E h \in Host \cup {Blank} : Fill("host", h) \/ \E s \in Secret : RivalMail(h, s)
           \/ \E s \in Secret : Fill("pass", s)
           \/ \E v \in {"Khang", Blank} : Fill("vp", v)
           \/ SaveMail \/ RetryMail
           \/ \E p \in puts : ReadPassword(p) \/ UpsertSmtp(p) \/ SmtpSaved(p) \/ SmtpFails(p)
           \/ \E why \in {"page", "save"} : ReadForm(why) \/ ShowForm(why) \/ LoadFormFails(why)
  BY <1>4, CallsKeep, ReadingsKeep, UpsertSmtpKeeps, ShowFormKeeps
<1>5. CASE SaveVp \/ UpsertVp \/ RivalVp \/ VpSaved \/ VpFails
  BY <1>5, NamesKeep
<1> QED
  BY <1>1, <1>2, <1>3, <1>4, <1>5 DEF SettingsNext, setVal, RivalSla, commitVal, revertAll, saveAll,
     upsertSla, SavedRow, SaveFails, Retry, ReadTable, ShowTable, LoadTableFails

\* The label shows the name that is stored.
LEMMA LabelIsTrue == MailInv => LabelTrue
BY DEF MailInv, NameShown, LabelTrue, Unnamed

\* A form saved as it was loaded leaves the account as it was.
LEMMA KeepingKeeps ==
  ASSUME MailInv, [SettingsNext]_settingsVars, NEW p \in puts,
         p.by = "page", p.asLoaded, p.pass = Blank, ~p.behind, p.stage = "read",
         [p EXCEPT !.stage = "written"] \in puts'
  PROVE  effective' = effective
<1>1. CASE smtp' = smtp
  BY <1>1 DEF effective
<1>2. smtp' # smtp => \E q \in puts : UpsertSmtp(q)
  BY DEF SettingsNext, settingsVars, OnSla, MailPane, setVal, RivalSla, commitVal, revertAll, saveAll,
     upsertSla, SavedRow, SaveFails, Retry, ReadTable, ShowTable, LoadTableFails, Fill, RivalMail,
     SaveMail, ReadPassword, SmtpSaved, SmtpFails, RetryMail, ReadForm, ShowForm, LoadFormFails,
     SaveVp, UpsertVp, RivalVp, VpSaved, VpFails, MailServer
<1>3. ASSUME NEW q \in puts, UpsertSmtp(q) PROVE effective' = effective
  <2>1. /\ smtp' = [host |-> q.host, pass |-> PasswordEnc(q)] /\ q.stage = "read"
        /\ puts' = {[o EXCEPT !.behind = TRUE] : o \in puts \ {q}}
                   \cup (IF q.by = "page" THEN {[q EXCEPT !.stage = "written"]} ELSE {})
    BY <1>3 DEF UpsertSmtp
  <2>2. IsPut(p) /\ IsPut(q) /\ (\A o \in puts : IsPut(o))
    BY DEF MailInv, MailTypes
  <2>3. PICK w : w = [p EXCEPT !.stage = "written"]
    OBVIOUS
  <2>4. ~w.behind
    BY <2>2, <2>3 DEF IsPut
  <2>5. \A o \in puts : [o EXCEPT !.behind = TRUE].behind
    BY <2>2 DEF IsPut
  <2>6. w = [q EXCEPT !.stage = "written"]
    BY <2>1, <2>3, <2>4, <2>5
  <2>7. p = q
    BY <2>1, <2>2, <2>3, <2>6 DEF IsPut
  <2>8. smtp.host # Blank /\ p.host = smtp.host /\ p.found = smtp.pass
    BY DEF MailInv, PutsKnow, PutKnows
  <2>9. smtp = [host |-> smtp.host, pass |-> smtp.pass]
    BY DEF MailInv, MailTypes
  <2> QED
    BY <2>1, <2>7, <2>8, <2>9 DEF PasswordEnc, effective
<1> QED
  BY <1>1, <1>2, <1>3

\* The save bar offers what is not stored yet, the label shows the name that is, and
\* a mail form saved as it was loaded stores no other account (SlaConfigAdmin and
\* SmtpConfig).
THEOREM SettingsAreSound == SettingsSpec => SettingsSound
<1>1. TableInv /\ MailInv => DirtyIsUnsaved /\ LabelTrue
  BY BarIsTrue, LabelIsTrue
<1>2. MailInv /\ [SettingsNext]_settingsVars =>
        \A p \in puts : p.by = "page" /\ p.asLoaded /\ p.pass = Blank /\ ~p.behind
                       /\ p.stage = "read" /\ [p EXCEPT !.stage = "written"] \in puts'
                       => effective' = effective
  BY KeepingKeeps
<1> QED
  BY <1>1, <1>2, TableInvInit, TableInvStep, MailInvInit, MailInvStep, PTL
     DEF SettingsSpec, SettingsSound, KeepMeansKeep
=============================================================================
