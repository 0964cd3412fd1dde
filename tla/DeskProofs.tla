----------------------------- MODULE DeskProofs -----------------------------
(***************************************************************************)
(* The board of a desk in the browser, for any files, numbers and bounds:  *)
(* its batch actions, and its buttons, dialogs, sheet and loads.           *)
(***************************************************************************)
EXTENDS Bulk, Desk, FiniteSetTheorems, TLAPS

-----------------------------------------------------------------------------
(***************************************************************************)
(* The bulk bar: every "select all" leads somewhere.                       *)
(***************************************************************************)
\* An action of a column that a bulk may carry out.
InBulk(e) == e.from \in StationsForRole("DCC1") /\ e.owner = "DCC1" /\ e.event \notin NeverBulk

\* At a desk with several flows, Payment tickets can be moved in bulk at one column only,
\* and there both other than General are handed over.
OneBulkOfPayments(e) ==
  InBulk(e) => /\ e.flow \in {"Payment", "*"} =>
                    e.from \in {"Submitted", "SubmittedToVpAndy"} /\
                    (e.from = "SubmittedToVpAndy" => e.event \in HandoverEvents)
               /\ e.flow \in {"Contract", "*"} /\ e.from = "SubmittedToVpAndy" =>
                    e.event \in HandoverEvents

\* Every edge is of that kind.
LEMMA BulkEdges == \A e \in Edges : OneBulkOfPayments(e)
<1> USE DEF OneBulkOfPayments, InBulk, StationsForRole, NeverBulk, HandoverEvents, HeavyReturn,
        Reversible, Plain, EdgeOf
<1>1. \A e \in SharedEdges : OneBulkOfPayments(e)
  BY DEF SharedEdges
<1>2. \A e \in GeneralEdges : OneBulkOfPayments(e)
  BY DEF GeneralEdges
<1>3. \A e \in ContractEdges : OneBulkOfPayments(e)
  BY DEF ContractEdges
<1>4. \A e \in PaymentEdges : OneBulkOfPayments(e)
  BY DEF PaymentEdges
<1> HIDE DEF OneBulkOfPayments
<1>5. QED
  BY <1>1, <1>2, <1>3, <1>4 DEF Edges

\* What a bulk may do with a ticket of a column: its status, flow and desk say it.
BulkOf(status, role, flow) == ActionsFor(status, role, flow) \ NeverBulk
KeysOf(status, role, flow) == {BulkKey(e) : e \in BulkOf(status, role, flow)}

\* The stations of a desk that has a bulk bar are statuses, and DCC2 has one flow.
LEMMA StationsAreStatuses ==
  ASSUME NEW role \in {"DCC1", "DCC2"}
  PROVE  /\ StationsForRole(role) \subseteq Status /\ role \in Desk
         /\ RoleFlows(role) \subseteq Flow /\ (role = "DCC2" => RoleFlows(role) = {"Contract"})
BY DEF StationsForRole, Status, Desk, RoleFlows, Flow

\* Contract and Payment share an action wherever both have one.
LEMMA PapersShare ==
  ASSUME NEW status \in StationsForRole("DCC1"),
         BulkOf(status, "DCC1", "Payment") # {}
  PROVE  \A flow \in {"Contract", "Payment"} :
           \A k \in KeysOf(status, "DCC1", flow) : k = "__handover-dcc"
<1>1. ASSUME NEW flow \in {"Contract", "Payment"}, NEW event \in BulkOf(status, "DCC1", flow)
      PROVE  /\ status # "Submitted"
             /\ \E e \in Edges : /\ InBulk(e) /\ e.event = event /\ e.from = status
                                 /\ e.flow \in {flow, "*"}
  <2>1. event \notin NeverBulk /\ event \in ActionsFor(status, "DCC1", flow)
    BY <1>1 DEF BulkOf
  <2>2. status # "Submitted"
    BY <2>1 DEF ActionsFor, NeverBulk
  <2>3. event \in LegalActions(status, "DCC1", flow)
    BY <2>1, <2>2 DEF ActionsFor
  <2>4. QED
    BY <2>1, <2>2, <2>3 DEF LegalActions, InBulk
<1>2. status = "SubmittedToVpAndy"
  BY <1>1, BulkEdges DEF OneBulkOfPayments
<1>3. \A flow \in {"Contract", "Payment"} :
        \A event \in BulkOf(status, "DCC1", flow) : event \in HandoverEvents
  BY <1>1, <1>2, BulkEdges DEF OneBulkOfPayments
<1>4. QED
  BY <1>3 DEF KeysOf, BulkKey

\* Cards of one column with one set of keys share an action.
LEMMA SameKeysShare ==
  ASSUME NEW cards, cards # {}, NEW K, K # {},
         \A c \in cards : {BulkKey(e) : e \in Bulkable(c)} = K
  PROVE  CommonBulkActions(cards) # {}
<1>1. {{BulkKey(e) : e \in Bulkable(c)} : c \in cards} = {K}
  OBVIOUS
<1>2. PICK k : k \in K
  OBVIOUS
<1>3. k \in CommonBulkActions(cards)
  BY <1>1, <1>2 DEF CommonBulkActions
<1>4. QED
  BY <1>3

\* Every "select all" leads somewhere.
LEMMA SelectionsAct ==
  ASSUME desk \in {"DCC1", "DCC2"}
  PROVE  SelectAllActs
<1> SUFFICES ASSUME NEW g \in Groups PROVE CommonBulkActions(g) # {}
  BY DEF SelectAllActs
<1>1. PICK s \in StationsForRole(desk) : Selectable(s) # {} /\ g \in BulkSelectGroups(Selectable(s))
  BY DEF Groups
<1> DEFINE cards == Selectable(s)
           general == {c \in cards : shown[c].flow = "General"}
<1>2. \A c \in cards : /\ shown[c].flow \in RoleFlows(desk) /\ shown[c].flow \in Flow
                       /\ Bulkable(c) = BulkOf(s, desk, shown[c].flow)
                       /\ BulkOf(s, desk, shown[c].flow) # {}
  <2> SUFFICES ASSUME NEW c \in cards
               PROVE  /\ shown[c].flow \in RoleFlows(desk) /\ shown[c].flow \in Flow
                      /\ Bulkable(c) = BulkOf(s, desk, shown[c].flow)
                      /\ BulkOf(s, desk, shown[c].flow) # {}
    OBVIOUS
  <2>1. shown[c].status = s /\ Bulkable(c) # {}
    BY DEF Selectable
  <2>2. OnBoard(c)
    BY <2>1 DEF Bulkable, ActionsOf
  <2>3. s \in Status /\ desk \in Desk /\ shown[c].flow \in RoleFlows(desk) /\ shown[c].flow \in Flow
    BY <2>2, StationsAreStatuses DEF OnBoard
  <2>4. Offers[s][desk][shown[c].flow] = ActionsFor(s, desk, shown[c].flow)
    BY <2>3 DEF Offers
  <2>5. Bulkable(c) = BulkOf(s, desk, shown[c].flow)
    BY <2>1, <2>2, <2>4 DEF Bulkable, ActionsOf, BulkOf
  <2>6. QED
    BY <2>1, <2>3, <2>5
<1>3. ASSUME NEW some \in SUBSET cards, some # {}, NEW f \in Flow, \A c \in some : shown[c].flow = f
      PROVE  CommonBulkActions(some) # {}
  <2>1. PICK c \in some : TRUE
    BY <1>3
  <2>2. KeysOf(s, desk, f) # {}
    BY <1>2, <1>3, <2>1 DEF KeysOf
  <2>3. \A d \in some : {BulkKey(e) : e \in Bulkable(d)} = KeysOf(s, desk, f)
    BY <1>2, <1>3 DEF KeysOf
  <2>4. QED
    BY <1>3, <2>2, <2>3, SameKeysShare
<1>4. ASSUME NEW some \in SUBSET cards, some # {}, \A c \in some : shown[c].flow # "General"
      PROVE  CommonBulkActions(some) # {}
  <2>1. \A c \in some : shown[c].flow \in {"Contract", "Payment"}
    BY <1>2, <1>4 DEF Flow
  <2>2. CASE \A c \in some : shown[c].flow = "Contract"
    BY <1>3, <1>4, <2>2 DEF Flow
  <2>3. CASE \E c \in some : shown[c].flow = "Payment"
    <3>1. PICK c \in some : shown[c].flow = "Payment"
      BY <2>3
    <3>2. desk = "DCC1" /\ BulkOf(s, "DCC1", "Payment") # {}
      BY <1>2, <3>1, StationsAreStatuses
    <3>3. \A d \in some : {BulkKey(e) : e \in Bulkable(d)} = KeysOf(s, "DCC1", shown[d].flow)
      BY <1>2, <3>2 DEF KeysOf
    <3>4. \A d \in some : \A k \in KeysOf(s, "DCC1", shown[d].flow) : k = "__handover-dcc"
      BY <2>1, <3>2, PapersShare, <1>1
    <3>5. \A d \in some : KeysOf(s, "DCC1", shown[d].flow) # {}
      BY <1>2, <3>2 DEF KeysOf
    <3>6. \A d \in some : KeysOf(s, "DCC1", shown[d].flow) = {"__handover-dcc"}
      BY <3>4, <3>5
    <3>7. QED
      BY <1>4, <3>3, <3>6, SameKeysShare
  <2>4. QED
    BY <2>1, <2>2, <2>3
<1>5. general \subseteq cards /\ (\A c \in general : shown[c].flow = "General")
      /\ (\A c \in cards \ general : shown[c].flow # "General")
  OBVIOUS
<1>6. g \in IF CommonBulkActions(cards) # {} \/ general \in {{}, cards}
              THEN {cards} ELSE {general, cards \ general}
  BY <1>1 DEF BulkSelectGroups
<1>7. "General" \in Flow /\ cards # {}
  BY <1>1 DEF Flow
<1> HIDE DEF cards, general
<1>8. CASE CommonBulkActions(cards) # {}
  BY <1>6, <1>8
<1>9. CASE CommonBulkActions(cards) = {} /\ general = {}
  BY <1>4, <1>5, <1>6, <1>7, <1>9
<1>10. CASE CommonBulkActions(cards) = {} /\ general = cards
  BY <1>3, <1>5, <1>6, <1>7, <1>10
<1>11. CASE CommonBulkActions(cards) = {} /\ general # {} /\ general # cards
  BY <1>3, <1>4, <1>5, <1>6, <1>7, <1>11
<1>12. QED
  BY <1>8, <1>9, <1>10, <1>11

-----------------------------------------------------------------------------
(***************************************************************************)
(* The tally tells the truth.                                              *)
(***************************************************************************)
IsPost(p) == p \in [event : {p.event}, cards : SUBSET Card, todo : SUBSET Card,
                    ok : SUBSET Card, hard : SUBSET Card, lost : BOOLEAN]

\* A call has only its own cards to do, and has moved those it has done.
PostSound(p) == /\ IsPost(p)
                /\ p.todo \subseteq p.cards /\ p.hard \subseteq p.cards
                /\ p.ok = p.cards \cap moved

PostsSound == \A p \in posts : PostSound(p)

\* No card is in two calls.
PostsApart == \A p, q \in posts : p # q => p.cards \cap q.cards = {}

\* The cards of the dialog are those of the calls and those settled before, and a
\* settled result that no later call speaks for says whether the card was moved.
Settling ==
  /\ posts # {} => running.cards = DOMAIN settled \cup UNION {p.cards : p \in posts}
  /\ \A c \in DOMAIN settled \ UNION {p.cards : p \in posts} : settled[c] = (c \in moved)

\* Without a batch there are no calls and no results.
AtRest == running = NoAsk \/ posts = {} => posts = {} /\ settled = NoResults

BulkInv == /\ desk \in {"DCC1", "DCC2"}
           /\ ticks \in SUBSET Card /\ asked.cards \in SUBSET Card
           /\ moved \in SUBSET Card
           /\ PostsSound /\ PostsApart /\ Settling /\ AtRest /\ TallyHonest

\* The invariant of the batches holds before a card is ticked.
LEMMA BulkInvInit == BulkInit => BulkInv
<1> SUFFICES ASSUME BulkInit PROVE BulkInv
  OBVIOUS
<1>1. DOMAIN NoResults = {} /\ report.over = {} /\ report.results = NoResults
  BY DEF BulkInit, NoReport, NoResults
<1>2. TallyHonest
  BY <1>1 DEF TallyHonest
<1>3. PostsSound /\ PostsApart /\ Settling /\ AtRest
  BY <1>1 DEF BulkInit, PostsSound, PostsApart, Settling, AtRest
<1>4. QED
  BY <1>2, <1>3 DEF BulkInit, BulkInv, NoAsk

\* What the clicks, the loads and the dialog leave alone.
LEMMA ClicksKeep ==
  ASSUME BulkInv, UNCHANGED <<desk, running, posts, settled, report, moved>>,
         ticks' \in SUBSET Card, asked'.cards \in SUBSET Card
  PROVE  BulkInv'
<1>1. PostsSound' /\ PostsApart'
  BY DEF BulkInv, PostsSound, PostSound, IsPost, PostsApart
<1>2. Settling' /\ AtRest' /\ TallyHonest'
  BY DEF BulkInv, Settling, AtRest, TallyHonest
<1>3. QED
  BY <1>1, <1>2 DEF BulkInv

\* A call that begins speaks for cards no call speaks for.
LEMMA RunBatchKeeps ==
  ASSUME BulkInv, RunBatch
  PROVE  BulkInv'
<1> DEFINE cards == asked.cards
<1>1. /\ cards \in SUBSET Card /\ running' = asked /\ moved' = {} /\ report' = NoReport
      /\ settled' = NoResults /\ desk' = desk /\ ticks' = ticks /\ asked' = NoAsk /\ asked # NoAsk
  BY DEF BulkInv, RunBatch, AtRest
<1>2. DOMAIN NoResults = {} /\ NoReport.over = {} /\ NoReport.results = NoResults
  BY DEF NoReport, NoResults
<1> DEFINE part(e) == {c \in cards : HandoverEventOf(c) = e}
           events == {HandoverEventOf(c) : c \in cards}
<1>3. /\ \A e : part(e) \in SUBSET cards
      /\ \A e : \A c : c \in part(e) <=> c \in cards /\ HandoverEventOf(c) = e
      /\ \A c \in cards : HandoverEventOf(c) \in events
  OBVIOUS
<1>4. \A p, e : \A own \in SUBSET cards : p = Post(e, own) =>
        /\ p \in [event : {p.event}, cards : SUBSET Card, todo : SUBSET Card,
                  ok : SUBSET Card, hard : SUBSET Card, lost : BOOLEAN]
        /\ p.cards = own /\ p.todo = own /\ p.hard = {} /\ p.ok = {} /\ p.event = e
  BY <1>1 DEF Post
<1>5. \/ posts' = {Post(e, part(e)) : e \in events}
      \/ posts' = {Post(asked.event, cards)}
  BY DEF RunBatch, BatchByHandover
<1> HIDE DEF part, events
<1>6. /\ \A p \in posts' : \E e : \E own \in SUBSET cards : p = Post(e, own)
      /\ \A p, q \in posts' : p # q => p.cards \cap q.cards = {}
      /\ \A c : (\E p \in posts' : c \in p.cards) <=> c \in cards
  <2>1. CASE posts' = {Post(e, part(e)) : e \in events}
    <3>1. \A p \in posts' : \E e : p = Post(e, part(e))
      BY <2>1
    <3>2. \A p \in posts' : p.cards = part(p.event) /\ p = Post(p.event, part(p.event))
      BY <1>3, <1>4, <3>1
    <3>3. \A p, q \in posts' : \A c : c \in p.cards /\ c \in q.cards => p = q
      BY <1>3, <3>2
    <3>4. \A c \in cards : Post(HandoverEventOf(c), part(HandoverEventOf(c))) \in posts'
      BY <1>3, <2>1
    <3>5. \A c \in cards : \E p \in posts' : c \in p.cards
      BY <1>3, <1>4, <3>4
    <3>6. \A p \in posts' : p.cards \in SUBSET cards
      BY <1>3, <3>2
    <3>7. QED
      BY <1>3, <3>1, <3>3, <3>5, <3>6
  <2>2. CASE posts' = {Post(asked.event, cards)}
    <3>1. posts' = {Post(asked.event, cards)} /\ cards \in SUBSET cards
      BY <2>2
    <3> HIDE DEF cards
    <3>2. QED
      BY <1>4, <3>1
  <2>3. QED
    BY <1>5, <2>1, <2>2
<1> HIDE DEF cards
<1>10. PostsSound' /\ PostsApart'
  <2>1. ASSUME NEW p \in posts' PROVE PostSound(p)'
    <3>1. PICK e : \E own \in SUBSET cards : p = Post(e, own)
      BY <1>6
    <3>2. QED
      BY <1>1, <1>4, <3>1 DEF PostSound, IsPost
  <2>2. QED
    BY <1>6, <2>1 DEF PostsSound, PostsApart
<1>7. Settling'
  <2>1. UNION {p.cards : p \in posts'} = cards
    BY <1>6
  <2>2. QED
    BY <1>1, <1>2, <2>1 DEF Settling, cards
<1>8. AtRest' /\ TallyHonest'
  BY <1>1, <1>2 DEF AtRest, TallyHonest
<1>9. QED
  BY <1>1, <1>7, <1>8, <1>10 DEF BulkInv, NoAsk

\* One call replaced by itself with other results: the cards of the calls stay.
LEMMA CallReplaced ==
  ASSUME BulkInv, NEW p \in posts, NEW r, r.cards = p.cards, posts' = (posts \ {p}) \cup {r},
         UNCHANGED <<desk, ticks, asked, running, settled, report>>,
         moved' \in SUBSET Card, PostSound(r)',
         moved' \ moved \subseteq p.cards, moved \subseteq moved'
  PROVE  BulkInv'
<1>1. PostSound(p) /\ PostsSound /\ PostsApart
  BY DEF BulkInv, PostsSound
<1>2. ASSUME NEW q \in posts, q # p PROVE PostSound(q)'
  <2>1. PostSound(q) /\ q.cards \cap p.cards = {}
    BY <1>1, <1>2 DEF PostsSound, PostsApart
  <2>2. q.ok = q.cards \cap moved'
    BY <2>1 DEF PostSound
  <2>3. QED
    BY <2>1, <2>2 DEF PostSound, IsPost
<1>3. PostsSound'
  BY <1>2 DEF PostsSound
<1>4. PostsApart'
  BY <1>1 DEF PostsApart
<1>5. UNION {q.cards : q \in posts'} = UNION {q.cards : q \in posts}
  OBVIOUS
<1>6. p.cards \subseteq UNION {q.cards : q \in posts}
  OBVIOUS
<1>7. Settling'
  BY <1>5, <1>6 DEF BulkInv, Settling
<1>8. AtRest' /\ TallyHonest'
  BY DEF BulkInv, AtRest, TallyHonest
<1>9. QED
  BY <1>3, <1>4, <1>7, <1>8 DEF BulkInv

\* A card that a call moves is a card of that call.
LEMMA WorkKeeps ==
  ASSUME BulkInv, NEW p \in posts, NEW c \in p.cards, Work(p, c)
  PROVE  BulkInv'
<1> DEFINE to == Target(stands[c], p.event, desk)
<1>1. PostSound(p) /\ moved \in SUBSET Card /\ c \in Card
  BY DEF BulkInv, PostsSound, PostSound, IsPost
<1>8. PICK O, H : /\ O = IF to = {} THEN p.ok ELSE p.ok \cup {c}
                  /\ H = IF to = {"Hardcopy"} THEN p.hard \cup {c} ELSE p.hard
  OBVIOUS
<1>2. PICK r : /\ r = [p EXCEPT !.todo = p.todo \ {c}, !.ok = O, !.hard = H]
               /\ posts' = (posts \ {p}) \cup {r}
               /\ UNCHANGED <<desk, ticks, asked, running, settled, report>>
  BY <1>8 DEF Work
<1>3. moved' = IF to = {} THEN moved ELSE moved \cup {c}
  BY DEF Work
<1> HIDE DEF to
<1>4. /\ r \in [event : {p.event}, cards : SUBSET Card, todo : SUBSET Card,
                ok : SUBSET Card, hard : SUBSET Card, lost : BOOLEAN]
      /\ r.event = p.event /\ r.cards = p.cards /\ r.todo = p.todo \ {c}
      /\ r.ok = O /\ r.hard = H
  <2>1. O \in SUBSET Card /\ H \in SUBSET Card
    BY <1>1, <1>8 DEF PostSound, IsPost
  <2>2. QED
    BY <1>1, <1>2, <2>1 DEF PostSound, IsPost
<1>5. PostSound(r)'
  BY <1>1, <1>3, <1>4, <1>8 DEF PostSound, IsPost
<1>6. moved' \in SUBSET Card /\ moved' \ moved \subseteq p.cards /\ moved \subseteq moved'
  BY <1>1, <1>3
<1>7. QED
  BY <1>2, <1>4, <1>5, <1>6, CallReplaced

\* A call that is lost has moved what it moved.
LEMMA LoseKeeps ==
  ASSUME BulkInv, NEW p \in posts, Lose(p)
  PROVE  BulkInv'
<1>1. PostSound(p) /\ moved \in SUBSET Card
  BY DEF BulkInv, PostsSound
<1>2. PICK r \in {[p EXCEPT !.lost = TRUE], [p EXCEPT !.lost = TRUE, !.todo = {}]} :
        posts' = (posts \ {p}) \cup {r}
  BY DEF Lose
<1>3. UNCHANGED <<desk, ticks, asked, running, settled, report, moved>>
  BY DEF Lose
<1>4. /\ r \in [event : {p.event}, cards : SUBSET Card, todo : SUBSET Card,
                ok : SUBSET Card, hard : SUBSET Card, lost : BOOLEAN]
      /\ r.event = p.event /\ r.cards = p.cards /\ r.todo \subseteq p.todo
      /\ r.ok = p.ok /\ r.hard = p.hard
  BY <1>1, <1>2 DEF PostSound, IsPost
<1>5. PostSound(r)'
  BY <1>1, <1>3, <1>4 DEF PostSound, IsPost
<1>6. QED
  BY <1>1, <1>2, <1>3, <1>4, <1>5, CallReplaced

\* What a settled call says of its cards, and all of them together.
LEMMA ResultsSay ==
  ASSUME BulkInv
  PROVE  /\ DOMAIN ResultsOfAll = UNION {p.cards : p \in posts}
         /\ \A p \in posts : \A c \in p.cards :
              ResultsOfAll[c] = (~p.lost /\ c \in moved)
<1>1. \A p \in posts : \A c \in p.cards : ResultsOf(p)[c] = (~p.lost /\ c \in moved)
  BY DEF BulkInv, PostsSound, PostSound, ResultsOf
<1>2. ASSUME NEW p \in posts, NEW c \in p.cards
      PROVE  ResultsOfAll[c] = (~p.lost /\ c \in moved)
  <2>1. c \in UNION {q.cards : q \in posts}
    BY <1>2
  <2>2. ResultsOfAll[c] = \E q \in posts : c \in q.cards /\ ResultsOf(q)[c]
    BY <2>1 DEF ResultsOfAll
  <2>3. \A q \in posts : c \in q.cards => q = p
    BY <1>2 DEF BulkInv, PostsApart
  <2>4. QED
    BY <1>1, <1>2, <2>2, <2>3
<1>3. QED
  BY <1>2 DEF ResultsOfAll

\* The calls of a dialog settle its cards one call after the other.
LEMMA ChainKeeps ==
  ASSUME BulkInv, ChainComplete
  PROVE  BulkInv'
<1>1. /\ settled = NoResults /\ settled' = ResultsOfAll
      /\ posts' = {Post("completeContract", Completable)} /\ moved' = moved \ Completable
      /\ UNCHANGED <<desk, ticks, asked, running, report>> /\ posts # {}
      /\ \A p \in posts : ~p.lost
  BY DEF ChainComplete
<1>2. Completable \in SUBSET Card /\ Completable \subseteq UNION {p.cards : p \in posts}
  BY DEF BulkInv, PostsSound, PostSound, IsPost, Completable
<1>20. PICK r : r = Post("completeContract", Completable)
  OBVIOUS
<1>3. /\ r \in [event : {r.event}, cards : SUBSET Card, todo : SUBSET Card,
                ok : SUBSET Card, hard : SUBSET Card, lost : BOOLEAN]
      /\ r.cards = Completable /\ r.todo = Completable /\ r.hard = {} /\ r.ok = {}
  BY <1>2, <1>20 DEF Post
<1>4. posts' = {r} /\ PostSound(r)'
  BY <1>1, <1>3, <1>20 DEF PostSound, IsPost
<1>5. PostsSound' /\ PostsApart'
  BY <1>4 DEF PostsSound, PostsApart
<1>6. UNION {p.cards : p \in posts'} = Completable
  BY <1>3, <1>4
<1>7. running.cards = UNION {p.cards : p \in posts}
  BY <1>1 DEF BulkInv, Settling, NoResults
<1>8. \A c \in DOMAIN settled' : settled'[c] = (c \in moved)
  BY <1>1, ResultsSay
<1>9. DOMAIN settled' = UNION {p.cards : p \in posts}
  BY <1>1, ResultsSay
<1>10. Settling'
  BY <1>1, <1>2, <1>6, <1>7, <1>8, <1>9 DEF Settling
<1>11. AtRest' /\ TallyHonest'
  BY <1>1 DEF BulkInv, AtRest, TallyHonest
<1>12. QED
  BY <1>1, <1>5, <1>10, <1>11 DEF BulkInv

\* The batch is over: no call, no result.
LEMMA ClosedKeeps ==
  ASSUME BulkInv, Close, TallyHonest', UNCHANGED <<desk, asked, moved>>, ticks' \in SUBSET Card
  PROVE  BulkInv'
<1>1. posts' = {} /\ settled' = NoResults /\ DOMAIN NoResults = {}
  BY DEF Close, NoResults
<1>2. PostsSound' /\ PostsApart' /\ Settling' /\ AtRest'
  BY <1>1 DEF PostsSound, PostsApart, Settling, AtRest
<1>3. QED
  BY <1>2 DEF BulkInv

\* When the last call is over, only the cards that did not move stay ticked.
LEMMA FinishKeeps ==
  ASSUME BulkInv, Finish
  PROVE  BulkInv'
<1> DEFINE results == Over(settled, ResultsOfAll)
           lost == UNION {p.cards : p \in {q \in posts : q.lost}}
           late == UNION {p.cards : p \in posts}
<1>1. /\ report' = [over |-> running.cards, results |-> results, moved |-> moved, lost |-> lost]
      /\ posts # {} /\ Close /\ ticks' = {} /\ UNCHANGED <<desk, asked, moved>>
  BY DEF Finish, Tally, Server
<1>2. DOMAIN ResultsOfAll = late /\ DOMAIN results = DOMAIN settled \cup late
  BY ResultsSay DEF Over
<1>3. running.cards = DOMAIN settled \cup late
  BY <1>1 DEF BulkInv, Settling
<1>4. ASSUME NEW c \in running.cards
      PROVE  IF results[c] THEN c \in moved ELSE c \in moved => c \in lost
  <2>1. CASE c \in late
    <3>1. PICK p \in posts : c \in p.cards
      BY <2>1
    <3>2. results[c] = (~p.lost /\ c \in moved)
      BY <1>2, <2>1, <3>1, ResultsSay DEF Over
    <3>3. p.lost => c \in lost
      BY <3>1
    <3>4. p.lost \in BOOLEAN
      BY DEF BulkInv, PostsSound, PostSound, IsPost
    <3> HIDE DEF results, lost
    <3>5. QED
      BY <3>2, <3>3, <3>4
  <2>2. CASE c \notin late
    <3>1. c \in DOMAIN settled \ late /\ results[c] = settled[c]
      BY <1>2, <1>3, <1>4, <2>2 DEF Over
    <3>2. settled[c] = (c \in moved)
      BY <3>1 DEF BulkInv, Settling
    <3>3. QED
      BY <3>1, <3>2
  <2>3. QED
    BY <2>1, <2>2
<1> HIDE DEF results, lost, late
<1>5. report'.over = running.cards /\ report'.results = results /\ report'.moved = moved
      /\ report'.lost = lost
  BY <1>1
<1>6. TallyHonest'
  BY <1>2, <1>3, <1>4, <1>5 DEF TallyHonest
<1>7. QED
  BY <1>1, <1>6, ClosedKeeps

\* Every step keeps the invariant.
LEMMA BulkInvStep == BulkInv /\ [BulkNext]_bulkVars => BulkInv'
<1> SUFFICES ASSUME BulkInv, [BulkNext]_bulkVars PROVE BulkInv'
  OBVIOUS
<1>0. ticks \in SUBSET Card /\ asked.cards \in SUBSET Card
  BY DEF BulkInv
<1>1. CASE UNCHANGED bulkVars
  BY <1>0, <1>1, ClicksKeep DEF bulkVars
<1>2. CASE LoadBoard \/ ClearSel \/ Cancel
  <2>1. NoAsk.cards \in SUBSET Card
    BY DEF NoAsk
  <2>2. QED
    BY <1>0, <1>2, <2>1, ClicksKeep DEF LoadBoard, ClearSel, Cancel, Batch, Server
<1>3. CASE RunBatch
  BY <1>3, RunBatchKeeps
<1>4. CASE ChainComplete
  BY <1>4, ChainKeeps
<1>5. CASE Finish
  BY <1>5, FinishKeeps
<1>6. CASE Fail
  BY <1>0, <1>6, ClosedKeeps DEF Fail, Server, BulkInv, TallyHonest
<1>7. ASSUME NEW c \in Card, ToggleSel(c) \/ Elsewhere(c) PROVE BulkInv'
  BY <1>0, <1>7, ClicksKeep DEF ToggleSel, Elsewhere, Batch, Server
<1>8. ASSUME NEW g \in Groups, ToggleAll(g) PROVE BulkInv'
  <2>1. g \in SUBSET Card
    BY DEF Groups, BulkSelectGroups, Selectable
  <2>2. QED
    BY <1>0, <1>8, <2>1, ClicksKeep DEF ToggleAll, Batch, Server
<1>9. ASSUME NEW event, NEW chain \in BOOLEAN, DoBatch(event, chain) PROVE BulkInv'
  <2>1. Selected \in SUBSET Card
    BY <1>0 DEF Selected
  <2>2. asked' = [cards |-> Selected, event |-> event, chain |-> chain]
    BY <1>9 DEF DoBatch
  <2>3. asked'.cards \in SUBSET Card
    BY <2>1, <2>2
  <2>4. QED
    BY <1>0, <1>9, <2>3, ClicksKeep DEF DoBatch, Batch, Server
<1>10. ASSUME NEW p \in posts, Lose(p) \/ \E c \in p.cards : Work(p, c) PROVE BulkInv'
  BY <1>10, LoseKeeps, WorkKeeps
<1>11. QED
  BY <1>1, <1>2, <1>3, <1>4, <1>5, <1>6, <1>7, <1>8, <1>9, <1>10 DEF BulkNext

\* The invariant is stronger than what is said of the batches.
LEMMA BulkInvSound == BulkInv => BulkSound
BY SelectionsAct DEF BulkInv, BulkSound

-----------------------------------------------------------------------------
(***************************************************************************)
(* The board of a desk: what each click and answer does to the files.      *)
(***************************************************************************)
\* Where a file with a number stands.
Numbered == {"SubmittedToAccounting", "ReceivedFromAcc", "SubmittedToBop",
             "SubmittedToDcc2Hardcopy", "Completed"}

\* Where one stands that needs none.
Numberless == {"ReceivedWithoutNo", "ReceivedSkipOnly"}

\* No way leads back from there to the sending, nor to the files that need no number,
\* whose way to Accounting is the only other one.
StepSound(s) ==
  /\ s.to \notin Numberless
  /\ s.from \in Numbered => s.to \in Numbered
  /\ s.by = "sendAcc" => s.from = "ReceivedByDcc2" /\ s.to \in Numbered /\ s.do \in {"send", "skip"}
  /\ s.by = "undoable" => s.from \in Numbered
  /\ s.do = "send" /\ s.by # "sendAcc" => s.from \in Numberless
  /\ s.by \in StayOpen => s.do \in {"send", "skip"}
  /\ s.by \in {"button", "undoable", "ask", "handover", "sendAcc", "skipOnly", "receiveAcc"}

\* Every way of the table is sound.
LEMMA StepsSound == \A s \in Steps : StepSound(s)
BY DEF Steps, Way, StepSound, Numbered, Numberless, StayOpen

Statuses == UNION {{s.from, s.to} : s \in Steps}
NoOrNobody == Number \cup {Nobody}
FileRow == [status : Statuses, no : NoOrNobody, of : Nat]

DialogKinds == {"none", "ask", "handover", "sendAcc", "skipOnly", "receiveAcc", "sheet"}
IsDialog(d) == d \in [kind : DialogKinds, do : {d.do}, cards : SUBSET File,
                      vals : [File -> NoOrNobody], errs : SUBSET File, done : SUBSET File,
                      busy : BOOLEAN, n : Nat]
Buttons == {"button", "undoable", "toast", "ask", "handover", "sendAcc", "skipOnly",
            "receiveAcc"}
IsAction(a) == a \in [do : {a.do}, card : File, by : Buttons, no : NoOrNobody,
                      stage : {a.stage}, n : Nat, of : Nat]
IsRead(r) == r \in [n : Nat, clears : File \cup {Nobody}, stage : {r.stage},
                    rows : [File -> FileRow], behind : BOOLEAN]
IsBatch(b) == b \in [n : Nat, of : Nat, vals : [File -> NoOrNobody], todo : SUBSET File,
                     now : File \cup {Nobody}, sent : {b.sent}, ok : SUBSET File,
                     bad : SUBSET File, stage : {b.stage}]

DeskTypes ==
  /\ taps \in Nat /\ drops \in Nat
  /\ placed \in [File -> FileRow] /\ board \in [File -> FileRow]
  /\ IsDialog(dialog) /\ dialog.n <= taps /\ (dialog.kind = "sheet" => dialog.n > 0)
  /\ \A a \in actions : IsAction(a) /\ a.of <= taps
  /\ \A r \in reads : IsRead(r)
  /\ \A b \in batches : IsBatch(b) /\ b.of <= taps /\ b.of > 0
  /\ \A f \in File : placed[f].of <= taps

-----------------------------------------------------------------------------
\* A button's POST, or the load after it.
OfButton(a, f) == a.card = f /\ a.by \in {"button", "undoable"}

\* Each card has one of them, and is marked as long.
OneUnderWay ==
  \A f \in File :
    /\ \A a, b \in actions : OfButton(a, f) /\ OfButton(b, f) => a = b
    /\ \A r, s \in reads : r.clears = f /\ s.clears = f => r = s
    /\ \A a \in actions, r \in reads : ~(OfButton(a, f) /\ r.clears = f)
    /\ \A a \in actions : OfButton(a, f) => f \in inFlight
    /\ \A r \in reads : r.clears = f => f \in inFlight

\* What has changed the files and is yet to be answered, or is being loaded.
Telling == \/ \E a \in actions : a.stage = "ok"
           \/ \E b \in batches : b.stage = "send" /\ (b.ok # {} \/ b.sent = "ok")
           \/ reads # {}

BoardToBeTold ==
  /\ board = placed \/ chip \/ behind \/ Telling
  /\ \A r \in reads : r.stage = "read" => r.rows = placed \/ r.behind
  /\ \A a \in actions : a.by \in StayOpen => a.do \in {"send", "skip"}

-----------------------------------------------------------------------------
\* A file that needs no number has always been one, and so is on no sheet.
NoneStrays ==
  \A f \in File : placed[f].status \in Numberless =>
    /\ board[f].status \in Numberless
    /\ \A r \in reads : r.rows[f].status \in Numberless
    /\ dialog.kind = "sheet" => f \notin dialog.cards
    /\ \A b \in batches : f \notin b.todo /\ b.now # f

NumbersStay == \A f \in File : placed[f].no # Nobody => placed[f].status \in Numbered

\* A row of a run: named, its number typed, and written when it was answered as sent.
BatchSound(b) ==
  /\ b.sent # "no" => b.now \in File
  /\ b.now = Nobody => b.sent = "no"
  /\ b.stage \in {"check", "send", "load"} 
  /\ b.stage = "check" => b.ok = {} /\ b.sent = "no" /\ b.now = Nobody
  /\ b.stage = "load" => b.sent = "no"
  /\ \A f \in b.todo : b.vals[f] # Nobody
  /\ b.now \in File => b.vals[b.now] # Nobody
  /\ \A f \in b.ok : b.vals[f] # Nobody /\ placed[f].no = b.vals[f]
  /\ b.sent = "ok" => placed[b.now].no = b.vals[b.now]

BatchesSound == \A b \in batches : BatchSound(b)

\* The sheet that is open waits for the run it has started.
Runs(b) == b.stage # "load" /\ b.of = dialog.n

OneRun ==
  /\ \A b, c \in batches : Runs(b) /\ Runs(c) => b = c
  /\ \A b \in batches : Runs(b) => /\ dialog.kind = "sheet" /\ dialog.busy
                                   /\ b.vals = dialog.vals
  /\ \A a \in actions : a.do \in {"send", "skip"} /\ a.of = dialog.n => dialog.kind # "sheet"

\* Rows that left the sheet are written; one that stays and is written by this sheet is
\* being answered, or an answer was lost.
Answering(f) == \E b \in batches : /\ Runs(b) /\ b.stage = "send"
                                   /\ f \in b.ok \/ (b.now = f /\ b.sent = "ok")
RowsLeave ==
  dialog.kind = "sheet" =>
    /\ \A f \in dialog.done : dialog.vals[f] # Nobody /\ placed[f].no = dialog.vals[f]
    /\ \A f \in dialog.cards \ dialog.done :
         placed[f].no # Nobody /\ placed[f].of = dialog.n => drops > 0 \/ Answering(f)

DeskInv == /\ DeskTypes /\ OneUnderWay /\ BoardToBeTold
           /\ NoneStrays /\ NumbersStay /\ BatchesSound /\ OneRun /\ RowsLeave

-----------------------------------------------------------------------------
(***************************************************************************)
(* The first board.                                                        *)
(***************************************************************************)
LEMMA DeskInvInit == DeskInit => DeskInv
<1> SUFFICES ASSUME DeskInit PROVE DeskInv
  OBVIOUS
<1> USE DEF DeskInit
<1>1. Nobody \notin File /\ Nobody \in NoOrNobody /\ WorkStations \subseteq Statuses
  BY DeskAssumption DEF NoOrNobody, WorkStations, Statuses
<1>2. placed \in [File -> FileRow] /\ board = placed
      /\ \A f \in File : placed[f].no = Nobody /\ placed[f].of = 0
  BY <1>1 DEF FileRow
<1>3. NoFields \in [File -> NoOrNobody]
  BY <1>1 DEF NoFields
<1>4. /\ dialog = NoDialog /\ dialog.n = 0 /\ dialog.kind = "none"
      /\ IsDialog(dialog)
  BY <1>3 DEF NoDialog, IsDialog, DialogKinds
<1>5. DeskTypes
  BY <1>2, <1>4 DEF DeskTypes
<1>6. OneUnderWay /\ BoardToBeTold
  BY DEF OneUnderWay, BoardToBeTold
<1>7. NoneStrays /\ NumbersStay /\ BatchesSound
  BY <1>2, <1>4 DEF NoneStrays, NumbersStay, BatchesSound
<1>8. OneRun /\ RowsLeave
  BY <1>4 DEF OneRun, RowsLeave
<1>9. QED
  BY <1>5, <1>6, <1>7, <1>8 DEF DeskInv

-----------------------------------------------------------------------------
(***************************************************************************)
(* The files.                                                              *)
(***************************************************************************)
\* What a step may make of a file: it keeps its number and does not stray.
Moves(f, row) ==
  /\ row \in FileRow /\ row.of <= taps
  /\ row.status \notin Numberless
  /\ row.no # Nobody => row.status \in Numbered
  /\ placed[f].no # Nobody => row.no = placed[f].no /\ row.of = placed[f].of

\* Who wrote a number other than the one there was.
WrittenBy(f, row, do, no, of) ==
  row.no # placed[f].no \/ row.of # placed[f].of => do \in {"send", "skip"} /\ row.of = of

\* What a step makes of the file it is about.
LEMMA EffectsMove ==
  ASSUME DeskInv, NEW f \in File, NEW do, NEW no \in NoOrNobody, NEW of \in Nat, of <= taps,
         NEW row \in Effects(do, f, no, of)
  PROVE  /\ Moves(f, row) /\ WrittenBy(f, row, do, no, of)
         /\ do = "send" /\ placed[f].status \notin Numberless => row.no = no /\ row.of = of
<1>1. PICK s \in Steps : /\ s.do = do /\ placed[f].status = s.from
                         /\ row = IF s.by = "sendAcc" THEN [status |-> s.to, no |-> no, of |-> of]
                                  ELSE [placed[f] EXCEPT !.status = s.to]
  BY DEF Effects
<1>2. StepSound(s) /\ s.to \in Statuses
  BY StepsSound DEF Statuses
<1>3. placed[f] \in FileRow /\ placed[f].of <= taps
      /\ (placed[f].no # Nobody => placed[f].status \in Numbered)
  BY DEF DeskInv, DeskTypes, NumbersStay
<1>4. CASE s.by = "sendAcc"
  <2>1. row = [status |-> s.to, no |-> no, of |-> of]
    BY <1>1, <1>4
  <2>2. row \in FileRow /\ row.status = s.to /\ row.no = no /\ row.of = of
    BY <1>2, <2>1 DEF FileRow
  <2>3. placed[f].no = Nobody
    BY <1>1, <1>2, <1>3, <1>4 DEF StepSound, Numbered
  <2>4. QED
    BY <1>1, <1>2, <1>4, <2>2, <2>3 DEF Moves, WrittenBy, StepSound
<1>5. CASE s.by # "sendAcc"
  <2>1. row = [placed[f] EXCEPT !.status = s.to]
    BY <1>1, <1>5
  <2>2. row \in FileRow /\ row.status = s.to /\ row.no = placed[f].no /\ row.of = placed[f].of
    BY <1>2, <1>3, <2>1 DEF FileRow
  <2>3. QED
    BY <1>1, <1>2, <1>3, <1>5, <2>2 DEF Moves, WrittenBy, StepSound
<1>6. QED
  BY <1>4, <1>5

\* An undo, or the step of somebody else, changes the status alone.
LEMMA StatusMoves ==
  ASSUME DeskInv, NEW f \in File, NEW s \in Steps, NEW to,
         \/ s.by = "undoable" /\ to = s.from
         \/ s.from = placed[f].status /\ s.by # "sendAcc" /\ to = s.to,
         NEW row, row = [placed[f] EXCEPT !.status = to]
  PROVE  Moves(f, row) /\ row.no = placed[f].no /\ row.of = placed[f].of
<1>1. StepSound(s) /\ s.to \in Statuses /\ s.from \in Statuses
  BY StepsSound DEF Statuses
<1>2. placed[f] \in FileRow /\ placed[f].of <= taps
      /\ (placed[f].no # Nobody => placed[f].status \in Numbered)
  BY DEF DeskInv, DeskTypes, NumbersStay
<1>3. row \in FileRow /\ row.status = to /\ row.no = placed[f].no /\ row.of = placed[f].of
  BY <1>1, <1>2 DEF FileRow
<1>4. to \notin Numberless /\ (placed[f].status \in Numbered => to \in Numbered)
  BY <1>1 DEF StepSound, Numbered, Numberless
<1>5. QED
  BY <1>2, <1>3, <1>4 DEF Moves

\* Every file keeps its number, and stands where it may.
FilesKept ==
  \A f \in File :
    /\ placed'[f].no # Nobody => placed'[f].status \in Numbered
    /\ placed[f].no # Nobody => placed'[f].no = placed[f].no /\ placed'[f].of = placed[f].of
    /\ placed'[f].status \in Numberless => placed[f].status \in Numberless

\* A file is rewritten, and no other.
OneMoved(f, row) == Moves(f, row) /\ placed' = [placed EXCEPT ![f] = row]

\* A file that is rewritten keeps its number, and the others are as they were.
LEMMA MovedKeeps ==
  ASSUME DeskInv, NEW f \in File, NEW row, OneMoved(f, row)
  PROVE  /\ FilesKept /\ placed' \in [File -> FileRow] /\ \A g \in File : placed'[g].of <= taps
         /\ placed'[f] = row /\ \A g \in File : g # f => placed'[g] = placed[g]
<1>1. placed \in [File -> FileRow] /\ NumbersStay /\ \A g \in File : placed[g].of <= taps
  BY DEF DeskInv, DeskTypes
<1>2. placed'[f] = row /\ (\A g \in File : g # f => placed'[g] = placed[g])
      /\ placed' \in [File -> FileRow]
  BY <1>1 DEF OneMoved, Moves
<1>3. QED
  BY <1>1, <1>2 DEF OneMoved, Moves, FilesKept, NumbersStay

\* The same of a POST, a step's or an undo's.
LEMMA HandledMoves ==
  ASSUME DeskInv, NEW a \in actions, NEW row \in EffectsOf(a)
  PROVE  /\ a.card \in File /\ Moves(a.card, row)
         /\ WrittenBy(a.card, row, a.do, a.no, a.of)
<1>1. a.card \in File /\ a.no \in NoOrNobody /\ a.of \in Nat /\ a.of <= taps
  BY DEF DeskInv, DeskTypes, IsAction
<1>2. CASE a.do = "undo"
  <2>1. PICK s \in Steps : s.by = "undoable" /\ row = [placed[a.card] EXCEPT !.status = s.from]
    BY <1>2 DEF EffectsOf, UndoEffects
  <2>2. QED
    BY <1>1, <2>1, StatusMoves DEF WrittenBy
<1>3. CASE a.do # "undo"
  <2>1. row \in Effects(a.do, a.card, a.no, a.of)
    BY <1>3 DEF EffectsOf
  <2>2. QED
    BY <1>1, <2>1, EffectsMove
<1>4. QED
  BY <1>2, <1>3

\* The same of the step of somebody else, who types no number.
LEMMA OtherMoves ==
  ASSUME DeskInv, NEW f \in File, NEW s \in Steps, Other(f, s)
  PROVE  \E row : OneMoved(f, row) /\ row.no = placed[f].no /\ row.of = placed[f].of
<1>1. PICK row : row = [placed[f] EXCEPT !.status = s.to]
  OBVIOUS
<1>2. placed' = [placed EXCEPT ![f] = row] /\ s.by # "sendAcc" /\ placed[f].status = s.from
  BY <1>1 DEF Other
<1>3. QED
  BY <1>1, <1>2, StatusMoves DEF OneMoved

\* The same of a row of the sheet, whose number is the run's.
LEMMA SendMoves ==
  ASSUME DeskInv, NEW b \in batches, b.sent = "asked",
         NEW row \in Effects("send", b.now, b.vals[b.now], b.of)
  PROVE  /\ b.now \in File /\ Moves(b.now, row)
         /\ row.no = b.vals[b.now] /\ row.of = b.of
<1>1. IsBatch(b) /\ b.of <= taps /\ BatchSound(b)
  BY DEF DeskInv, DeskTypes, BatchesSound
<1>2. b.now \in File /\ b.vals[b.now] \in NoOrNobody /\ b.of \in Nat
  BY <1>1 DEF IsBatch, BatchSound
<1>3. placed[b.now].status \notin Numberless
  BY <1>2 DEF DeskInv, NoneStrays
<1>4. QED
  BY <1>1, <1>2, <1>3, EffectsMove

\* Clicks but those of the sheet, and the toasts: no file, load or batch is touched.
Clicks == \/ \E f \in File, s \in Steps : Press(f, s) \/ OpenDialog(f, s) \/ Submit(f, s)
          \/ \E f \in File : Undo(f) \/ ToastGone(f) \/ \E no \in Number : TypeNo(f, no)
          \/ \E no \in Number : OtherNo(no)
          \/ OpenSheet \/ CloseDialog
Answers == \E a \in actions : Answer(a) \/ Refused(a) \/ Lost(a)
SheetRuns == \/ SubmitSheet
             \/ \E b \in batches : \/ Check(b) \/ CheckFails(b) \/ \E f \in File : SendNext(b, f)
                                   \/ SendAnswered(b) \/ SendLost(b) \/ FinishBatch(b)
BoardLoads == LiveRefetch \/ \E r \in reads : ReadFiles(r) \/ ShowBoard(r) \/ LoadBoardFails(r)
Changes == \/ \E f \in File, s \in Steps : Other(f, s)
           \/ \E a \in actions : HandleAction(a)
           \/ \E b \in batches : HandleSend(b)

\* Every step is one of these.
LEMMA DeskSteps == DeskNext => Clicks \/ Answers \/ SheetRuns \/ BoardLoads \/ Changes
BY Zenon DEF DeskNext, Clicks, Answers, SheetRuns, BoardLoads, Changes

\* Only the server's steps touch the files.
LEMMA OnlyChangesMove ==
  ASSUME Clicks \/ Answers \/ SheetRuns \/ BoardLoads
  PROVE  UNCHANGED placed
<1>1. CASE Clicks
  BY <1>1 DEF Clicks, Press, OpenDialog, Submit, Undo, ToastGone, TypeNo, OtherNo, OpenSheet,
              CloseDialog, Stored
<1>2. CASE Answers
  BY <1>2 DEF Answers, Answer, Refused, Lost, Failing, Stored
<1>3. CASE SheetRuns
  BY <1>3 DEF SheetRuns, SubmitSheet, Check, CheckFails, SendNext, SendAnswered, SendLost,
              FinishBatch, Stored
<1>4. CASE BoardLoads
  BY <1>4 DEF BoardLoads, LiveRefetch, ReadFiles, ShowBoard, LoadBoardFails, Loaded, Stored
<1>5. QED
  BY <1>1, <1>2, <1>3, <1>4

\* What a step of the server rewrites.
LEMMA ChangesMoveOne ==
  ASSUME DeskInv, Changes
  PROVE  UNCHANGED placed \/ \E f \in File : \E row : OneMoved(f, row)
<1>1. ASSUME NEW f \in File, NEW s \in Steps, Other(f, s) PROVE \E g \in File : \E row : OneMoved(g, row)
  BY <1>1, OtherMoves
<1>2. ASSUME NEW a \in actions, HandleAction(a)
      PROVE  UNCHANGED placed \/ \E f \in File : \E row : OneMoved(f, row)
  BY <1>2, HandledMoves DEF HandleAction, OneMoved
<1>3. ASSUME NEW b \in batches, HandleSend(b)
      PROVE  UNCHANGED placed \/ \E f \in File : \E row : OneMoved(f, row)
  BY <1>3, SendMoves DEF HandleSend, OneMoved
<1>4. QED
  BY <1>1, <1>2, <1>3 DEF Changes

\* Clicks count up, and nothing else does.
LEMMA TapsGrow ==
  ASSUME DeskInv, DeskNext
  PROVE  taps' \in Nat /\ taps <= taps' /\ drops' \in Nat /\ drops <= drops'
<1>0. taps \in Nat /\ drops \in Nat
  BY DEF DeskInv, DeskTypes
<1> DEFINE counted == Tap \/ Drop \/ NoTap \/ UNCHANGED <<taps, drops>>
<1>1. CASE Clicks
  <2>1. counted
    BY Zenon, <1>1 DEF Clicks, Press, OpenDialog, Submit, Undo, ToastGone, TypeNo, OtherNo,
                       OpenSheet, CloseDialog
  <2>2. QED
    BY <1>0, <2>1 DEF Tap, Drop, NoTap
<1>2. CASE Answers
  <2>1. counted
    BY Zenon, <1>2 DEF Answers, Answer, Refused, Lost
  <2>2. QED
    BY <1>0, <2>1 DEF Tap, Drop, NoTap
<1>3. CASE SheetRuns
  <2>1. counted
    BY Zenon, <1>3 DEF SheetRuns, SubmitSheet, Check, CheckFails, SendNext, SendAnswered,
                       SendLost, FinishBatch
  <2>2. QED
    BY <1>0, <2>1 DEF Tap, Drop, NoTap
<1>4. CASE BoardLoads
  <2>1. counted
    BY Zenon, <1>4 DEF BoardLoads, LiveRefetch, ReadFiles, ShowBoard, LoadBoardFails
  <2>2. QED
    BY <1>0, <2>1 DEF Tap, Drop, NoTap
<1>5. CASE Changes
  <2>1. counted
    BY Zenon, <1>5 DEF Changes, Other, HandleAction, HandleSend
  <2>2. QED
    BY <1>0, <2>1 DEF Tap, Drop, NoTap
<1>6. QED
  BY <1>1, <1>2, <1>3, <1>4, <1>5, DeskSteps

\* Every step keeps the numbers that are on the files.
LEMMA FilesStep ==
  ASSUME DeskInv, DeskNext
  PROVE  /\ FilesKept /\ NumbersStay'
         /\ placed' \in [File -> FileRow] /\ \A f \in File : placed'[f].of <= taps'
<1>1. CASE UNCHANGED placed
  <2>1. NumbersStay /\ placed \in [File -> FileRow] /\ (\A f \in File : placed[f].of <= taps)
        /\ taps \in Nat
    BY DEF DeskInv, DeskTypes
  <2>2. taps' \in Nat /\ taps <= taps' /\ \A f \in File : placed[f].of \in Nat
    BY <2>1, TapsGrow DEF FileRow
  <2>3. QED
    BY <1>1, <2>1, <2>2 DEF FilesKept, NumbersStay
<1>2. ASSUME NEW f \in File, NEW row, OneMoved(f, row)
      PROVE  /\ FilesKept /\ NumbersStay'
             /\ placed' \in [File -> FileRow] /\ \A g \in File : placed'[g].of <= taps'
  <2>1. /\ FilesKept /\ placed' \in [File -> FileRow] /\ \A g \in File : placed'[g].of <= taps
    BY <1>2, MovedKeeps
  <2>2. taps' \in Nat /\ taps <= taps' /\ taps \in Nat /\ \A g \in File : placed'[g].of \in Nat
    BY <2>1, TapsGrow DEF FileRow, DeskInv, DeskTypes
  <2>3. QED
    BY <2>1, <2>2 DEF FilesKept, NumbersStay
<1>3. QED
  BY <1>1, <1>2, DeskSteps, OnlyChangesMove, ChangesMoveOne

-----------------------------------------------------------------------------
(***************************************************************************)
(* The dialog.                                                             *)
(***************************************************************************)
Same == /\ IsDialog(dialog') /\ dialog'.kind = dialog.kind /\ dialog'.cards = dialog.cards
        /\ dialog'.n = dialog.n
JustOpened ==
  /\ dialog = NoDialog /\ IsDialog(dialog') /\ taps' = taps + 1 /\ dialog'.n = taps'
  /\ dialog'.done = {} /\ ~dialog'.busy
  /\ dialog'.kind = "sheet" => dialog'.cards = BatchCards

\* A dialog that opens is empty, and newer than any other.
LEMMA OpenedIs ==
  ASSUME taps \in Nat, NEW kind, NEW do, NEW cards \in SUBSET File, NEW d,
         d = Opened(kind, do, cards)
  PROVE  /\ d \in [kind : {d.kind}, do : {d.do}, cards : SUBSET File,
                   vals : [File -> NoOrNobody], errs : SUBSET File, done : SUBSET File,
                   busy : BOOLEAN, n : Nat]
         /\ d.kind = kind /\ d.do = do /\ d.cards = cards /\ d.n = taps + 1 /\ d.done = {} /\ ~d.busy
<1>1. NoFields \in [File -> NoOrNobody]
  BY DEF NoFields, NoOrNobody
<1>2. d = [kind |-> kind, do |-> do, cards |-> cards, vals |-> NoFields,
            errs |-> {}, done |-> {}, busy |-> FALSE, n |-> taps + 1]
  BY DEF Opened, NoDialog
<1>3. d.kind = kind /\ d.do = do /\ d.cards = cards /\ d.n = taps + 1 /\ d.done = {}
      /\ d.busy = FALSE
  BY <1>2
<1>4. taps + 1 \in Nat /\ {} \in SUBSET File /\ FALSE \in BOOLEAN
  OBVIOUS
<1>5. QED
  BY <1>1, <1>2, <1>3, <1>4

\* A dialog with other contents is the same dialog.
LEMMA Altered ==
  ASSUME IsDialog(dialog),
         \/ \E vals \in [File -> NoOrNobody], errs \in SUBSET File :
              dialog' = [dialog EXCEPT !.vals = vals, !.errs = errs]
         \/ \E waits \in BOOLEAN : dialog' = [dialog EXCEPT !.busy = waits]
         \/ \E errs \in SUBSET File, waits \in BOOLEAN :
              dialog' = [dialog EXCEPT !.errs = errs, !.busy = waits]
         \/ \E errs, done \in SUBSET File, waits \in BOOLEAN :
              dialog' = [dialog EXCEPT !.done = done, !.errs = errs, !.busy = waits]
  PROVE  Same
BY DEF IsDialog, Same

\* What a click makes of the dialog.
LEMMA DialogOfClicks ==
  ASSUME DeskInv, Clicks
  PROVE  Same \/ JustOpened \/ dialog' = NoDialog
<1>0. IsDialog(dialog) /\ taps \in Nat
  BY DEF DeskInv, DeskTypes
<1>1. CASE UNCHANGED dialog
  BY <1>0, <1>1 DEF Same
<1>2. ASSUME NEW f \in File, NEW s \in Steps, OpenDialog(f, s) PROVE JustOpened
  <2>1. dialog' = Opened(s.by, IF s.by = "ask" THEN s.do ELSE "none", {f}) /\ {f} \in SUBSET File
    BY <1>2 DEF OpenDialog
  <2>2. dialog = NoDialog /\ taps' = taps + 1 /\ s.by \in DialogKinds \ {"sheet"}
    BY <1>2 DEF OpenDialog, Tap, DialogKinds
  <2>3. /\ IsDialog(dialog') /\ dialog'.kind = s.by /\ dialog'.n = taps + 1
        /\ dialog'.done = {} /\ ~dialog'.busy
    BY <1>0, <2>1, <2>2, OpenedIs DEF IsDialog
  <2>4. QED
    BY <2>2, <2>3 DEF JustOpened
<1>3. ASSUME NEW f \in File, NEW s \in Steps, Submit(f, s) PROVE Same \/ dialog' = NoDialog
  BY <1>0, <1>3, Altered DEF Submit
<1>4. ASSUME NEW f \in File, NEW no \in Number, TypeNo(f, no) PROVE Same
  <2>1. PICK vals, errs : /\ vals = [dialog.vals EXCEPT ![f] = no] /\ errs = dialog.errs \ {f}
                          /\ dialog' = [dialog EXCEPT !.vals = vals, !.errs = errs]
    BY <1>4 DEF TypeNo
  <2>2. vals \in [File -> NoOrNobody] /\ errs \in SUBSET File
    BY <1>0, <2>1 DEF IsDialog, NoOrNobody
  <2>3. QED
    BY <1>0, <2>1, <2>2, Altered
<1>5. ASSUME OpenSheet PROVE JustOpened
  <2>1. dialog' = Opened("sheet", "send", BatchCards) /\ BatchCards \in SUBSET File
    BY <1>5 DEF OpenSheet, BatchCards
  <2>2. dialog = NoDialog /\ taps' = taps + 1
    BY <1>5 DEF OpenSheet, Tap
  <2>3. /\ IsDialog(dialog') /\ dialog'.n = taps + 1 /\ dialog'.done = {} /\ ~dialog'.busy
        /\ dialog'.cards = BatchCards
    BY <1>0, <2>1, OpenedIs DEF IsDialog, DialogKinds
  <2>4. QED
    BY <2>2, <2>3 DEF JustOpened
<1>6. CASE CloseDialog
  BY <1>6 DEF CloseDialog
<1>7. QED
  <2>1. \/ UNCHANGED dialog \/ OpenSheet \/ CloseDialog
        \/ \E f \in File, s \in Steps : OpenDialog(f, s) \/ Submit(f, s)
        \/ \E f \in File, no \in Number : TypeNo(f, no)
    BY DEF Clicks, Press, Undo, ToastGone, OtherNo
  <2>2. QED
    BY <1>1, <1>2, <1>3, <1>4, <1>5, <1>6, <2>1

\* Answers, runs, loads and the server alter it or close it.
LEMMA DialogOfOthers ==
  ASSUME DeskInv, Answers \/ SheetRuns \/ BoardLoads \/ Changes
  PROVE  Same \/ dialog' = NoDialog
<1>0. IsDialog(dialog)
  BY DEF DeskInv, DeskTypes
<1>1. CASE UNCHANGED dialog
  BY <1>0, <1>1 DEF Same, IsDialog
<1>2. CASE Answers
  <2>1. ASSUME NEW a \in actions, Answer(a) PROVE UNCHANGED dialog \/ dialog' = NoDialog
    BY <2>1 DEF Answer, ShutDialog
  <2>2. ASSUME NEW a \in actions, NEW late \in BOOLEAN, Failing(a, late)
        PROVE  Same \/ UNCHANGED dialog \/ dialog' = NoDialog
    <3>1. \/ UNCHANGED dialog \/ dialog' = NoDialog
          \/ dialog' = [dialog EXCEPT !.busy = FALSE, !.errs = dialog.cards]
      BY <2>2 DEF Failing, ShutDialog
    <3>2. dialog.cards \in SUBSET File
      BY <1>0 DEF IsDialog
    <3>3. dialog' = [dialog EXCEPT !.busy = FALSE, !.errs = dialog.cards] => Same
      BY <1>0, <3>2 DEF Same, IsDialog
    <3>4. QED
      BY <3>1, <3>3
  <2>3. QED
    BY <1>1, <1>2, <2>1, <2>2 DEF Answers, Refused, Lost
<1>3. CASE SheetRuns
  <2>1. \A b \in batches : IsBatch(b)
    BY DEF DeskInv, DeskTypes
  <2>2. ASSUME SubmitSheet PROVE Same
    BY <1>0, <2>2, Altered DEF SubmitSheet
  <2>3. ASSUME NEW b \in batches, Check(b) PROVE Same \/ UNCHANGED dialog
    <3>1. Clashes(b) \in SUBSET File
      BY <2>1 DEF Clashes, IsBatch
    <3>2. UNCHANGED dialog \/ dialog' = [dialog EXCEPT !.errs = Clashes(b), !.busy = FALSE]
      BY <2>3 DEF Check, OnSheet
    <3>3. QED
      BY <1>0, <3>1, <3>2, Altered
  <2>4. ASSUME NEW b \in batches, FinishBatch(b) PROVE Same \/ UNCHANGED dialog
    <3>1. PICK done : done = dialog.done \cup b.ok
      OBVIOUS
    <3>2. done \in SUBSET File /\ b.bad \in SUBSET File
      BY <1>0, <2>1, <3>1 DEF IsDialog, IsBatch
    <3>3. UNCHANGED dialog \/ dialog' = [dialog EXCEPT !.done = done, !.errs = b.bad, !.busy = FALSE]
      BY <2>4, <3>1 DEF FinishBatch, OnSheet
    <3>4. QED
      BY <1>0, <3>2, <3>3, Altered
  <2>5. \/ UNCHANGED dialog \/ SubmitSheet
        \/ \E b \in batches : Check(b) \/ FinishBatch(b)
    BY <1>3 DEF SheetRuns, CheckFails, SendNext, SendAnswered, SendLost
  <2>6. QED
    BY <1>1, <2>2, <2>3, <2>4, <2>5
<1>4. CASE BoardLoads
  BY <1>1, <1>4 DEF BoardLoads, LiveRefetch, ReadFiles, ShowBoard, LoadBoardFails, Loaded
<1>5. CASE Changes
  BY <1>1, <1>5 DEF Changes, Other, HandleAction, HandleSend
<1>6. QED
  BY <1>2, <1>3, <1>4, <1>5

\* So the dialog stays the same, is a new one, or is closed.
LEMMA DialogStep ==
  ASSUME DeskInv, DeskNext
  PROVE  /\ IsDialog(dialog') /\ dialog'.n <= taps' /\ (dialog'.kind = "sheet" => dialog'.n > 0)
         /\ Same \/ JustOpened \/ dialog' = NoDialog
<1>1. Same \/ JustOpened \/ dialog' = NoDialog
  BY DeskSteps, DialogOfClicks, DialogOfOthers
<1>2. /\ IsDialog(dialog) /\ dialog.n <= taps /\ (dialog.kind = "sheet" => dialog.n > 0)
      /\ dialog.n \in Nat /\ taps \in Nat /\ taps' \in Nat /\ taps <= taps'
  BY TapsGrow DEF DeskInv, DeskTypes, IsDialog
<1>3. CASE dialog' = NoDialog
  <2>1. NoFields \in [File -> NoOrNobody]
    BY DEF NoFields, NoOrNobody
  <2>2. QED
    BY <1>2, <1>3, <2>1 DEF IsDialog, NoDialog, DialogKinds
<1>4. CASE Same
  BY <1>2, <1>4 DEF Same
<1>5. CASE JustOpened
  BY <1>2, <1>5 DEF JustOpened
<1>6. QED
  BY <1>1, <1>3, <1>4, <1>5

-----------------------------------------------------------------------------
(***************************************************************************)
(* The fetched.                                                              *)
(***************************************************************************)
Asking == \E n \in Nat, f \in File \cup {Nobody} : reads' = reads \cup {BoardLoad(n, f)}
Reading == \E r \in reads : reads' = (reads \ {r}) \cup {[r EXCEPT !.stage = "read", !.rows = placed]}

\* A load is asked for, read or over; a file that changes outdates what was read.
LEMMA ReadsChange ==
  ASSUME DeskInv, DeskNext
  PROVE  \/ UNCHANGED placed /\ (reads' \in SUBSET reads \/ Asking \/ Reading)
         \/ Outdate
<1>1. CASE Clicks
  BY <1>1, OnlyChangesMove DEF Clicks, Press, OpenDialog, Submit, Undo, ToastGone, TypeNo, OtherNo,
              OpenSheet, CloseDialog
<1>2. CASE Answers
  <2>1. \A a \in actions : a.n \in Nat /\ a.card \in File
    BY DEF DeskInv, DeskTypes, IsAction
  <2>2. ASSUME NEW a \in actions, Answer(a) PROVE Asking
    BY <2>1, <2>2 DEF Answer, Asking
  <2>3. ASSUME NEW a \in actions, NEW late, Failing(a, late) PROVE Asking \/ UNCHANGED reads
    BY <2>1, <2>3 DEF Failing, Asking
  <2>4. QED
    BY <1>2, <2>2, <2>3, OnlyChangesMove DEF Answers, Refused, Lost
<1>3. CASE SheetRuns
  <2>1. \A b \in batches : b.n \in Nat
    BY DEF DeskInv, DeskTypes, IsBatch
  <2>2. ASSUME NEW b \in batches, FinishBatch(b) PROVE Asking \/ UNCHANGED reads
    BY <2>1, <2>2 DEF FinishBatch, Asking
  <2>3. UNCHANGED reads \/ \E b \in batches : FinishBatch(b)
    BY <1>3 DEF SheetRuns, SubmitSheet, Check, CheckFails, SendNext, SendAnswered, SendLost
  <2>4. QED
    BY <1>3, <2>2, <2>3, OnlyChangesMove
<1>4. CASE BoardLoads
  <2>1. LiveRefetch => Asking
    BY DEF LiveRefetch, Asking
  <2>2. ASSUME NEW r \in reads, ReadFiles(r) PROVE Reading
    BY <2>2 DEF ReadFiles, Reading
  <2>3. ASSUME NEW r \in reads, Loaded(r) PROVE reads' \in SUBSET reads
    BY <2>3 DEF Loaded
  <2>4. QED
    BY <1>4, <2>1, <2>2, <2>3, OnlyChangesMove DEF BoardLoads, ShowBoard, LoadBoardFails
<1>5. CASE Changes
  BY <1>5 DEF Changes, Other, HandleAction, HandleSend
<1>6. QED
  BY <1>1, <1>2, <1>3, <1>4, <1>5, DeskSteps

ReadSound(r, files) ==
  /\ IsRead(r)
  /\ r.stage = "read" => r.rows = files \/ r.behind
  /\ \A f \in File : files[f].status \in Numberless => r.rows[f].status \in Numberless

\* What is asked for starts from the board as it is shown.
LEMMA AskedSound ==
  ASSUME DeskInv, NEW n \in Nat, NEW f \in File \cup {Nobody}
  PROVE  ReadSound(BoardLoad(n, f), placed)
<1>1. board \in [File -> FileRow] /\ NoneStrays
  BY DEF DeskInv, DeskTypes
<1>2. PICK r : r = BoardLoad(n, f)
  OBVIOUS
<1>3. IsRead(r) /\ r.stage = "asked" /\ r.rows = board
  BY <1>1, <1>2 DEF BoardLoad, IsRead
<1>4. QED
  BY <1>1, <1>2, <1>3 DEF ReadSound, NoneStrays

\* Every load that was read shows the files, or is known to be behind.
LEMMA ReadsStep ==
  ASSUME DeskInv, DeskNext
  PROVE  \A r \in reads' : ReadSound(r, placed')
<1>1. \A r \in reads : ReadSound(r, placed)
  BY DEF DeskInv, DeskTypes, BoardToBeTold, NoneStrays, ReadSound
<1>2. placed \in [File -> FileRow] /\ FilesKept
  BY FilesStep DEF DeskInv, DeskTypes
<1>3. CASE UNCHANGED placed /\ reads' \in SUBSET reads
  BY <1>1, <1>3
<1>4. CASE UNCHANGED placed /\ Asking
  BY <1>1, <1>4, AskedSound DEF Asking
<1>5. CASE UNCHANGED placed /\ Reading
  <2>1. PICK r \in reads : reads' = (reads \ {r}) \cup {[r EXCEPT !.stage = "read", !.rows = placed]}
    BY <1>5 DEF Reading
  <2>2. PICK q : q = [r EXCEPT !.stage = "read", !.rows = placed]
    OBVIOUS
  <2>3. IsRead(r)
    BY <1>1 DEF ReadSound
  <2>4. IsRead(q) /\ q.rows = placed
    BY <1>2, <2>2, <2>3 DEF IsRead
  <2>5. QED
    BY <1>1, <1>5, <2>1, <2>2, <2>4 DEF ReadSound
<1>6. CASE Outdate
  <2>1. SUFFICES ASSUME NEW q \in reads' PROVE ReadSound(q, placed')
    OBVIOUS
  <2>2. PICK r \in reads : q = [r EXCEPT !.behind = @ \/ r.stage = "read"]
    BY <1>6 DEF Outdate
  <2>3. ReadSound(r, placed)
    BY <1>1
  <2>4. IsRead(q) /\ q.rows = r.rows /\ q.stage = r.stage /\ (q.stage = "read" => q.behind)
    BY <2>2, <2>3 DEF ReadSound, IsRead
  <2>5. QED
    BY <1>2, <2>3, <2>4 DEF ReadSound, FilesKept
<1>7. QED
  BY <1>3, <1>4, <1>5, <1>6, ReadsChange

\* The board shows what a load read, and strays no more than it.
LEMMA BoardStep ==
  ASSUME DeskInv, DeskNext
  PROVE  /\ board' \in [File -> FileRow]
         /\ \A f \in File : placed'[f].status \in Numberless =>
                           board'[f].status \in Numberless
<1>1. board \in [File -> FileRow] /\ NoneStrays /\ FilesKept
      /\ \A r \in reads : IsRead(r)
  BY FilesStep DEF DeskInv, DeskTypes
<1>2. UNCHANGED board \/ \E r \in reads : UNCHANGED placed /\ board' = r.rows
  <2>1. Clicks => UNCHANGED board
    BY DEF Clicks, Press, OpenDialog, Submit, Undo, ToastGone, TypeNo, OtherNo, OpenSheet,
           CloseDialog, Shown
  <2>2. Answers => UNCHANGED board
    BY DEF Answers, Answer, Refused, Lost, Failing, Shown
  <2>3. SheetRuns => UNCHANGED board
    BY DEF SheetRuns, SubmitSheet, Check, CheckFails, SendNext, SendAnswered, SendLost,
           FinishBatch, InBatch, Shown
  <2>4. BoardLoads => UNCHANGED board \/ \E r \in reads : UNCHANGED placed /\ board' = r.rows
    BY DEF BoardLoads, LiveRefetch, ReadFiles, ShowBoard, LoadBoardFails, Loaded, Shown, Stored
  <2>5. Changes => UNCHANGED board
    BY DEF Changes, Other, HandleAction, HandleSend, InBatch, Shown
  <2>6. QED
    BY <2>1, <2>2, <2>3, <2>4, <2>5, DeskSteps
<1>3. CASE UNCHANGED board
  BY <1>1, <1>3 DEF NoneStrays, FilesKept
<1>4. CASE \E r \in reads : UNCHANGED placed /\ board' = r.rows
  BY <1>1, <1>4 DEF NoneStrays, IsRead
<1>5. QED
  BY <1>2, <1>3, <1>4

-----------------------------------------------------------------------------
(***************************************************************************)
(* The POSTs, and the button of each card.                                 *)
(***************************************************************************)
\* A button's POST is asked for where no dialog is open; a dialog's is not a button's,
\* and the sheet's are not here.
Clicked(a) ==
  /\ IsAction(a) /\ a.of = dialog.n /\ a.stage = "asked"
  /\ a.by \in StayOpen => a.do \in {"send", "skip"}
  /\ a.do \in {"send", "skip"} => dialog'.kind # "sheet"

\* A POST names what was clicked, and the dialog it was clicked in.
LEMMA ActionIs ==
  ASSUME DeskInv, NEW do, NEW f \in File, NEW by \in Buttons, NEW no \in NoOrNobody,
         NEW a, a = Action(do, f, by, no)
  PROVE  /\ IsAction(a) /\ a.do = do /\ a.card = f /\ a.by = by /\ a.no = no
         /\ a.of = dialog.n /\ a.stage = "asked"
<1>1. taps \in Nat /\ dialog.n \in Nat
  BY DEF DeskInv, DeskTypes, IsDialog
<1>2. QED
  BY <1>1 DEF Action, IsAction

Pressed(f) == \E a : /\ Clicked(a) /\ a.card = f /\ f \notin inFlight
                     /\ actions' = actions \cup {a} /\ inFlight' = inFlight \cup {f}
                     /\ UNCHANGED reads
OthersPressed == \E a : /\ Clicked(a) /\ a.by \notin {"button", "undoable"}
                        /\ actions' = actions \cup {a} /\ UNCHANGED <<inFlight, reads>>

\* A click sends one POST at most, and a button marks its card.
LEMMA ClicksAct ==
  ASSUME DeskInv, Clicks
  PROVE  UNCHANGED <<actions, inFlight, reads>> \/ OthersPressed \/ \E f \in File : Pressed(f)
<1>0. /\ Nobody \in NoOrNobody /\ dialog.kind \in DialogKinds
      /\ dialog.vals \in [File -> NoOrNobody]
  BY DEF NoOrNobody, DeskInv, DeskTypes, IsDialog
<1>1. ASSUME NEW f \in File, NEW s \in Steps, Press(f, s) PROVE Pressed(f)
  <2>0. s.by \in Buttons
    BY <1>1 DEF Press, Buttons
  <2>1. PICK a : a = Action(s.do, f, s.by, Nobody)
    OBVIOUS
  <2>2. IsAction(a) /\ a.card = f /\ a.by = s.by /\ a.of = dialog.n /\ a.stage = "asked"
    BY <1>0, <2>0, <2>1, ActionIs
  <2>3. dialog' = NoDialog /\ s.by \notin StayOpen
    BY <1>1 DEF Press, StayOpen
  <2>4. Clicked(a)
    BY <2>2, <2>3 DEF Clicked, NoDialog
  <2>5. QED
    BY <1>1, <2>1, <2>2, <2>4 DEF Press, Pressed, MarkBusy
<1>2. ASSUME NEW f \in File, NEW s \in Steps, Submit(f, s) PROVE OthersPressed
  <2>1. PICK a : a = Action(s.do, f, dialog.kind, dialog.vals[f])
    OBVIOUS
  <2>2. s.by = dialog.kind /\ StepSound(s)
    BY <1>2, StepsSound DEF Submit, Offered
  <2>3. IsAction(a) /\ a.do = s.do /\ a.by = dialog.kind /\ a.of = dialog.n /\ a.stage = "asked"
    <3>1. dialog.kind \in Buttons /\ dialog.vals[f] \in NoOrNobody
      BY <1>0, <2>2 DEF StepSound, Buttons
    <3>2. QED
      BY <2>1, <2>2, <3>1, ActionIs
  <2>4. dialog'.kind = dialog.kind \/ dialog'.kind = "none"
    BY <1>2, DialogOfClicks DEF Submit, NoDialog, DeskInv, DeskTypes, IsDialog
  <2>5. Clicked(a) /\ a.by \notin {"button", "undoable"}
    BY <1>0, <2>2, <2>3, <2>4 DEF Clicked, StepSound, DialogKinds
  <2>6. QED
    BY <1>2, <2>1, <2>5 DEF Submit, OthersPressed
<1>3. ASSUME NEW f \in File, Undo(f) PROVE OthersPressed
  <2>1. PICK a : a = Action("undo", f, "toast", Nobody)
    OBVIOUS
  <2>2. IsAction(a) /\ a.do = "undo" /\ a.by = "toast" /\ a.of = dialog.n /\ a.stage = "asked"
    <3>1. "toast" \in Buttons
      BY DEF Buttons
    <3>2. QED
      BY <1>0, <2>1, <3>1, ActionIs
  <2>3. QED
    BY <1>3, <2>1, <2>2 DEF Undo, OthersPressed, Clicked, StayOpen
<1>4. QED
  <2>1. \/ UNCHANGED <<actions, inFlight, reads>>
        \/ \E f \in File, s \in Steps : Press(f, s) \/ Submit(f, s)
        \/ \E f \in File : Undo(f)
    BY DEF Clicks, OpenDialog, ToastGone, TypeNo, OtherNo, OpenSheet, CloseDialog
  <2>2. QED
    BY <1>1, <1>2, <1>3, <2>1

\* An answered POST is followed by a load, or frees its button.
Followed(a) ==
  /\ actions' = actions \ {a}
  /\ \/ /\ \E n \in Nat : reads' = reads \cup {BoardLoad(n, IF a.by \in {"button", "undoable"}
                                                        THEN a.card ELSE Nobody)}
        /\ UNCHANGED inFlight
     \/ /\ inFlight' = IF a.by = "button" THEN inFlight \ {a.card} ELSE inFlight
        /\ UNCHANGED reads

\* Each answer is one of those.
LEMMA AnswersFollow ==
  ASSUME DeskInv, Answers
  PROVE  \E a \in actions : Followed(a)
<1>1. \A a \in actions : a.n \in Nat
  BY DEF DeskInv, DeskTypes, IsAction
<1>2. ASSUME NEW a \in actions, Answer(a) PROVE Followed(a)
  BY <1>1, <1>2 DEF Answer, Followed
<1>3. ASSUME NEW a \in actions, NEW late \in BOOLEAN, Failing(a, late)
      PROVE  Followed(a)
  BY <1>1, <1>3 DEF Failing, Followed
<1>4. QED
  BY <1>2, <1>3 DEF Answers, Refused, Lost

\* A POST that is handled is the same POST.
Staged(a, b) == /\ IsAction(b) /\ b.do = a.do /\ b.card = a.card /\ b.by = a.by /\ b.of = a.of
Handled == \E a \in actions : \E b : /\ Staged(a, b) /\ actions' = (actions \ {a}) \cup {b}
                                    /\ UNCHANGED inFlight /\ (UNCHANGED reads \/ Outdate)

\* The stage alone changes.
LEMMA StagedSame ==
  ASSUME DeskInv, NEW a \in actions, NEW stage, NEW b, b = [a EXCEPT !.stage = stage]
  PROVE  Staged(a, b) /\ b.stage = stage
BY DEF DeskInv, DeskTypes, IsAction, Staged

\* The server handles a POST or leaves them alone.
LEMMA ChangesHandle ==
  ASSUME DeskInv, Changes
  PROVE  \/ Handled
         \/ UNCHANGED <<actions, inFlight>> /\ (UNCHANGED reads \/ Outdate)
<1>1. ASSUME NEW a \in actions, HandleAction(a) PROVE Handled
  <2>1. PICK b : /\ b = [a EXCEPT !.stage = "ok"] \/ b = [a EXCEPT !.stage = "refused"]
                 /\ actions' = (actions \ {a}) \cup {b}
    BY <1>1 DEF HandleAction, Replaced
  <2>2. Staged(a, b)
    BY <2>1, StagedSame
  <2>3. UNCHANGED inFlight /\ (UNCHANGED reads \/ Outdate)
    BY <1>1 DEF HandleAction
  <2>4. QED
    BY <2>1, <2>2, <2>3 DEF Handled
<1>2. QED
  BY <1>1 DEF Changes, Other, HandleSend, InBatch

\* A load keeps the card whose button it will free.
Held == /\ UNCHANGED <<actions, inFlight>>
        /\ \/ \E n \in Nat : reads' = reads \cup {BoardLoad(n, Nobody)}
           \/ Reading
LoadOver == \E r \in reads : /\ reads' = reads \ {r} /\ inFlight' = inFlight \ {r.clears}
                         /\ UNCHANGED actions

\* A load goes on, or is over and frees its card.
LEMMA LoadsHold ==
  ASSUME DeskInv, BoardLoads
  PROVE  Held \/ LoadOver
<1>1. LiveRefetch => Held
  BY DEF LiveRefetch, Held
<1>2. ASSUME NEW r \in reads, ReadFiles(r) PROVE Held
  BY <1>2 DEF ReadFiles, Held, Reading
<1>3. ASSUME NEW r \in reads, Loaded(r) PROVE LoadOver
  BY <1>3 DEF Loaded, LoadOver
<1>4. QED
  BY <1>1, <1>2, <1>3 DEF BoardLoads, ShowBoard, LoadBoardFails

\* The sheet loads the board for no card.
LEMMA SheetHolds ==
  ASSUME DeskInv, SheetRuns
  PROVE  Held \/ UNCHANGED <<actions, inFlight, reads>>
<1>1. \A b \in batches : b.n \in Nat
  BY DEF DeskInv, DeskTypes, IsBatch
<1>2. ASSUME NEW b \in batches, FinishBatch(b) PROVE Held \/ UNCHANGED <<actions, inFlight, reads>>
  BY <1>1, <1>2 DEF FinishBatch, InBatch, Held
<1>3. QED
  BY <1>2 DEF SheetRuns, SubmitSheet, Check, CheckFails, SendNext, SendAnswered, SendLost, InBatch

\* Neither the POSTs nor the fetched gain a card of the buttons.
NoneGained(f) ==
  /\ \A a, b \in actions' : OfButton(a, f) /\ OfButton(b, f) => a = b
  /\ \A a \in actions' : OfButton(a, f) => \E b \in actions : OfButton(b, f)
  /\ \A q, r \in reads' : q.clears = f /\ r.clears = f => q = r
  /\ \A q \in reads' : q.clears = f => \E r \in reads : r.clears = f

\* As long as none gains one, each card has one of them.
LEMMA NoneGainedKeeps ==
  ASSUME OneUnderWay, UNCHANGED inFlight, \A f \in File : NoneGained(f)
  PROVE  OneUnderWay'
BY DEF OneUnderWay, NoneGained, OfButton

\* A handled POST is of the same card.
LEMMA ActionsHandled ==
  ASSUME OneUnderWay, Handled \/ UNCHANGED actions, NEW f \in File
  PROVE  /\ \A a, b \in actions' : OfButton(a, f) /\ OfButton(b, f) => a = b
         /\ \A a \in actions' : OfButton(a, f) => \E b \in actions : OfButton(b, f)
BY DEF OneUnderWay, Handled, Staged, OfButton

\* An outdated load is for the same card.
LEMMA ReadsOutdated ==
  ASSUME OneUnderWay, DeskTypes, Outdate \/ UNCHANGED reads, NEW f \in File
  PROVE  /\ \A q, r \in reads' : q.clears = f /\ r.clears = f => q = r
         /\ \A q \in reads' : q.clears = f => \E r \in reads : r.clears = f
<1>1. CASE UNCHANGED reads
  BY <1>1 DEF OneUnderWay
<1>2. CASE Outdate
  <2>1. ASSUME NEW q \in reads'
        PROVE  \E r \in reads : q = [r EXCEPT !.behind = @ \/ r.stage = "read"] /\ q.clears = r.clears
    <3>1. PICK r \in reads : q = [r EXCEPT !.behind = @ \/ r.stage = "read"]
      BY <1>2 DEF Outdate
    <3>2. IsRead(r)
      BY DEF DeskTypes
    <3>3. QED
      BY <3>1, <3>2 DEF IsRead
  <2>2. QED
    BY <2>1 DEF OneUnderWay
<1>3. QED
  BY <1>1, <1>2

\* So is one that is read, and one that frees no card adds none.
LEMMA ReadsHeld ==
  ASSUME OneUnderWay, DeskTypes, Held, NEW f \in File
  PROVE  /\ \A q, r \in reads' : q.clears = f /\ r.clears = f => q = r
         /\ \A q \in reads' : q.clears = f => \E r \in reads : r.clears = f
<1>1. CASE Reading
  <2>1. PICK r \in reads : reads' = (reads \ {r}) \cup {[r EXCEPT !.stage = "read", !.rows = placed]}
    BY <1>1 DEF Reading
  <2>2. PICK q : q = [r EXCEPT !.stage = "read", !.rows = placed]
    OBVIOUS
  <2>3. q.clears = r.clears
    BY <2>2 DEF DeskTypes, IsRead
  <2>4. QED
    BY <2>1, <2>2, <2>3 DEF OneUnderWay
<1>2. ASSUME NEW n \in Nat, reads' = reads \cup {BoardLoad(n, Nobody)}
      PROVE  /\ \A q, r \in reads' : q.clears = f /\ r.clears = f => q = r
             /\ \A q \in reads' : q.clears = f => \E r \in reads : r.clears = f
  <2>1. PICK q : q = BoardLoad(n, Nobody)
    OBVIOUS
  <2>2. q.clears # f
    BY <2>1, DeskAssumption DEF BoardLoad
  <2>3. QED
    BY <1>2, <2>1, <2>2 DEF OneUnderWay
<1>3. QED
  BY <1>1, <1>2 DEF Held

\* Each step leaves a card one of its button's POSTs and loads.
LEMMA OneUnderWayStep ==
  ASSUME DeskInv, DeskNext
  PROVE  OneUnderWay'
<1>0. OneUnderWay /\ DeskTypes /\ Nobody \notin File
  BY DeskAssumption DEF DeskInv
<1>1. CASE UNCHANGED <<actions, inFlight, reads>>
  BY <1>0, <1>1 DEF OneUnderWay, OfButton
<1>2. CASE OthersPressed
  BY <1>0, <1>2 DEF OthersPressed, OneUnderWay, OfButton
<1>3. ASSUME NEW f \in File, Pressed(f) PROVE OneUnderWay'
  BY <1>0, <1>3 DEF Pressed, OneUnderWay, OfButton
<1>4. ASSUME NEW a \in actions, Followed(a) PROVE OneUnderWay'
  <2>1. CASE UNCHANGED reads
    BY <1>0, <1>4, <2>1 DEF Followed, OneUnderWay, OfButton
  <2>2. ASSUME NEW n \in Nat, actions' = actions \ {a}, UNCHANGED inFlight,
               reads' = reads \cup {BoardLoad(n, IF a.by \in {"button", "undoable"}
                                                THEN a.card ELSE Nobody)}
        PROVE  OneUnderWay'
    <3>1. PICK c : c = IF a.by \in {"button", "undoable"} THEN a.card ELSE Nobody
      OBVIOUS
    <3>2. PICK q : q = BoardLoad(n, c)
      OBVIOUS
    <3>3. q.clears = c /\ reads' = reads \cup {q}
      BY <2>2, <3>1, <3>2 DEF BoardLoad
    <3>4. QED
      BY <1>0, <2>2, <3>1, <3>3 DEF OneUnderWay, OfButton
  <2>3. QED
    BY <1>4, <2>1, <2>2 DEF Followed
<1>5. CASE \/ Handled
           \/ UNCHANGED <<actions, inFlight>> /\ (UNCHANGED reads \/ Outdate)
  <2>1. /\ Handled \/ UNCHANGED actions
        /\ Outdate \/ UNCHANGED reads
        /\ UNCHANGED inFlight
    BY <1>5 DEF Handled
  <2>2. QED
    BY <1>0, <2>1, ActionsHandled, ReadsOutdated, NoneGainedKeeps DEF NoneGained
<1>6. CASE Held
  <2>1. UNCHANGED actions /\ UNCHANGED inFlight
    BY <1>6 DEF Held
  <2>2. QED
    BY <1>0, <1>6, <2>1, ActionsHandled, ReadsHeld, NoneGainedKeeps DEF NoneGained
<1>7. CASE LoadOver
  BY <1>0, <1>7 DEF LoadOver, OneUnderWay, OfButton
<1>8. QED
  BY <1>1, <1>2, <1>3, <1>4, <1>5, <1>6, <1>7, DeskSteps, ClicksAct, AnswersFollow, ChangesHandle,
     LoadsHold, SheetHolds

ActionSound(a) ==
  /\ IsAction(a) /\ a.of <= taps
  /\ a.by \in StayOpen => a.do \in {"send", "skip"}
  /\ a.do \in {"send", "skip"} /\ a.of = dialog.n => dialog.kind # "sheet"

\* What a POST was before, if it was there.
LEMMA ActionsCome ==
  ASSUME DeskInv, DeskNext, NEW a \in actions'
  PROVE  Clicked(a) \/ \E b \in actions : Staged(b, a)
<1>1. \A b \in actions : Staged(b, b)
  BY DEF DeskInv, DeskTypes, Staged
<1>2. CASE Clicks
  BY <1>1, <1>2, ClicksAct DEF OthersPressed, Pressed
<1>3. CASE Answers
  BY <1>1, <1>3, AnswersFollow DEF Followed
<1>4. CASE SheetRuns
  BY <1>1, <1>4, SheetHolds DEF Held
<1>5. CASE BoardLoads
  BY <1>1, <1>5, LoadsHold DEF Held, LoadOver
<1>6. CASE Changes
  BY <1>1, <1>6, ChangesHandle DEF Handled
<1>7. QED
  BY <1>2, <1>3, <1>4, <1>5, <1>6, DeskSteps

\* No POST but the sheet's sends a number under the sheet's name.
LEMMA ActionsStep ==
  ASSUME DeskInv, DeskNext
  PROVE  \A a \in actions' : ActionSound(a)'
<1>1. \A a \in actions : ActionSound(a)
  BY DEF DeskInv, DeskTypes, BoardToBeTold, OneRun, ActionSound
<1>2. SUFFICES ASSUME NEW a \in actions' PROVE ActionSound(a)'
  OBVIOUS
<1>3. /\ taps \in Nat /\ taps' \in Nat /\ taps <= taps'
      /\ dialog.n \in Nat /\ dialog.n <= taps
      /\ Same \/ JustOpened \/ dialog' = NoDialog
  BY TapsGrow, DialogStep DEF DeskInv, DeskTypes, IsDialog
<1>4. CASE Clicked(a)
  BY <1>3, <1>4 DEF Clicked, ActionSound, IsAction
<1>5. ASSUME NEW b \in actions, Staged(b, a) PROVE ActionSound(a)'
  <2>1. ActionSound(b) /\ b.of \in Nat
    BY <1>1 DEF ActionSound, IsAction
  <2>2. dialog' = NoDialog => dialog'.kind # "sheet"
    BY DEF NoDialog
  <2>3. QED
    BY <1>3, <1>5, <2>1, <2>2 DEF Staged, ActionSound, Same, JustOpened
<1>6. QED
  BY <1>4, <1>5, ActionsCome

-----------------------------------------------------------------------------
(***************************************************************************)
(* The sheet while others act: a busy one is left alone or closed.         *)
(***************************************************************************)
SheetKept ==
  dialog.kind = "sheet" =>
    \/ dialog' = NoDialog
    \/ /\ dialog'.kind = "sheet" /\ dialog'.n = dialog.n
       /\ dialog'.cards = dialog.cards /\ dialog'.done = dialog.done
       /\ \A f \in dialog.done : dialog'.vals[f] = dialog.vals[f]
       /\ dialog.busy => dialog' = dialog

\* Nobody but the sheet changes what it has sent.
LEMMA OthersKeepSheet ==
  ASSUME DeskInv, Clicks \/ Answers \/ BoardLoads \/ Changes
  PROVE  SheetKept
<1>0. IsDialog(dialog)
  BY DEF DeskInv, DeskTypes
<1>1. CASE UNCHANGED dialog
  BY <1>1 DEF SheetKept
<1>2. CASE Clicks
  <2>1. ASSUME dialog = NoDialog PROVE SheetKept
    BY <2>1 DEF NoDialog, SheetKept
  <2>2. ASSUME NEW f \in File, NEW s \in Steps, Submit(f, s) PROVE SheetKept
    BY <2>2, StepsSound DEF Submit, Offered, StepSound, SheetKept
  <2>3. ASSUME NEW f \in File, NEW no \in Number, TypeNo(f, no) PROVE SheetKept
    <3>1. PICK vals, errs : /\ vals = [dialog.vals EXCEPT ![f] = no] /\ errs = dialog.errs \ {f}
                            /\ dialog' = [dialog EXCEPT !.vals = vals, !.errs = errs]
      BY <2>3 DEF TypeNo
    <3>2. dialog'.vals = vals /\ dialog'.kind = dialog.kind /\ dialog'.n = dialog.n
          /\ dialog'.cards = dialog.cards /\ dialog'.done = dialog.done
      BY <1>0, <3>1 DEF IsDialog
    <3>3. f \notin dialog.done /\ ~(dialog.kind = "sheet" /\ dialog.busy)
      BY <2>3 DEF TypeNo, Listed
    <3>4. \A g \in dialog.done : vals[g] = dialog.vals[g]
      BY <1>0, <3>1, <3>3 DEF IsDialog
    <3>5. QED
      BY <3>2, <3>3, <3>4 DEF SheetKept
  <2>4. CloseDialog => SheetKept
    BY DEF CloseDialog, SheetKept
  <2>5. \/ UNCHANGED dialog \/ CloseDialog \/ dialog = NoDialog
        \/ \E f \in File, s \in Steps : Submit(f, s)
        \/ \E f \in File, no \in Number : TypeNo(f, no)
    BY <1>2 DEF Clicks, Press, OpenDialog, Undo, ToastGone, OtherNo, OpenSheet
  <2>6. QED
    BY <1>1, <2>1, <2>2, <2>3, <2>4, <2>5
<1>3. CASE Answers
  <2>1. ASSUME NEW a \in actions, Answer(a) PROVE SheetKept
    BY <2>1 DEF Answer, ShutDialog, SheetKept
  <2>2. ASSUME NEW a \in actions, NEW late \in BOOLEAN, Failing(a, late) PROVE SheetKept
    <3>1. a.by \in StayOpen /\ dialog.n = a.of => dialog.kind # "sheet"
      BY DEF DeskInv, BoardToBeTold, OneRun
    <3>2. QED
      BY <2>2, <3>1 DEF Failing, ShutDialog, SheetKept
  <2>3. QED
    BY <1>3, <2>1, <2>2 DEF Answers, Refused, Lost
<1>4. CASE BoardLoads
  BY <1>1, <1>4 DEF BoardLoads, LiveRefetch, ReadFiles, ShowBoard, LoadBoardFails, Loaded, SheetKept
<1>5. CASE Changes
  BY <1>1, <1>5 DEF Changes, Other, HandleAction, HandleSend
<1>6. QED
  BY <1>2, <1>3, <1>4, <1>5

-----------------------------------------------------------------------------
(***************************************************************************)
(* The runs of the sheet.                                                  *)
(***************************************************************************)
RunSound(b) ==
  /\ IsBatch(b) /\ b.of <= taps /\ b.of > 0 /\ BatchSound(b)
  /\ \A f \in File : placed[f].status \in Numberless => f \notin b.todo /\ b.now # f

\* A run stays sound whatever happens to the files.
LEMMA RunStays ==
  ASSUME DeskInv, DeskNext, NEW b \in batches
  PROVE  RunSound(b) /\ RunSound(b)'
<1>1. IsBatch(b) /\ b.of <= taps /\ b.of > 0 /\ BatchSound(b) /\ NoneStrays
  BY DEF DeskInv, DeskTypes, BatchesSound
<1>2. FilesKept /\ taps <= taps' /\ taps \in Nat /\ taps' \in Nat
  BY FilesStep, TapsGrow DEF DeskInv, DeskTypes
<1>3. IsBatch(b)' /\ b.of <= taps'
  BY <1>1, <1>2 DEF IsBatch
<1>4. RunSound(b)
  BY <1>1 DEF RunSound, NoneStrays
<1>5. BatchSound(b)'
  BY <1>1, <1>2 DEF BatchSound, IsBatch, FilesKept
<1>6. \A f \in File : placed'[f].status \in Numberless => f \notin b.todo /\ b.now # f
  BY <1>2, <1>4 DEF RunSound, FilesKept
<1>7. QED
  BY <1>1, <1>3, <1>4, <1>5, <1>6 DEF RunSound

\* A row of a run that is written and is yet to leave the sheet.
Leaving(b, f) == b.stage = "send" /\ (f \in b.ok \/ (b.now = f /\ b.sent = "ok"))
Tells(b) == b.stage = "send" /\ (b.ok # {} \/ b.sent = "ok")

\* A run goes on: what it has written stays to be told, unless the answer is lost.
Forward(b, c) ==
  /\ batches' = (batches \ {b}) \cup {c}
  /\ RunSound(c)' /\ c.of = b.of /\ c.vals = b.vals /\ c.stage \in {b.stage, "send"}
  /\ b.stage # "load"
  /\ \A f \in File : Leaving(b, f) => Leaving(c, f) \/ drops' > 0
  /\ Tells(b) => Tells(c) \/ behind'

\* A row that is being sent belongs to a run that sends.
LEMMA SendingIs ==
  ASSUME NEW b, RunSound(b), b.sent # "no"
  PROVE  b.stage = "send" /\ b.now \in File
BY DEF RunSound, BatchSound

\* A check that found nothing, or failed, is passed.
LEMMA ChecksForward ==
  ASSUME DeskInv, DeskNext, NEW b \in batches, b.stage = "check",
         Goes(b, [b EXCEPT !.stage = "send"])
  PROVE  \E c : Forward(b, c)
<1>1. RunSound(b)'
  BY RunStays
<1>2. PICK c : c = [b EXCEPT !.stage = "send"]
  OBVIOUS
<1>3. /\ c.n = b.n /\ c.of = b.of /\ c.vals = b.vals /\ c.todo = b.todo /\ c.now = b.now
      /\ c.sent = b.sent /\ c.ok = b.ok /\ c.bad = b.bad /\ c.stage = "send" /\ IsBatch(c)'
  BY <1>1, <1>2 DEF RunSound, IsBatch
<1>4. RunSound(c)'
  BY <1>1, <1>3 DEF RunSound, BatchSound
<1>5. QED
  BY <1>2, <1>3, <1>4 DEF Forward, Goes, Leaving, Tells

\* A row is sent.
LEMMA SendsForward ==
  ASSUME DeskInv, DeskNext, NEW b \in batches, NEW f \in File, SendNext(b, f)
  PROVE  \E c : Forward(b, c)
<1>1. RunSound(b)' /\ b.stage = "send" /\ b.now = Nobody /\ f \in b.todo
  BY RunStays DEF SendNext
<1>2. PICK c : c = [b EXCEPT !.now = f, !.sent = "asked", !.todo = @ \ {f}]
  OBVIOUS
<1>3. /\ c.n = b.n /\ c.of = b.of /\ c.vals = b.vals /\ c.todo = b.todo \ {f} /\ c.now = f
      /\ c.sent = "asked" /\ c.ok = b.ok /\ c.bad = b.bad /\ c.stage = "send" /\ IsBatch(c)'
  BY <1>1, <1>2 DEF RunSound, IsBatch
<1>4. RunSound(c)' /\ b.sent = "no"
  BY <1>1, <1>3, DeskAssumption DEF RunSound, BatchSound
<1>5. batches' = (batches \ {b}) \cup {c}
  BY <1>2 DEF SendNext, Goes
<1>6. QED
  BY <1>1, <1>3, <1>4, <1>5 DEF Forward, Leaving, Tells

\* An answer that came leaves the row written or failed.
LEMMA AnsweredForward ==
  ASSUME DeskInv, DeskNext, NEW b \in batches, SendAnswered(b)
  PROVE  \E c : Forward(b, c)
<1>1. RunSound(b)' /\ b.sent \in {"ok", "refused"}
  BY RunStays DEF SendAnswered
<1>2. b.stage = "send" /\ b.now \in File
  BY <1>1, RunStays, SendingIs
<1>3. CASE b.sent = "ok"
  <2>1. PICK ok : ok = b.ok \cup {b.now}
    OBVIOUS
  <2>2. PICK c : c = [b EXCEPT !.now = Nobody, !.sent = "no", !.ok = ok]
    OBVIOUS
  <2>3. batches' = (batches \ {b}) \cup {c}
    BY <1>3, <2>1, <2>2 DEF SendAnswered, Goes
  <2>4. /\ c.n = b.n /\ c.of = b.of /\ c.vals = b.vals /\ c.todo = b.todo /\ c.now = Nobody
        /\ c.sent = "no" /\ c.ok = ok /\ c.bad = b.bad /\ c.stage = "send" /\ IsBatch(c)'
    BY <1>1, <1>2, <2>1, <2>2 DEF RunSound, IsBatch
  <2>5. RunSound(c)'
    BY <1>1, <1>2, <1>3, <2>1, <2>4, DeskAssumption DEF RunSound, BatchSound
  <2>6. QED
    BY <1>2, <1>3, <2>1, <2>3, <2>4, <2>5 DEF Forward, Leaving, Tells
<1>4. CASE b.sent # "ok"
  <2>1. PICK failed : failed = b.bad \cup {b.now}
    OBVIOUS
  <2>2. PICK c : c = [b EXCEPT !.now = Nobody, !.sent = "no", !.bad = failed]
    OBVIOUS
  <2>3. batches' = (batches \ {b}) \cup {c}
    BY <1>4, <2>1, <2>2 DEF SendAnswered, Goes, BadRow
  <2>4. /\ c.n = b.n /\ c.of = b.of /\ c.vals = b.vals /\ c.todo = b.todo /\ c.now = Nobody
        /\ c.sent = "no" /\ c.ok = b.ok /\ c.bad = failed /\ c.stage = "send" /\ IsBatch(c)'
    BY <1>1, <1>2, <2>1, <2>2 DEF RunSound, IsBatch
  <2>5. RunSound(c)'
    BY <1>1, <2>4, DeskAssumption DEF RunSound, BatchSound
  <2>6. QED
    BY <1>2, <1>4, <2>3, <2>4, <2>5 DEF Forward, Leaving, Tells
<1>5. QED
  BY <1>3, <1>4

\* A lost one leaves it failed, whatever was written.
LEMMA LostForward ==
  ASSUME DeskInv, DeskNext, NEW b \in batches, SendLost(b)
  PROVE  \E c : Forward(b, c)
<1>1. RunSound(b)' /\ b.sent # "no" /\ drops' > 0
  BY RunStays DEF SendLost, Drop, DeskInv, DeskTypes
<1>2. b.stage = "send" /\ b.now \in File /\ (b.sent = "ok" => behind')
  BY <1>1, RunStays, SendingIs DEF SendLost
<1>3. PICK failed : failed = b.bad \cup {b.now}
  OBVIOUS
<1>4. PICK c : c = [b EXCEPT !.now = Nobody, !.sent = "no", !.bad = failed]
  OBVIOUS
<1>5. batches' = (batches \ {b}) \cup {c}
  BY <1>3, <1>4 DEF SendLost, Goes, BadRow
<1>6. /\ c.n = b.n /\ c.of = b.of /\ c.vals = b.vals /\ c.todo = b.todo /\ c.now = Nobody
      /\ c.sent = "no" /\ c.ok = b.ok /\ c.bad = failed /\ c.stage = "send" /\ IsBatch(c)'
  BY <1>1, <1>2, <1>3, <1>4 DEF RunSound, IsBatch
<1>7. RunSound(c)'
  BY <1>1, <1>6, DeskAssumption DEF RunSound, BatchSound
<1>8. QED
  BY <1>1, <1>2, <1>5, <1>6, <1>7 DEF Forward, Leaving, Tells

\* What the server makes of a row.
LEMMA HandledForward ==
  ASSUME DeskInv, DeskNext, NEW b \in batches, HandleSend(b)
  PROVE  \E c : /\ Forward(b, c)
                /\ \/ UNCHANGED placed
                   \/ \E row : /\ OneMoved(b.now, row) /\ row.of = b.of
                               /\ Leaving(c, b.now) /\ Tells(c)
<1>1. RunSound(b) /\ RunSound(b)' /\ b.sent = "asked"
  BY RunStays DEF HandleSend
<1>2. b.stage = "send" /\ b.now \in File
  BY <1>1, SendingIs
<1>3. ASSUME NEW row \in Effects("send", b.now, b.vals[b.now], b.of),
             placed' = [placed EXCEPT ![b.now] = row], Goes(b, [b EXCEPT !.sent = "ok"])
      PROVE  \E c : /\ Forward(b, c) /\ Leaving(c, b.now) /\ Tells(c)
                    /\ OneMoved(b.now, row) /\ row.of = b.of
  <2>1. OneMoved(b.now, row) /\ row.of = b.of /\ row.no = b.vals[b.now]
    BY <1>1, <1>3, SendMoves DEF OneMoved
  <2>2. placed'[b.now] = row
    BY <1>2, <2>1, MovedKeeps
  <2>3. PICK c : c = [b EXCEPT !.sent = "ok"]
    OBVIOUS
  <2>4. /\ c.n = b.n /\ c.of = b.of /\ c.vals = b.vals /\ c.todo = b.todo /\ c.now = b.now
        /\ c.sent = "ok" /\ c.ok = b.ok /\ c.bad = b.bad /\ c.stage = "send" /\ IsBatch(c)'
    BY <1>1, <1>2, <2>3 DEF RunSound, IsBatch
  <2>5. RunSound(c)'
    BY <1>1, <1>2, <2>1, <2>2, <2>4 DEF RunSound, BatchSound
  <2>6. QED
    BY <1>2, <1>3, <2>1, <2>3, <2>4, <2>5 DEF Forward, Leaving, Tells, Goes
<1>4. ASSUME Goes(b, [b EXCEPT !.sent = "refused"]), UNCHANGED placed PROVE \E c : Forward(b, c)
  <2>1. PICK c : c = [b EXCEPT !.sent = "refused"]
    OBVIOUS
  <2>2. /\ c.n = b.n /\ c.of = b.of /\ c.vals = b.vals /\ c.todo = b.todo /\ c.now = b.now
        /\ c.sent = "refused" /\ c.ok = b.ok /\ c.bad = b.bad /\ c.stage = "send" /\ IsBatch(c)'
    BY <1>1, <1>2, <2>1 DEF RunSound, IsBatch
  <2>3. RunSound(c)'
    BY <1>1, <1>2, <2>2 DEF RunSound, BatchSound
  <2>4. QED
    BY <1>1, <1>2, <1>4, <2>1, <2>2, <2>3 DEF Forward, Leaving, Tells, Goes
<1>5. QED
  BY <1>3, <1>4 DEF HandleSend

\* A run begins with the numbers of the sheet that is open.
Started ==
  /\ dialog.kind = "sheet" /\ ~dialog.busy /\ dialog' = [dialog EXCEPT !.busy = TRUE]
  /\ \E c : /\ batches' = batches \cup {c} /\ RunSound(c)'
            /\ c.of = dialog.n /\ c.vals = dialog.vals /\ c.stage = "check"

\* The run has the rows that are filled.
LEMMA SheetStarts ==
  ASSUME DeskInv, DeskNext, SubmitSheet
  PROVE  Started
<1>1. /\ IsDialog(dialog) /\ dialog.n <= taps /\ dialog.n > 0 /\ taps \in Nat
      /\ dialog.kind = "sheet" /\ ~dialog.busy /\ taps' = taps + 1 /\ UNCHANGED placed
      /\ dialog' = [dialog EXCEPT !.busy = TRUE]
  BY DEF SubmitSheet, Tap, Stored, DeskInv, DeskTypes
<1>2. Filled \in SUBSET dialog.cards /\ \A f \in Filled : dialog.vals[f] # Nobody
  BY DEF Filled, Listed
<1>3. PICK c : /\ c = [n |-> taps + 1, of |-> dialog.n, vals |-> dialog.vals, todo |-> Filled,
                       now |-> Nobody, sent |-> "no", ok |-> {}, bad |-> {}, stage |-> "check"]
               /\ batches' = batches \cup {c}
  BY DEF SubmitSheet
<1>4. /\ c.of = dialog.n /\ c.vals = dialog.vals /\ c.todo = Filled /\ c.now = Nobody /\ c.ok = {}
      /\ c.sent = "no" /\ c.stage = "check" /\ IsBatch(c)'
  BY <1>1, <1>2, <1>3 DEF IsBatch, IsDialog
<1>5. \A f \in File : placed[f].status \in Numberless => f \notin c.todo
  BY <1>1, <1>2, <1>4 DEF DeskInv, NoneStrays
<1>6. BatchSound(c)'
  BY <1>2, <1>4, DeskAssumption DEF BatchSound
<1>7. RunSound(c)'
  BY <1>1, <1>4, <1>5, <1>6, DeskAssumption DEF RunSound, IsDialog
<1>8. QED
  BY <1>1, <1>3, <1>4, <1>7 DEF Started

\* A run ends, or waits for the board, and its written rows leave the sheet it is of.
Ended(b) ==
  /\ b.stage # "load" /\ b.now = Nobody /\ b.sent = "no"
  /\ batches \ {b} \subseteq batches'
  /\ \A c \in batches' : c \in batches \ {b} \/ (RunSound(c)' /\ c.stage = "load")
  /\ dialog.n # b.of => dialog' = dialog
  /\ dialog.n = b.of => /\ dialog'.kind = dialog.kind /\ dialog'.n = dialog.n
                        /\ dialog'.cards = dialog.cards /\ dialog'.vals = dialog.vals
                        /\ dialog'.done = dialog.done \cup b.ok
  /\ Tells(b) => reads' # {}

\* A clash ends the run before anything is sent.
LEMMA ClashEnds ==
  ASSUME DeskInv, DeskNext, NEW b \in batches, Check(b), Clashes(b) # {}
  PROVE  Ended(b)
<1>1. RunSound(b) /\ b.stage = "check" /\ batches' = batches \ {b}
  BY RunStays DEF Check
<1>2. b.ok = {} /\ b.now = Nobody /\ b.sent = "no"
  BY <1>1 DEF RunSound, BatchSound
<1>3. dialog' = IF dialog.n = b.of THEN [dialog EXCEPT !.errs = Clashes(b), !.busy = FALSE] ELSE dialog
  BY DEF Check, OnSheet
<1>4. IsDialog(dialog)
  BY DEF DeskInv, DeskTypes
<1>5. QED
  BY <1>1, <1>2, <1>3, <1>4 DEF Ended, Tells, IsDialog

\* After the last row, what was written leaves the sheet.
LEMMA FinishEnds ==
  ASSUME DeskInv, DeskNext, NEW b \in batches, FinishBatch(b)
  PROVE  Ended(b)
<1>1. RunSound(b) /\ RunSound(b)' /\ b.stage = "send" /\ b.now = Nobody
  BY RunStays DEF FinishBatch
<1>2. b.sent = "no"
  BY <1>1, DeskAssumption DEF RunSound, BatchSound
<1>3. PICK done : done = dialog.done \cup b.ok
  OBVIOUS
<1>4. dialog' = IF dialog.n = b.of
                THEN [dialog EXCEPT !.done = done, !.errs = b.bad, !.busy = FALSE] ELSE dialog
  BY <1>3 DEF FinishBatch, OnSheet
<1>5. IsDialog(dialog)
  BY DEF DeskInv, DeskTypes
<1>6. dialog.n = b.of => /\ dialog'.kind = dialog.kind /\ dialog'.n = dialog.n
                         /\ dialog'.cards = dialog.cards /\ dialog'.vals = dialog.vals
                         /\ dialog'.done = done
  BY <1>4, <1>5 DEF IsDialog
<1>7. CASE b.ok = {}
  <2>1. batches' = batches \ {b}
    BY <1>7 DEF FinishBatch
  <2>2. QED
    BY <1>1, <1>2, <1>3, <1>4, <1>6, <1>7, <2>1 DEF Ended, Tells
<1>8. CASE b.ok # {}
  <2>1. PICK c : c = [b EXCEPT !.stage = "load"] /\ batches' = (batches \ {b}) \cup {c}
    BY <1>8 DEF FinishBatch, Goes
  <2>2. /\ c.n = b.n /\ c.of = b.of /\ c.vals = b.vals /\ c.todo = b.todo /\ c.now = b.now
        /\ c.sent = b.sent /\ c.ok = b.ok /\ c.bad = b.bad /\ c.stage = "load" /\ IsBatch(c)'
    BY <1>1, <2>1 DEF RunSound, IsBatch
  <2>3. RunSound(c)'
    BY <1>1, <1>2, <2>2 DEF RunSound, BatchSound
  <2>4. reads' # {}
    BY <1>8 DEF FinishBatch
  <2>5. QED
    BY <1>1, <1>2, <1>3, <1>4, <1>6, <2>1, <2>2, <2>3, <2>4 DEF Ended
<1>9. QED
  BY <1>7, <1>8

\* Nothing but the sheet's own steps touches a run that is not being loaded.
Left == /\ batches' \subseteq batches
        /\ \A b \in batches : b.stage # "load" => b \in batches'
        /\ SheetKept \/ UNCHANGED dialog

\* What a step makes of the runs.
LEMMA RunsChange ==
  ASSUME DeskInv, DeskNext
  PROVE  \/ Left /\ (Clicks \/ Answers \/ BoardLoads \/ Changes)
         \/ Started /\ SheetRuns
         \/ SheetRuns /\ UNCHANGED dialog /\ \E b \in batches : \E c : Forward(b, c)
         \/ \E b \in batches : HandleSend(b) /\ UNCHANGED dialog
         \/ SheetRuns /\ \E b \in batches : Ended(b)
<1>1. CASE Clicks
  BY <1>1, OthersKeepSheet DEF Left, Clicks, Press, OpenDialog, Submit, Undo, ToastGone, TypeNo,
              OtherNo, OpenSheet, CloseDialog
<1>2. CASE Answers
  BY <1>2, OthersKeepSheet DEF Left, Answers, Answer, Refused, Lost, Failing
<1>3. CASE BoardLoads
  BY <1>3, OthersKeepSheet DEF Left, BoardLoads, LiveRefetch, ReadFiles, ShowBoard,
                              LoadBoardFails, Loaded
<1>4. CASE Changes
  BY <1>4, OthersKeepSheet DEF Left, Changes, Other, HandleAction, HandleSend
<1>5. ASSUME NEW b \in batches, Check(b)
      PROVE  Ended(b) \/ (UNCHANGED dialog /\ \E c : Forward(b, c))
  BY <1>5, ClashEnds, ChecksForward DEF Check
<1>6. ASSUME NEW b \in batches, CheckFails(b) PROVE UNCHANGED dialog /\ \E c : Forward(b, c)
  BY <1>6, ChecksForward DEF CheckFails
<1>7. ASSUME NEW b \in batches, NEW f \in File, SendNext(b, f)
      PROVE  UNCHANGED dialog /\ \E c : Forward(b, c)
  BY <1>7, SendsForward DEF SendNext
<1>8. ASSUME NEW b \in batches, SendAnswered(b) PROVE UNCHANGED dialog /\ \E c : Forward(b, c)
  BY <1>8, AnsweredForward DEF SendAnswered
<1>9. ASSUME NEW b \in batches, SendLost(b) PROVE UNCHANGED dialog /\ \E c : Forward(b, c)
  BY <1>9, LostForward DEF SendLost
<1>10. CASE SheetRuns
  BY <1>5, <1>6, <1>7, <1>8, <1>9, <1>10, SheetStarts, FinishEnds DEF SheetRuns
<1>11. QED
  BY <1>1, <1>2, <1>3, <1>4, <1>10, DeskSteps

\* Every run stays sound.
LEMMA BatchRunsStep ==
  ASSUME DeskInv, DeskNext
  PROVE  \A c \in batches' : RunSound(c)'
<1>1. \A b \in batches : RunSound(b)'
  BY RunStays
<1>2. ASSUME NEW b \in batches, HandleSend(b) PROVE \A c \in batches' : RunSound(c)'
  BY <1>1, <1>2, HandledForward DEF Forward
<1>3. QED
  BY <1>1, <1>2, RunsChange DEF Left, Started, Forward, Ended

\* Of the runs of one sheet, one goes on at a time, and the sheet waits for it.
RunsWait ==
  /\ \A b, c \in batches : Runs(b) /\ Runs(c) => b = c
  /\ \A b \in batches : Runs(b) => /\ dialog.kind = "sheet" /\ dialog.busy
                                   /\ b.vals = dialog.vals

\* Every step leaves the sheet that is open waiting for its one run.
LEMMA RunsWaitStep ==
  ASSUME DeskInv, DeskNext
  PROVE  RunsWait'
<1>1. /\ RunsWait /\ IsDialog(dialog)
      /\ \A b \in batches : b.of <= taps /\ b.of > 0 /\ b.of \in Nat
      /\ taps \in Nat /\ (dialog.kind = "sheet" => dialog.n > 0)
  BY DEF DeskInv, DeskTypes, OneRun, RunsWait, IsBatch
<1>2. NoDialog.n = 0
  BY DEF NoDialog
<1>3. CASE Left
  <2>1. SUFFICES ASSUME NEW b \in batches', Runs(b)'
                 PROVE  /\ Runs(b) \/ b \notin batches
                        /\ dialog'.kind = "sheet" /\ dialog'.busy /\ b.vals = dialog'.vals
    BY <1>1, <1>3 DEF Left, RunsWait
  <2>2. b \in batches /\ b.stage # "load" /\ b.of = dialog'.n
    BY <1>3, <2>1 DEF Left, Runs
  <2>3. Same \/ JustOpened \/ dialog' = NoDialog
    BY DialogStep
  <2>4. dialog'.n = dialog.n
    BY <1>1, <1>2, <2>2, <2>3 DEF Same, JustOpened
  <2>5. Runs(b) /\ dialog.kind = "sheet" /\ dialog.busy /\ b.vals = dialog.vals
    BY <1>1, <2>2, <2>4 DEF Runs, RunsWait
  <2>6. dialog' = dialog
    BY <1>1, <1>2, <1>3, <2>2, <2>5 DEF Left, SheetKept
  <2>7. QED
    BY <2>5, <2>6
<1>4. CASE Started
  <2>1. PICK c : batches' = batches \cup {c} /\ c.of = dialog.n /\ c.vals = dialog.vals
    BY <1>4 DEF Started
  <2>2. /\ dialog'.kind = "sheet" /\ dialog'.busy = TRUE /\ dialog'.n = dialog.n
        /\ dialog'.vals = dialog.vals
    BY <1>1, <1>4 DEF Started, IsDialog
  <2>3. \A b \in batches : ~Runs(b) /\ ~Runs(b)'
    BY <1>1, <1>4, <2>2 DEF Started, RunsWait, Runs
  <2>4. QED
    BY <2>1, <2>2, <2>3 DEF RunsWait
<1>5. ASSUME NEW b \in batches, NEW c, Forward(b, c), UNCHANGED dialog PROVE RunsWait'
  <2>1. \A d \in batches : Runs(d)' <=> Runs(d)
    BY <1>5 DEF Runs
  <2>2. Runs(c)' => Runs(b)
    BY <1>5 DEF Runs, Forward
  <2>3. batches' = (batches \ {b}) \cup {c} /\ c.vals = b.vals
    BY <1>5 DEF Forward
  <2>4. QED
    BY <1>1, <1>5, <2>1, <2>2, <2>3 DEF RunsWait
<1>6. ASSUME NEW b \in batches, Ended(b) PROVE RunsWait'
  <2>1. \A c \in batches' : Runs(c)' => c \in batches \ {b}
    BY <1>6 DEF Ended, Runs
  <2>2. CASE dialog.n = b.of
    <3>1. Runs(b) /\ dialog'.n = dialog.n
      BY <1>6, <2>2 DEF Ended, Runs
    <3>2. \A c \in batches' : ~Runs(c)'
      BY <1>1, <2>1, <3>1 DEF RunsWait, Runs
    <3>3. QED
      BY <3>2 DEF RunsWait
  <2>3. CASE dialog.n # b.of
    BY <1>1, <1>6, <2>1, <2>3 DEF Ended, RunsWait, Runs
  <2>4. QED
    BY <2>2, <2>3
<1>7. QED
  BY <1>3, <1>4, <1>5, <1>6, RunsChange, HandledForward

\* No file that needs no number gets onto a sheet.
LEMMA NoneStraysStep ==
  ASSUME DeskInv, DeskNext
  PROVE  NoneStrays'
<1>1. NoneStrays /\ FilesKept
  BY FilesStep DEF DeskInv
<1>2. ASSUME NEW f \in File, placed'[f].status \in Numberless, dialog'.kind = "sheet"
      PROVE  f \notin dialog'.cards
  <2>1. placed[f].status \in Numberless
    BY <1>1, <1>2 DEF FilesKept
  <2>2. board[f].status \in Numberless /\ (dialog.kind = "sheet" => f \notin dialog.cards)
    BY <1>1, <2>1 DEF NoneStrays
  <2>3. dialog' # NoDialog
    BY <1>2 DEF NoDialog
  <2>4. QED
    BY <1>2, <2>2, <2>3, DialogStep DEF Same, JustOpened, BatchCards, Numberless
<1>3. QED
  BY <1>2, BoardStep, ReadsStep, BatchRunsStep DEF NoneStrays, ReadSound, RunSound

-----------------------------------------------------------------------------
(***************************************************************************)
(* What is to be told.                                                     *)
(***************************************************************************)
BoardKnown == board = placed \/ chip \/ behind \/ Telling

\* A click changes no file and tells no less.
LEMMA ClicksTold ==
  ASSUME DeskInv, Clicks
  PROVE  BoardKnown'
<1>1. UNCHANGED <<board, placed, chip, behind, batches, reads>>
  BY DEF Clicks, Press, OpenDialog, Submit, Undo, ToastGone, TypeNo, OtherNo, OpenSheet,
         CloseDialog, Stored, Shown
<1>2. actions \subseteq actions'
  BY ClicksAct DEF OthersPressed, Pressed
<1>3. QED
  BY <1>1, <1>2 DEF DeskInv, BoardToBeTold, BoardKnown, Telling

\* A failure that nothing follows leaves the board behind if the step was taken.
LEMMA AnswersTold ==
  ASSUME DeskInv, Answers
  PROVE  BoardKnown'
<1>1. BoardKnown
  BY DEF DeskInv, BoardToBeTold, BoardKnown
<1>2. ASSUME NEW a \in actions, Answer(a) PROVE reads' # {}
  BY <1>2 DEF Answer
<1>3. ASSUME NEW a \in actions, NEW late \in BOOLEAN, Failing(a, late) PROVE BoardKnown'
  <2>1. UNCHANGED <<placed, board, chip, batches>> /\ actions' = actions \ {a}
    BY <1>3 DEF Failing, Stored
  <2>2. a.by \in Buttons /\ (a.by \in StayOpen => a.do \in {"send", "skip"})
    BY DEF DeskInv, DeskTypes, IsAction, BoardToBeTold
  <2>3. CASE a.by \in LoadsAfterFailure /\ ~(late /\ a.do = "seize")
    <3>1. reads' # {}
      BY <1>3, <2>3 DEF Failing
    <3>2. QED
      BY <3>1 DEF BoardKnown, Telling
  <2>4. CASE ~(a.by \in LoadsAfterFailure /\ ~(late /\ a.do = "seize"))
    <3>1. /\ behind' = (behind \/ (a.stage = "ok" /\ a.do \in {"seize", "send", "skip"}))
          /\ UNCHANGED reads
      BY <1>3, <2>4 DEF Failing
    <3>2. a.do \in {"seize", "send", "skip"}
      BY <2>2, <2>4 DEF Buttons, LoadsAfterFailure, StayOpen
    <3>3. (behind => behind') /\ (a.stage = "ok" => behind')
      BY Zenon, <3>1, <3>2
    <3>4. QED
      BY <1>1, <2>1, <3>1, <3>3 DEF BoardKnown, Telling
  <2>5. QED
    BY <2>3, <2>4
<1>4. QED
  BY <1>2, <1>3 DEF Answers, Refused, Lost, BoardKnown, Telling

\* A load that is shown tells what it read, one that fails that it failed.
LEMMA LoadsTold ==
  ASSUME DeskInv, BoardLoads
  PROVE  BoardKnown'
<1>1. BoardKnown /\ \A r \in reads : r.stage = "read" => r.rows = placed \/ r.behind
  BY DEF DeskInv, BoardToBeTold, BoardKnown
<1>2. LiveRefetch => reads' # {}
  BY DEF LiveRefetch
<1>3. ASSUME NEW r \in reads, ReadFiles(r) PROVE reads' # {}
  BY <1>3 DEF ReadFiles
<1>4. ASSUME NEW r \in reads, ShowBoard(r) PROVE board' = placed' \/ behind'
  BY <1>1, <1>4 DEF ShowBoard, Loaded, Stored
<1>5. ASSUME NEW r \in reads, LoadBoardFails(r) PROVE chip' = TRUE
  BY <1>5 DEF LoadBoardFails
<1>6. QED
  BY <1>2, <1>3, <1>4, <1>5 DEF BoardLoads, BoardKnown, Telling

\* An outdated load is still on its way.
LEMMA OutdatedStay ==
  ASSUME Outdate, NEW r \in reads
  PROVE  reads' # {}
BY DEF Outdate

\* A file that changes is being told, or known to be behind.
LEMMA ChangesTold ==
  ASSUME DeskInv, DeskNext, Changes
  PROVE  BoardKnown'
<1>1. BoardKnown
  BY DEF DeskInv, BoardToBeTold, BoardKnown
<1>2. ASSUME NEW f \in File, NEW s \in Steps, Other(f, s) PROVE behind' = TRUE
  BY <1>2 DEF Other
<1>3. ASSUME NEW a \in actions, HandleAction(a) PROVE BoardKnown'
  <2>1. CASE Replaced(a, "ok")
    <3>1. PICK b : b = [a EXCEPT !.stage = "ok"] /\ b \in actions'
      BY <2>1 DEF Replaced
    <3>2. b.stage = "ok"
      BY <3>1, StagedSame
    <3>3. QED
      BY <3>1, <3>2 DEF BoardKnown, Telling
  <2>2. CASE UNCHANGED <<placed, reads>> /\ Replaced(a, "refused")
    <3>1. /\ actions \ {a} \subseteq actions' /\ a.stage = "asked"
          /\ UNCHANGED <<board, chip, behind, batches>>
      BY <1>3, <2>2 DEF HandleAction, Replaced, Shown
    <3>2. QED
      BY <1>1, <2>2, <3>1 DEF BoardKnown, Telling
  <2>3. QED
    BY <1>3, <2>1, <2>2 DEF HandleAction
<1>4. ASSUME NEW b \in batches, HandleSend(b) PROVE BoardKnown'
  <2>1. PICK c : /\ Forward(b, c)
                 /\ UNCHANGED placed \/ Tells(c)
    BY <1>4, HandledForward
  <2>2. /\ UNCHANGED <<board, chip, behind, actions>> /\ (Outdate \/ UNCHANGED reads)
        /\ batches' = (batches \ {b}) \cup {c}
    BY <1>4, <2>1 DEF HandleSend, InBatch, Shown, Forward
  <2>3. CASE Tells(c)
    BY <2>2, <2>3 DEF BoardKnown, Telling, Tells
  <2>4. CASE UNCHANGED placed
    BY <1>1, <2>1, <2>2, <2>4, OutdatedStay DEF BoardKnown, Telling, Forward, Tells
  <2>5. QED
    BY <2>1, <2>3, <2>4
<1>5. QED
  BY <1>2, <1>3, <1>4 DEF Changes, BoardKnown

\* A run tells what it wrote, unless the answer was lost.
LEMMA SheetTells ==
  ASSUME DeskInv, DeskNext, SheetRuns
  PROVE  BoardKnown'
<1>1. BoardKnown
  BY DEF DeskInv, BoardToBeTold, BoardKnown
<1>2. UNCHANGED <<placed, board, chip, actions>>
  BY DEF SheetRuns, SubmitSheet, Check, CheckFails, SendNext, SendAnswered, SendLost, FinishBatch,
         InBatch, Shown, Stored
<1>3. behind => behind'
  <2>1. ASSUME NEW b \in batches, SendLost(b) PROVE behind => behind'
    <3>1. behind' = (behind \/ b.sent = "ok")
      BY <2>1 DEF SendLost
    <3>2. QED
      BY Zenon, <3>1
  <2>2. UNCHANGED behind \/ \E b \in batches : SendLost(b)
    BY DEF SheetRuns, SubmitSheet, Check, CheckFails, SendNext, SendAnswered, FinishBatch,
           InBatch, Shown
  <2>3. QED
    BY <2>1, <2>2
<1>4. reads \subseteq reads'
  BY DEF SheetRuns, SubmitSheet, Check, CheckFails, SendNext, SendAnswered, SendLost, FinishBatch
<1>5. ASSUME NEW b \in batches, NEW c, Forward(b, c) PROVE BoardKnown'
  BY <1>1, <1>2, <1>3, <1>4, <1>5 DEF BoardKnown, Telling, Forward, Tells
<1>6. ASSUME NEW b \in batches, Ended(b) PROVE BoardKnown'
  BY <1>1, <1>2, <1>3, <1>4, <1>6 DEF BoardKnown, Telling, Ended, Tells
<1>7. CASE batches \subseteq batches'
  BY <1>1, <1>2, <1>3, <1>4, <1>7 DEF BoardKnown, Telling
<1>8. CASE Left
  <2>1. \A b \in batches : Tells(b) => b \in batches'
    BY <1>8 DEF Left, Tells
  <2>2. QED
    BY <1>1, <1>2, <1>3, <1>4, <2>1 DEF BoardKnown, Telling, Tells
<1>9. QED
  BY <1>5, <1>6, <1>7, <1>8, RunsChange, HandledForward DEF Started

\* Every step leaves the board told, or to be told.
LEMMA BoardKnownStep ==
  ASSUME DeskInv, DeskNext
  PROVE  BoardKnown'
BY DeskSteps, ClicksTold, AnswersTold, LoadsTold, ChangesTold, SheetTells

-----------------------------------------------------------------------------
(***************************************************************************)
(* What left the sheet is written.                                         *)
(***************************************************************************)
\* Only the sheet itself writes a number under its name.
LEMMA SheetWrites ==
  ASSUME DeskInv, DeskNext, NEW f \in File, placed'[f].no # Nobody, placed'[f].of = dialog.n,
         dialog.kind = "sheet"
  PROVE  \/ placed[f].no # Nobody /\ placed[f].of = dialog.n
         \/ \E b \in batches : \E c : HandleSend(b) /\ Forward(b, c) /\ Runs(b) /\ Leaving(c, f)
<1>1. CASE UNCHANGED placed
  BY <1>1
<1>2. ASSUME NEW g \in File, NEW s \in Steps, Other(g, s)
      PROVE  placed[f].no # Nobody /\ placed[f].of = dialog.n
  BY <1>2, OtherMoves, MovedKeeps
<1>3. ASSUME NEW a \in actions, HandleAction(a), ~UNCHANGED placed
      PROVE  placed[f].no # Nobody /\ placed[f].of = dialog.n
  <2>1. PICK row \in EffectsOf(a) : placed' = [placed EXCEPT ![a.card] = row]
    BY <1>3 DEF HandleAction
  <2>2. OneMoved(a.card, row) /\ a.card \in File /\ WrittenBy(a.card, row, a.do, a.no, a.of)
    BY <2>1, HandledMoves DEF OneMoved
  <2>3. placed'[a.card] = row /\ \A g \in File : g # a.card => placed'[g] = placed[g]
    BY <2>2, MovedKeeps
  <2>4. a.do \in {"send", "skip"} => a.of # dialog.n
    BY DEF DeskInv, OneRun
  <2>5. QED
    BY <2>2, <2>3, <2>4 DEF WrittenBy
<1>4. ASSUME NEW b \in batches, HandleSend(b), ~UNCHANGED placed
      PROVE  \/ placed[f].no # Nobody /\ placed[f].of = dialog.n
             \/ \E c : Forward(b, c) /\ Runs(b) /\ Leaving(c, f)
  <2>1. PICK c, row : /\ Forward(b, c) /\ OneMoved(b.now, row) /\ row.of = b.of
                      /\ Leaving(c, b.now)
    BY <1>4, HandledForward
  <2>2. b.now \in File /\ b.stage = "send"
    BY <1>4, RunStays, SendingIs DEF HandleSend
  <2>3. placed'[b.now] = row /\ \A g \in File : g # b.now => placed'[g] = placed[g]
    BY <2>1, <2>2, MovedKeeps
  <2>4. QED
    BY <2>1, <2>2, <2>3 DEF Runs
<1>5. QED
  BY <1>1, <1>2, <1>3, <1>4, DeskSteps, OnlyChangesMove DEF Changes

\* A row that is being answered is answered by its own run.
LEMMA AnsweringStays ==
  ASSUME DeskInv, DeskNext, NEW f \in File, Answering(f), dialog'.n = dialog.n,
         \A b \in batches : ~(Ended(b) /\ Runs(b))
  PROVE  drops' > 0 \/ Answering(f)'
<1>1. PICK b \in batches : Runs(b) /\ Leaving(b, f)
  BY DEF Answering, Leaving
<1>2. b.stage = "send"
  BY <1>1 DEF Leaving
<1>3. CASE b \in batches'
  BY <1>1, <1>3 DEF Runs, Answering, Leaving
<1>4. ASSUME NEW d \in batches, NEW c, Forward(d, c) PROVE drops' > 0 \/ Answering(f)'
  <2>1. CASE d # b
    BY <1>3, <1>4, <2>1 DEF Forward
  <2>2. CASE d = b
    <3>1. c \in batches' /\ c.of = b.of /\ (Leaving(c, f) \/ drops' > 0)
      BY <1>1, <1>4, <2>2 DEF Forward
    <3>2. QED
      BY <1>1, <3>1 DEF Answering, Leaving, Runs
  <2>3. QED
    BY <2>1, <2>2
<1>5. ASSUME NEW d \in batches, Ended(d) PROVE b \in batches'
  <2>1. d # b
    BY <1>1, <1>5
  <2>2. QED
    BY <1>5, <2>1 DEF Ended
<1>6. QED
  BY <1>2, <1>3, <1>4, <1>5, RunsChange, HandledForward DEF Left, Started

\* The same sheet, with rows that were written gone from it.
Grown ==
  /\ dialog.kind = "sheet" /\ dialog'.kind = "sheet" /\ dialog'.n = dialog.n
  /\ dialog'.cards = dialog.cards /\ dialog.done \subseteq dialog'.done
  /\ \A f \in dialog.done : dialog'.vals[f] = dialog.vals[f]
  /\ \A f \in dialog'.done \ dialog.done : dialog'.vals[f] # Nobody /\ placed'[f].no = dialog'.vals[f]
  /\ \A f \in dialog'.cards \ dialog'.done : Answering(f) => drops' > 0 \/ Answering(f)'

\* So the rows that leave are those that were written.
LEMMA GrownLeaves ==
  ASSUME DeskInv, DeskNext, Grown
  PROVE  RowsLeave'
<1>1. /\ RowsLeave /\ FilesKept /\ drops \in Nat /\ drops' \in Nat /\ drops <= drops'
      /\ IsDialog(dialog) /\ IsDialog(dialog')
  BY FilesStep, TapsGrow, DialogStep DEF DeskInv, DeskTypes
<1>2. ASSUME NEW f \in dialog'.done
      PROVE  dialog'.vals[f] # Nobody /\ placed'[f].no = dialog'.vals[f]
  <2>1. CASE f \notin dialog.done
    BY <1>2, <2>1 DEF Grown
  <2>2. CASE f \in dialog.done
    <3>1. f \in File /\ dialog.vals[f] # Nobody /\ placed[f].no = dialog.vals[f]
      BY <1>1, <2>2 DEF Grown, RowsLeave, IsDialog
    <3>2. QED
      BY <1>1, <2>2, <3>1 DEF Grown, FilesKept
  <2>3. QED
    BY <2>1, <2>2
<1>3. ASSUME NEW f \in dialog'.cards \ dialog'.done, placed'[f].no # Nobody,
             placed'[f].of = dialog'.n
      PROVE  drops' > 0 \/ Answering(f)'
  <2>1. f \in File /\ f \in dialog.cards \ dialog.done /\ placed'[f].of = dialog.n
        /\ dialog.kind = "sheet"
    BY <1>1, <1>3 DEF Grown, IsDialog
  <2>2. CASE placed[f].no # Nobody /\ placed[f].of = dialog.n
    <3>1. drops > 0 \/ Answering(f)
      BY <1>1, <2>1, <2>2 DEF RowsLeave
    <3>2. QED
      BY <1>1, <1>3, <3>1 DEF Grown
  <2>3. ASSUME NEW b \in batches, NEW c, Forward(b, c), Runs(b), Leaving(c, f)
        PROVE  Answering(f)'
    <3>1. c \in batches' /\ c.of = dialog'.n /\ c.stage = "send"
      BY <2>3 DEF Forward, Runs, Leaving, Grown
    <3>2. QED
      BY <2>3, <3>1 DEF Answering, Runs, Leaving
  <2>4. QED
    BY <1>3, <2>1, <2>2, <2>3, SheetWrites
<1>4. QED
  BY <1>2, <1>3 DEF RowsLeave

\* Every step leaves on the sheet what is not known to be written.
LEMMA RowsLeaveStep ==
  ASSUME DeskInv, DeskNext
  PROVE  RowsLeave'
<1>0. /\ IsDialog(dialog) /\ IsDialog(dialog') /\ RunsWait /\ BatchesSound
      /\ taps \in Nat /\ \A f \in File : placed[f].of <= taps /\ placed[f].of \in Nat
  BY DialogStep DEF DeskInv, DeskTypes, OneRun, RunsWait, FileRow
<1>1. CASE dialog'.kind # "sheet"
  BY <1>1 DEF RowsLeave
<1>2. CASE JustOpened /\ Clicks
  <2>1. UNCHANGED placed
    BY <1>2, OnlyChangesMove
  <2>2. dialog'.done = {} /\ dialog'.n = taps + 1
    BY <1>2 DEF JustOpened
  <2>3. dialog'.cards \in SUBSET File
    BY <1>0 DEF IsDialog
  <2>4. QED
    BY <1>0, <2>1, <2>2, <2>3 DEF RowsLeave
<1>3. SUFFICES ASSUME dialog'.kind = "sheet", Same PROVE RowsLeave'
  <2>1. dialog' # NoDialog \/ dialog'.kind # "sheet"
    BY DEF NoDialog
  <2>2. QED
    BY <1>1, <1>2, <1>3, <2>1, DeskSteps, DialogOfClicks, DialogOfOthers DEF NoDialog
<1>4. dialog.kind = "sheet" /\ dialog'.n = dialog.n /\ dialog'.cards = dialog.cards
  BY <1>3 DEF Same
<1>5. ASSUME \A b \in batches : ~(Ended(b) /\ Runs(b)), NEW f \in dialog'.cards, Answering(f)
      PROVE  drops' > 0 \/ Answering(f)'
  <2>1. f \in File
    BY <1>0, <1>5 DEF IsDialog
  <2>2. QED
    BY <1>4, <1>5, <2>1, AnsweringStays
<1>6. CASE \E b \in batches : Ended(b) /\ Runs(b)
  <2>1. PICK b \in batches : Ended(b) /\ Runs(b)
    BY <1>6
  <2>2. b.vals = dialog.vals /\ b.of = dialog.n /\ BatchSound(b) /\ IsBatch(b)
    BY <1>0, <2>1 DEF RunsWait, Runs, BatchesSound, DeskInv, DeskTypes
  <2>3. dialog'.vals = dialog.vals /\ dialog'.done = dialog.done \cup b.ok
    BY <2>1, <2>2 DEF Ended
  <2>4. FilesKept
    BY FilesStep
  <2>5. \A f \in b.ok : dialog'.vals[f] # Nobody /\ placed'[f].no = dialog'.vals[f]
    BY <2>2, <2>3, <2>4 DEF BatchSound, IsBatch, FilesKept
  <2>6. \A f \in dialog'.cards \ dialog'.done : ~Answering(f)
    <3>1. SUFFICES ASSUME NEW f, f \notin b.ok PROVE ~Answering(f)
      BY <2>3
    <3>2. b.now = Nobody /\ b.sent = "no"
      BY <2>1 DEF Ended
    <3>3. QED
      BY <1>0, <2>1, <3>1, <3>2 DEF Answering, RunsWait
  <2>7. Grown
    BY <1>3, <1>4, <2>3, <2>5, <2>6 DEF Grown
  <2>8. QED
    BY <2>7, GrownLeaves
<1>7. CASE ~\E b \in batches : Ended(b) /\ Runs(b)
  <2>1. dialog'.done = dialog.done /\ \A f \in dialog.done : dialog'.vals[f] = dialog.vals[f]
    <3>1. CASE UNCHANGED dialog
      BY <3>1
    <3>2. CASE SheetKept
      <4>1. dialog' # NoDialog
        BY <1>3 DEF NoDialog
      <4>2. QED
        BY <1>4, <3>2, <4>1 DEF SheetKept
    <3>3. CASE Started
      BY <1>0, <3>3 DEF Started, IsDialog
    <3>4. ASSUME NEW b \in batches, Ended(b) PROVE UNCHANGED dialog
      BY <1>7, <3>4 DEF Ended, Runs
    <3>5. QED
      BY <3>1, <3>2, <3>3, <3>4, RunsChange DEF Left
  <2>2. Grown
    BY <1>3, <1>4, <1>5, <1>7, <2>1 DEF Grown
  <2>3. QED
    BY <2>2, GrownLeaves
<1>8. QED
  BY <1>6, <1>7

-----------------------------------------------------------------------------
(***************************************************************************)
(* The theorem.                                                            *)
(***************************************************************************)
LEMMA DeskTypesStep ==
  ASSUME DeskInv, DeskNext
  PROVE  DeskTypes'
BY TapsGrow, FilesStep, BoardStep, DialogStep, ActionsStep, ReadsStep, BatchRunsStep
   DEF DeskTypes, ActionSound, ReadSound, RunSound

\* Every step keeps the invariant of the desk.
LEMMA DeskInvStep ==
  ASSUME DeskInv, [DeskNext]_deskVars
  PROVE  DeskInv'
<1>1. CASE DeskNext
  <2>1. DeskTypes'
    BY <1>1, DeskTypesStep
  <2>2. OneUnderWay'
    BY <1>1, OneUnderWayStep
  <2>3. BoardToBeTold'
    BY <1>1, BoardKnownStep, ReadsStep, ActionsStep DEF BoardKnown, BoardToBeTold, ReadSound, ActionSound
  <2>4. NoneStrays'
    BY <1>1, NoneStraysStep
  <2>5. NumbersStay'
    BY <1>1, FilesStep
  <2>6. BatchesSound'
    BY <1>1, BatchRunsStep DEF BatchesSound, RunSound
  <2>7. OneRun'
    BY <1>1, RunsWaitStep, ActionsStep DEF OneRun, RunsWait, ActionSound
  <2>8. RowsLeave'
    BY <1>1, RowsLeaveStep
  <2>9. QED
    BY <2>1, <2>2, <2>3, <2>4, <2>5, <2>6, <2>7, <2>8 DEF DeskInv
<1>2. CASE UNCHANGED deskVars
  <2>1. /\ placed' = placed /\ board' = board /\ behind' = behind /\ chip' = chip /\ dialog' = dialog
        /\ inFlight' = inFlight /\ actions' = actions /\ batches' = batches /\ reads' = reads
        /\ taps' = taps /\ drops' = drops
    BY <1>2 DEF deskVars
  <2>2. DeskTypes' /\ OneUnderWay'
    BY <2>1 DEF DeskInv, DeskTypes, OneUnderWay
  <2>3. BoardToBeTold' /\ NoneStrays' /\ NumbersStay'
    BY <2>1 DEF DeskInv, BoardToBeTold, Telling, NoneStrays, NumbersStay
  <2>4. BatchesSound' /\ OneRun'
    BY <2>1 DEF DeskInv, BatchesSound, BatchSound, OneRun, Runs
  <2>5. RowsLeave'
    BY <2>1 DEF DeskInv, RowsLeave, Answering, Runs
  <2>6. QED
    BY <2>2, <2>3, <2>4, <2>5 DEF DeskInv
<1>3. QED
  BY <1>1, <1>2

\* At most one of the buttons' POSTs, or of the fetched after them.
LEMMA OneWayCounts ==
  ASSUME DeskInv
  PROVE  OneAtATime
<1> SUFFICES ASSUME NEW f \in File
             PROVE  Cardinality({a \in actions : a.card = f /\ a.by \in {"button", "undoable"}})
                      + Cardinality({r \in reads : r.clears = f}) <= 1
  BY DEF OneAtATime
<1> DEFINE pressed == {a \in actions : a.card = f /\ a.by \in {"button", "undoable"}}
           fetched == {r \in reads : r.clears = f}
<1>1. /\ \A a, b \in pressed : a = b
      /\ \A q, r \in fetched : q = r
      /\ \A a \in pressed, r \in fetched : FALSE
  BY DEF DeskInv, OneUnderWay, OfButton
<1> HIDE DEF pressed, fetched
<1>2. pressed # {} => Cardinality(pressed) = 1
  <2>1. pressed # {} => \E a : pressed = {a}
    BY <1>1
  <2>2. QED
    BY Zenon, <2>1, FS_Singleton
<1>3. fetched # {} => Cardinality(fetched) = 1
  <2>1. fetched # {} => \E r : fetched = {r}
    BY <1>1
  <2>2. QED
    BY Zenon, <2>1, FS_Singleton
<1>4. Cardinality({}) = 0
  BY Zenon, FS_EmptySet
<1>5. Cardinality(pressed) + Cardinality(fetched) <= 1
  BY <1>1, <1>2, <1>3, <1>4
<1>6. QED
  BY <1>5 DEF pressed, fetched

\* The invariant is stronger than what is said of the desk.
LEMMA DeskInvSound == DeskInv => DeskSound
<1> SUFFICES ASSUME DeskInv PROVE DeskSound
  OBVIOUS
<1>1. BoardTold
  BY DEF DeskInv, BoardToBeTold, Telling, BoardTold
<1>2. SheetTold
  <2>1. SUFFICES ASSUME dialog.kind = "sheet", ~dialog.busy PROVE SheetTold
    BY DEF SheetTold
  <2>2. \A f : ~Answering(f)
    BY <2>1 DEF Answering, DeskInv, OneRun
  <2>3. QED
    BY <2>1, <2>2 DEF SheetTold, Filled, Listed, DeskInv, RowsLeave
<1>3. QED
  BY <1>1, <1>2, OneWayCounts DEF DeskSound
=============================================================================
