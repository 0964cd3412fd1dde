-------------------------------- MODULE Bulk --------------------------------
(***************************************************************************)
(* Bulk actions on one user's board: cards are ticked on a board that may  *)
(* be out of date, an action common to all of them is confirmed, and its   *)
(* calls to the server run while other users go on.  Of each call every    *)
(* ticket is handled on its own, and the call as a whole may be lost.      *)
(***************************************************************************)
EXTENDS BoardRules, FiniteSets

CONSTANTS Card,      \* tickets on the board
          MaxMoves   \* bound: steps of other users, and calls lost

ASSUME BulkAssumption == MaxMoves \in Nat

VARIABLES desk,    \* the role the user acts in
          stands,  \* stands[c]: flow, status and flag in the database
          shown,   \* the same, as the board loaded them last
          ticks,   \* sel: ticked cards
          asked,   \* the open dialog: cards, event and "complete at once"; or NoAsk
          running, \* the confirmed one whose batch runs; or NoAsk
          posts,   \* calls of the running batch
          settled, \* results of the first calls, once a second is made: card |-> ok
          report,  \* the tally the last toast was made of
          moved,   \* cards that the last call they were in has moved
          moves

bulkVars == <<desk, stands, shown, ticks, asked, running, posts, settled, report,
              moved, moves>>

NoAsk == [cards |-> {}, event |-> "none", chain |-> FALSE]
NoResults == [c \in {} |-> FALSE]
NoReport == [over |-> {}, results |-> NoResults, moved |-> {}, lost |-> {}]

Start == {[flow |-> "General", status |-> "SubmittedToVpAndy", flag |-> FALSE],
          [flow |-> "Contract", status |-> "SubmittedToVpAndy", flag |-> FALSE],
          [flow |-> "Payment", status |-> "SubmittedToVpAndy", flag |-> FALSE],
          [flow |-> "Contract", status |-> "SubmittedToBop", flag |-> FALSE],
          [flow |-> "Contract", status |-> "SubmittedToDcc2Hardcopy", flag |-> FALSE]}

BulkInit == /\ desk \in {"DCC1", "DCC2"}
            /\ stands \in [Card -> Start]
            /\ shown = stands
            /\ ticks = {} /\ asked = NoAsk /\ running = NoAsk /\ posts = {}
            /\ settled = NoResults /\ report = NoReport /\ moved = {} /\ moves = 0

-----------------------------------------------------------------------------
(***************************************************************************)
(* The board.                                                              *)
(***************************************************************************)
OnBoard(c) == /\ shown[c].flow \in RoleFlows(desk)
              /\ shown[c].status \in StationsForRole(desk)
              /\ InLane(shown[c], shown[c].status)
Offers == [status \in Status |-> [role \in Desk |->
             [flow \in Flow |-> ActionsFor(status, role, flow)]]]
ActionsOf(c) == IF OnBoard(c) THEN Offers[shown[c].status][desk][shown[c].flow] ELSE {}

\* reasonRequired, and what is not an event of its own or needs a number each.
NeverBulk == {"sendBack", "reopen", "submitToBop", "andyRequireBop",
              "__confirm", "sendToAccounting"}
Bulkable(c) == ActionsOf(c) \ NeverBulk

HandoverEvents == {"handoverToDcc2", "handoverToDcc3"}
BulkKey(event) == IF event \in HandoverEvents THEN "__handover-dcc" ELSE event

\* An action legal for every card; the two handovers count as one.
CommonBulkActions(cards) ==
  LET keys == {{BulkKey(e) : e \in Bulkable(c)} : c \in cards}
  IN  {k \in UNION keys : \A ks \in keys : k \in ks}

\* Fault: one "select all" for every column.
OneGroup(cards) == {cards}

\* One "select all" where all cards share an action; else General, and the rest.
BulkSelectGroups(cards) ==
  LET general == {c \in cards : shown[c].flow = "General"}
  IN  IF CommonBulkActions(cards) # {} \/ general \in {{}, cards}
        THEN {cards} ELSE {general, cards \ general}

Selectable(status) == {c \in Card : shown[c].status = status /\ Bulkable(c) # {}}

Groups == UNION {BulkSelectGroups(Selectable(s)) :
                   s \in {r \in StationsForRole(desk) : Selectable(r) # {}}}

Selected == {c \in ticks : OnBoard(c)}
CanChainComplete == \E c \in Selected : shown[c].status = "SubmittedToDcc2Hardcopy"

-----------------------------------------------------------------------------
Server == <<stands, moved, moves>>
Batch == <<running, posts, settled, report>>

\* A live refetch, or the load after an action: ticks and dialog stay.
LoadBoard == /\ shown # stands
             /\ shown' = stands
             /\ UNCHANGED <<desk, ticks, asked, Batch, Server>>

ToggleSel(c) == /\ asked = NoAsk
                /\ Bulkable(c) # {}
                /\ ticks' = IF c \in ticks THEN ticks \ {c} ELSE ticks \cup {c}
                /\ UNCHANGED <<desk, shown, asked, Batch, Server>>

ToggleAll(group) == /\ asked = NoAsk
                    /\ ticks' = IF group \subseteq ticks THEN ticks \ group
                                ELSE ticks \cup group
                    /\ UNCHANGED <<desk, shown, asked, Batch, Server>>

\* The bar is there once a card is ticked; "complete at once" belongs to one action,
\* and a tick of it that is left over from another selection does nothing.
OnBar(event, chain) == /\ event \in CommonBulkActions(Selected)
                       /\ chain => event = "confirmReceivedByDcc2" /\ CanChainComplete

ClearSel == /\ asked = NoAsk /\ Selected # {}
            /\ ticks' = {}
            /\ UNCHANGED <<desk, shown, asked, Batch, Server>>

\* The dialog keeps the cards and the action of the moment it was opened.
DoBatch(event, chain) ==
  /\ asked = NoAsk
  /\ OnBar(event, chain)
  /\ asked' = [cards |-> Selected, event |-> event, chain |-> chain]
  /\ UNCHANGED <<desk, shown, ticks, Batch, Server>>

Cancel == /\ asked # NoAsk
          /\ asked' = NoAsk
          /\ UNCHANGED <<desk, shown, ticks, Batch, Server>>

Post(event, cards) == [event |-> event, cards |-> cards, todo |-> cards,
                       ok |-> {}, hard |-> {}, lost |-> FALSE]

\* The card offers one of the two handovers, by its flow.
HandoverEventOf(c) == IF stands[c].flow = "Payment" THEN "handoverToDcc3" ELSE "handoverToDcc2"

BatchByHandover(cards) ==
  {Post(e, {c \in cards : HandoverEventOf(c) = e}) : e \in {HandoverEventOf(c) : c \in cards}}

\* The dialog closes before its batch runs.
RunBatch == /\ asked # NoAsk /\ running = NoAsk
            /\ running' = asked /\ asked' = NoAsk /\ report' = NoReport
            /\ moved' = {}
            /\ posts' = IF asked.event = "__handover-dcc" THEN BatchByHandover(asked.cards)
                        ELSE {Post(asked.event, asked.cards)}
            /\ UNCHANGED <<desk, shown, ticks, settled, stands, moves>>

Target(row, event, role) ==
  {e.to : e \in {x \in FindEdge(row.status, event, row.flow) :
                   x.owner = role /\ Takes(row, event, role)}}

\* One of the workers takes the next ticket; what it throws is that ticket's.
Work(p, c) ==
  LET to == Target(stands[c], p.event, desk)
  IN  /\ c \in p.todo
      /\ posts' = (posts \ {p}) \cup
           {[p EXCEPT !.todo = @ \ {c}, !.ok = IF to = {} THEN @ ELSE @ \cup {c},
                      !.hard = IF to = {"Hardcopy"} THEN @ \cup {c} ELSE @]}
      /\ stands' = IF to = {} THEN stands
                   ELSE [stands EXCEPT ![c].status = CHOOSE s \in to : TRUE]
      /\ moved' = IF to = {} THEN moved ELSE moved \cup {c}
      /\ UNCHANGED <<desk, shown, ticks, asked, running, settled, report, moves>>

\* The transport fails, before the server has the call or after.
Lose(p) == /\ ~p.lost
           /\ moves < MaxMoves
           /\ moves' = moves + 1
           /\ \/ posts' = (posts \ {p}) \cup {[p EXCEPT !.lost = TRUE]}
              \/ /\ p.todo = p.cards
                 /\ posts' = (posts \ {p}) \cup {[p EXCEPT !.lost = TRUE, !.todo = {}]}
           /\ UNCHANGED <<desk, shown, ticks, asked, running, settled, report, stands, moved>>

Settled(p) == p.lost \/ p.todo = {}
ResultsOf(p) == [c \in p.cards |-> ~p.lost /\ c \in p.ok]
ResultsOfAll == [c \in UNION {p.cards : p \in posts} |->
                   \E p \in posts : c \in p.cards /\ ResultsOf(p)[c]]

\* The tickets whose confirmation has answered Hardcopy.
Completable == UNION {p.hard : p \in {q \in posts : ~q.lost}}
Throws == running.event # "__handover-dcc" /\ \E p \in posts : p.lost

Over(old, new) == [c \in DOMAIN old \cup DOMAIN new |->
                     IF c \in DOMAIN new THEN new[c] ELSE old[c]]

\* "Complete at once": a second call for those the first has confirmed.
ChainComplete ==
  /\ posts # {} /\ \A p \in posts : Settled(p) /\ ~p.lost
  /\ running.chain /\ settled = NoResults /\ Completable # {}
  /\ settled' = ResultsOfAll
  /\ posts' = {Post("completeContract", Completable)}
  /\ moved' = moved \ Completable
  /\ UNCHANGED <<desk, shown, ticks, asked, running, report, stands, moves>>

Close == running' = NoAsk /\ posts' = {} /\ settled' = NoResults

\* The calls have all settled, and a second is not to be made: the tally of the
\* results, the ticks are dropped and the board is loaded.
Tally(results) ==
  /\ posts # {} /\ \A p \in posts : Settled(p)
  /\ ~Throws
  /\ running.chain => settled # NoResults \/ Completable = {}
  /\ report' = [over |-> running.cards, results |-> results, moved |-> moved,
                lost |-> UNION {p.cards : p \in {q \in posts : q.lost}}]
  /\ ticks' = {} /\ shown' = stands
  /\ Close
  /\ UNCHANGED <<desk, asked, Server>>

\* Fault: one lost call, and the batch counts as failed.
FinishAll == Tally([c \in running.cards |-> /\ \A p \in posts : ~p.lost
                                            /\ Over(settled, ResultsOfAll)[c]])

\* From each call's own results.
Finish == Tally(Over(settled, ResultsOfAll))

\* The call of another action, or the second of a chain, was lost: an error, and
\* the board is loaded.  What the server still does of it is Elsewhere's.
Fail == /\ posts # {} /\ Throws
        /\ shown' = stands
        /\ Close
        /\ UNCHANGED <<desk, ticks, asked, report, Server>>

\* Another user moves a ticket, or a receiver reports its paper missing.
Elsewhere(c) ==
  /\ moves < MaxMoves
  /\ moves' = moves + 1
  /\ \/ \E e \in {x \in Edges : x.from = stands[c].status /\ x.owner \in Desk} :
          \E to \in Target(stands[c], e.event, e.owner) :
            stands' = [stands EXCEPT ![c].status = to]
     \/ /\ stands[c].status \in HandoverStates
        /\ stands' = [stands EXCEPT ![c].flag = ~@]
  /\ UNCHANGED <<desk, shown, ticks, asked, Batch, moved>>

BulkNext ==
  \/ LoadBoard \/ ClearSel \/ Cancel \/ RunBatch \/ ChainComplete \/ Finish \/ Fail
  \/ \E c \in Card : ToggleSel(c) \/ Elsewhere(c)
  \/ \E g \in Groups : ToggleAll(g)
  \/ \E event \in CommonBulkActions(Selected), chain \in BOOLEAN : DoBatch(event, chain)
  \/ \E p \in posts : Lose(p) \/ \E c \in p.cards : Work(p, c)

BulkSpec == BulkInit /\ [][BulkNext]_bulkVars
-----------------------------------------------------------------------------
\* Every "select all" leads somewhere: its cards share a bulk action ("so each
\* selection stays actionable"), whatever mix of tickets a column holds.
SelectAllActs == \A g \in Groups : CommonBulkActions(g) # {}

\* The toast tells the truth: its tally is over exactly the cards of the dialog,
\* none is counted as done unless the call moved it, and one that is counted as
\* failed although it moved was in a call whose answer was lost ("never discard a
\* group that already applied and tell the user the whole batch failed").
TallyHonest ==
  /\ DOMAIN report.results = report.over
  /\ \A c \in report.over :
       IF report.results[c] THEN c \in report.moved
       ELSE c \in report.moved => c \in report.lost

\* What the bulk bar offers can be done, and what it reports was done.
BulkSound == SelectAllActs /\ TallyHonest
=============================================================================
