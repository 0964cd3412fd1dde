------------------------------ MODULE Options ------------------------------
(***************************************************************************)
(* The administrator's page of lists: AdminOptions, one table for the kind *)
(* of the tab, and AdminDocTypes in its place under the first tab.  Calls  *)
(* run on while the administrator goes on clicking, and answers overtake   *)
(* each other; what a call does after its answer belongs to the tab it was *)
(* made under.                                                             *)
(***************************************************************************)
EXTENDS Naturals, FiniteSets

CONSTANTS Item,       \* rows of option_item that are or may come to be
          FirstTypes, FirstTeams, FirstCurrencies, \* those that are there at first
          Label,      \* texts typed
          MaxClicks, MaxStrange, MaxSnags \* bounds: clicks, others' changes, losses

ASSUME OptionsAssumption ==
  /\ {MaxClicks, MaxStrange, MaxSnags} \subseteq Nat
  /\ "none" \notin Item

VARIABLES item,     \* option_item: kind, value, active, cap
          tab,      \* kind
          table,    \* rows, of a kind, and how they came
          groups,   \* the same, of AdminDocTypes
          editing,  \* editId
          errors,   \* pages that show their error
          requests,    \* requests, under the name of their click
          clicks, strange, snags

optionsVars == <<item, tab, table, groups, editing, errors, requests, clicks, strange, snags>>
Page == <<tab, table, groups, editing, errors>>

Kinds == {"documentType", "projectTeam", "currency"}
NoItem == [kind |-> "none", value |-> "none", active |-> FALSE, cap |-> FALSE]
\* An id is not given again.
Deleted == [NoItem EXCEPT !.value = "deleted"]
There(i) == item[i].kind # "none"
Seeded(kind, v) == [kind |-> kind, value |-> v, active |-> TRUE, cap |-> FALSE]
RowsOf(kind) == [i \in {j \in Item : item[j].kind = kind} |-> item[i]]

\* of: the kind of the rows; behind: the list changed since it was read; late: it
\* was asked for under a tab that was left since.
NoRows == [of |-> "none", rows |-> <<>>, behind |-> FALSE, late |-> FALSE]

PageOf(kind) == IF kind = "documentType" THEN "docs" ELSE "options"

\* A request of the page of a kind; AdminDocTypes is gone once its tab is left.
Request(do, kind, i, v, on) ==
  [do |-> do, kind |-> kind, item |-> i, value |-> v, on |-> on, stage |-> "asked",
   gone |-> FALSE, answer |-> NoRows, n |-> clicks]
Lists(kind) == Request("list", kind, "none", "none", FALSE)

OptionsInit ==
  /\ item = [i \in Item |-> CASE i \in FirstTypes -> Seeded("documentType", i)
                              [] i \in FirstTeams -> Seeded("projectTeam", i)
                              [] i \in FirstCurrencies -> Seeded("currency", i)
                              [] OTHER -> NoItem]
  /\ tab = "documentType"
  /\ table = NoRows /\ groups = NoRows
  /\ editing = "none" /\ errors = {}
  /\ clicks = 0 /\ strange = 0 /\ snags = 0
  /\ requests = {Lists("documentType")}

Click == clicks < MaxClicks /\ clicks' = clicks + 1 /\ UNCHANGED <<strange, snags>>
Quietly == UNCHANGED <<clicks, strange, snags>>
-----------------------------------------------------------------------------
\* A click on a tab; under the first one there is no table, and no AdminDocTypes
\* under the others.  The rows of the tab before stay until the answer comes.
setKind(kind) ==
  /\ kind # tab /\ Click
  /\ tab' = kind /\ editing' = "none" /\ errors' = {}
  /\ table' = IF kind = "documentType" THEN NoRows ELSE table
  /\ groups' = NoRows
  /\ requests' = {[c EXCEPT !.gone = @ \/ PageOf(c.kind) = "docs"] : c \in requests}
                 \cup {Lists(kind)}
  /\ UNCHANGED item

\* The rows on the screen, of which one is clicked.
OnScreen == IF tab = "documentType" THEN groups ELSE IF "options" \in errors THEN NoRows ELSE table
Asks(c) == /\ Click /\ requests' = requests \cup {c} /\ UNCHANGED <<item, Page>>

\* AdminDocTypes is busy until the list that follows an addition is loaded.
adding == \E c \in requests : /\ ~c.gone /\ PageOf(c.kind) = "docs"
                              /\ c.do = "add" \/ (c.do = "list" /\ c.on)
submitAdd(v) == ~adding /\ Asks(Request("add", tab, "none", v, TRUE))
openEdit(i) == /\ tab # "documentType" /\ i \in DOMAIN OnScreen.rows /\ editing # i /\ Quietly
               /\ editing' = i
               /\ UNCHANGED <<item, tab, table, groups, errors, requests>>
saveEdit(v) == /\ editing \in DOMAIN OnScreen.rows
               /\ Asks(Request("rename", tab, editing, v, TRUE))
setActive(i) == /\ i \in DOMAIN OnScreen.rows
                /\ Asks(Request("active", tab, i, "none", ~OnScreen.rows[i].active))
toggleCap(i) == /\ tab = "documentType" /\ i \in DOMAIN OnScreen.rows
                /\ Asks(Request("cap", tab, i, "none", ~OnScreen.rows[i].cap))
doDelete(i) == /\ tab = "documentType" /\ i \in DOMAIN OnScreen.rows
               /\ Asks(Request("delete", tab, i, "none", TRUE))
RetryList == /\ PageOf(tab) \in errors /\ Quietly
             /\ errors' = errors \ {PageOf(tab)} /\ requests' = requests \cup {Lists(tab)}
             /\ UNCHANGED <<item, tab, table, groups, editing>>

-----------------------------------------------------------------------------
(***************************************************************************)
(* The server                                                              *)
(***************************************************************************)
TakenValue(kind, v) == \E i \in Item : item[i].kind = kind /\ item[i].value = v

\* UpdateOption does not touch document types, nor the others the other kinds.  A
\* ticket may have come to use a type since the list that offered its deletion.
Allowed(c, inUse) ==
  CASE c.do = "add" -> ~TakenValue(c.kind, c.value)
    [] c.do = "rename" -> item[c.item].value = c.value \/ ~TakenValue(item[c.item].kind, c.value)
    [] c.do = "delete" -> There(c.item) /\ ~inUse
    [] OTHER -> There(c.item)

Change(c) ==
  CASE c.do = "add" -> {[item EXCEPT ![i] = Seeded(c.kind, c.value)] :
                        i \in {j \in Item : item[j] = NoItem}}
    [] c.do = "rename" -> {[item EXCEPT ![c.item].value = c.value]}
    [] c.do = "active" -> {[item EXCEPT ![c.item].active = c.on]}
    [] c.do = "cap" -> {[item EXCEPT ![c.item].cap = c.on]}
    [] c.do = "delete" -> {[item EXCEPT ![c.item] = Deleted]}

\* Lists on their way, and those already shown but for the page's own requests, whose
\* answers will load them anew, are behind.
Outrun(pending) == {[c EXCEPT !.answer.behind = @ \/ c.stage = "ok"] : c \in pending}
Idly == UNCHANGED <<tab, editing, errors>> /\ Quietly

Carry(c, inUse) ==
  /\ c.stage = "asked" /\ Idly
  /\ IF c.do = "list"
       THEN /\ requests' = (requests \ {c}) \cup
                          {[c EXCEPT !.stage = "ok", !.answer = [NoRows EXCEPT !.of = c.kind,
                                                                  !.rows = RowsOf(c.kind)]]}
            /\ UNCHANGED <<item, table, groups>>
       ELSE IF Allowed(c, inUse)
       THEN /\ item' \in Change(c)
            /\ requests' = Outrun(requests \ {c}) \cup {[c EXCEPT !.stage = "ok"]}
            /\ table' = [table EXCEPT !.behind = @ \/ c.gone]
            /\ groups' = [groups EXCEPT !.behind = @ \/ c.gone]
       ELSE /\ requests' = (requests \ {c}) \cup {[c EXCEPT !.stage = "refused"]}
            /\ UNCHANGED <<item, table, groups>>

\* Another administrator.
Strange(i) ==
  /\ strange < MaxStrange /\ strange' = strange + 1
  /\ There(i)
  /\ item' = [item EXCEPT ![i].active = ~@]
  /\ requests' = Outrun(requests)
  /\ table' = [table EXCEPT !.behind = TRUE] /\ groups' = [groups EXCEPT !.behind = TRUE]
  /\ UNCHANGED <<tab, editing, errors, clicks, snags>>

-----------------------------------------------------------------------------
(***************************************************************************)
(* Answers                                                                 *)
(***************************************************************************)
\* setRows: of whatever tab is open by now; only AdminDocTypes leaves with its tab.
ShowRows(c) ==
  /\ c.do = "list" /\ c.stage = "ok" /\ Idly
  /\ requests' = requests \ {c}
  /\ LET displayed == [c.answer EXCEPT !.late = c.kind # tab]
     IN  \/ c.gone /\ UNCHANGED <<table, groups>>
         \/ ~c.gone /\ PageOf(c.kind) = "docs" /\ groups' = displayed /\ UNCHANGED table
         \/ ~c.gone /\ PageOf(c.kind) = "options" /\ table' = displayed /\ UNCHANGED groups
  /\ UNCHANGED item

\* load() of the page that made the call, of its kind.
Reload(c, pending) == /\ requests' = pending \cup {[Lists(c.kind) EXCEPT !.on = c.do = "add"]}
                      /\ errors' = errors \ {PageOf(c.kind)}

\* A rename closes the edit that is open by now.
CallAnswered(c) ==
  /\ c.do # "list" /\ c.stage = "ok" /\ Quietly
  /\ editing' = IF c.do = "rename" THEN "none" ELSE editing
  /\ IF c.gone THEN requests' = requests \ {c} /\ UNCHANGED errors ELSE Reload(c, requests \ {c})
  /\ UNCHANGED <<item, tab, table, groups>>

\* Fault: the checkbox is left as it is.
NoneReload == {}

\* "Reload to snap the checkbox back to the server truth after a failed toggle."
ReloadAfterFailure == {"cap"}

\* Refused, or the call or its answer is lost: a message.
Failed(c, done) ==
  /\ IF c.do \in ReloadAfterFailure /\ ~c.gone
       THEN Reload(c, requests \ {c}) /\ UNCHANGED <<table, groups>>
       ELSE /\ requests' = requests \ {c}
            /\ errors' = IF c.do = "list" /\ ~c.gone THEN errors \cup {PageOf(c.kind)} ELSE errors
            /\ table' = [table EXCEPT !.behind = @ \/ (done /\ c.do \notin {"list", "cap"})]
            /\ groups' = [groups EXCEPT !.behind = @ \/ (done /\ c.do \notin {"list", "cap"})]
  /\ UNCHANGED <<item, tab, editing>>
RefusedCall(c) == c.stage = "refused" /\ Failed(c, FALSE) /\ Quietly
LostCall(c) == /\ snags < MaxSnags /\ snags' = snags + 1 /\ UNCHANGED <<clicks, strange>>
               /\ Failed(c, c.stage = "ok")

OptionsNext ==
  \/ \E kind \in Kinds : setKind(kind)
  \/ \E v \in Label : submitAdd(v) \/ saveEdit(v)
  \/ \E i \in Item : openEdit(i) \/ setActive(i) \/ toggleCap(i) \/ doDelete(i) \/ Strange(i)
  \/ RetryList
  \/ \E c \in requests, inUse \in BOOLEAN : Carry(c, inUse)
  \/ \E c \in requests : ShowRows(c) \/ CallAnswered(c) \/ RefusedCall(c) \/ LostCall(c)

OptionsSpec == OptionsInit /\ [][OptionsNext]_optionsVars
-----------------------------------------------------------------------------
\* When all is answered, what a tab shows is what is stored, of its kind, unless the
\* list was asked for under another tab, another administrator changed it since it
\* was read, an answer that it had changed was lost, or its loads overtook each
\* other: for a capability, a lost answer does not matter either.
ShownIsStored ==
  LET displayed == IF tab = "documentType" THEN groups ELSE table
  IN  requests = {} /\ errors = {} =>
        \/ displayed.late \/ displayed.behind
        \/ displayed.of = tab /\ displayed.rows = RowsOf(tab)
=============================================================================
