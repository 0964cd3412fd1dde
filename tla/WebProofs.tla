----------------------------- MODULE WebProofs ------------------------------
(***************************************************************************)
(* The lists of an administrator, the bell and the scripts of the          *)
(* operators, and the pages side by side, for any sizes of each.           *)
(***************************************************************************)
EXTENDS Web, DeskProofs, FormsProofs, LookupProofs, FunctionTheorems, WellFoundedInduction

-----------------------------------------------------------------------------
(***************************************************************************)
(* The lists of an administrator.                                          *)
(***************************************************************************)
Texts == Item \cup Label \cup {"none", "deleted"}
ItemRow == [kind : Kinds \cup {"none"}, value : Texts, active : BOOLEAN, cap : BOOLEAN]
ItemRows == UNION {[S -> ItemRow] : S \in SUBSET Item}
RowTable == [of : Kinds \cup {"none"}, rows : ItemRows, behind : BOOLEAN, late : BOOLEAN]
OptionRequest ==
  [do : {"list", "add", "rename", "active", "cap", "delete"}, kind : Kinds,
   item : Item \cup {"none"}, value : Texts, on : BOOLEAN, stage : {"asked", "ok", "refused"},
   gone : BOOLEAN, answer : RowTable, n : Nat]

OptionTypes ==
  /\ item \in [Item -> ItemRow] /\ tab \in Kinds /\ table \in RowTable /\ groups \in RowTable
  /\ editing \in Item \cup {"none"} /\ errors \subseteq {"docs", "options"}
  /\ requests \subseteq OptionRequest /\ clicks \in Nat

\* Rows of the tabs but the first are never deleted; those of the first never come
\* back as others.
OfOptions(i) == i \in Item /\ item[i].kind \in Kinds \ {"documentType"}
OfTypes(i) == i \in Item /\ (item[i].kind = "documentType" \/ item[i] = Deleted)
OfPage(kind, i) == IF kind = "documentType" THEN OfTypes(i) ELSE OfOptions(i)

\* A list that was read is the list, or known to be behind; requests of AdminDocTypes
\* go with its tab.
RequestOK(r) ==
  /\ r.do = "list" => r.stage # "refused"
  /\ r.do = "list" /\ r.stage = "ok" =>
       /\ r.answer.of = r.kind
       /\ r.answer.behind \/ r.answer.rows = RowsOf(r.kind)
       /\ \A i \in DOMAIN r.answer.rows : OfPage(r.kind, i)
  /\ r.kind = "documentType" /\ ~r.gone => tab = "documentType"
  /\ r.kind # "documentType" => ~r.gone /\ r.do \notin {"cap", "delete"}
  /\ r.do \notin {"list", "add"} => OfPage(r.kind, r.item)
  /\ r.kind = "documentType" => r.do # "rename"

\* What is on display is what is stored, or excused, or will be loaded.
Loads(r) == ~r.gone /\ PageOf(r.kind) = PageOf(tab) /\ (r.do = "list" \/ r.stage = "ok")
Fine(d) == d.late \/ d.behind \/ (d.of = tab /\ d.rows = RowsOf(tab))
DisplayOK == \/ Fine(IF tab = "documentType" THEN groups ELSE table)
             \/ PageOf(tab) \in errors
             \/ \E r \in requests : Loads(r)

OptionsInv == /\ OptionTypes /\ DisplayOK
              /\ \A r \in requests : RequestOK(r)
              /\ \A i \in DOMAIN table.rows : OfOptions(i)
              /\ \A i \in DOMAIN groups.rows : OfTypes(i)
              /\ editing # "none" => tab # "documentType"

-----------------------------------------------------------------------------
\* A table before its list has come.
LEMMA NoRowsFacts == NoRows \in RowTable /\ DOMAIN NoRows.rows = {} /\ NoRows.of = "none"
<1>1. <<>> \in [{} -> ItemRow]
  OBVIOUS
<1>2. <<>> \in ItemRows
  BY <1>1 DEF ItemRows
<1>3. DOMAIN <<>> = {}
  BY <1>1
<1> QED BY <1>2, <1>3 DEF NoRows, RowTable

\* The stored rows of a kind are rows, and of the kind.
LEMMA RowsFacts ==
  ASSUME item \in [Item -> ItemRow], NEW kind
  PROVE  /\ RowsOf(kind) \in ItemRows
         /\ \A i \in DOMAIN RowsOf(kind) : i \in Item /\ item[i].kind = kind
<1> DEFINE S == {j \in Item : item[j].kind = kind}
<1>1. RowsOf(kind) = [i \in S |-> item[i]]
  BY DEF RowsOf
<1>2. RowsOf(kind) \in [S -> ItemRow] /\ S \in SUBSET Item
  BY <1>1
<1>3. RowsOf(kind) \in ItemRows
  BY <1>2 DEF ItemRows
<1> QED BY <1>1, <1>3

\* A request for the list of a kind.
LEMMA ListsFacts ==
  ASSUME NEW kind \in Kinds, clicks \in Nat
  PROVE  /\ Lists(kind) \in OptionRequest /\ Lists(kind).kind = kind /\ Lists(kind).do = "list"
         /\ Lists(kind).gone = FALSE /\ Lists(kind).stage = "asked"
BY NoRowsFacts DEF Lists, Request, OptionRequest, Texts

\* A request for a list is in order under its own tab.
LEMMA ListsOK ==
  ASSUME NEW r, r.do = "list", r.stage = "asked", r.kind \in Kinds, r.gone = FALSE,
         r.kind = "documentType" => tab = "documentType"
  PROVE  RequestOK(r)
BY DEF RequestOK

\* The rest of the invariant, where the items are as they were.
LEMMA OptionsRest ==
  ASSUME OptionsInv, item' = item, tab' = tab, table' = table, groups' = groups, clicks' \in Nat,
         editing' \in Item \cup {"none"}, errors' \subseteq {"docs", "options"},
         requests' \subseteq OptionRequest, \A r \in requests' : r \notin requests => RequestOK(r)',
         editing' # "none" => tab # "documentType", DisplayOK'
  PROVE  OptionsInv'
<1>1. OptionTypes'
  BY DEF OptionsInv, OptionTypes
<1>2. ASSUME NEW r \in requests PROVE RequestOK(r)'
  <2>1. RequestOK(r)
    BY DEF OptionsInv
  <2> QED BY <2>1 DEF RequestOK, OfPage, OfTypes, OfOptions, RowsOf
<1>3. (\A i \in DOMAIN table'.rows : OfOptions(i)') /\ \A i \in DOMAIN groups'.rows : OfTypes(i)'
  BY DEF OptionsInv, OfOptions, OfTypes
<1> QED BY <1>1, <1>2, <1>3 DEF OptionsInv

\* More requests do not unsettle what is on display.
LEMMA DisplayStays ==
  ASSUME DisplayOK, UNCHANGED <<item, tab, table, groups>>, errors \subseteq errors',
         requests \subseteq requests'
  PROVE  DisplayOK'
BY DEF DisplayOK, Loads, Fine, RowsOf

\* A list on its way for the page of the tab settles what is on display.
LEMMA ReloadShows ==
  ASSUME NEW r, r \in requests', r.kind \in Kinds, r.do = "list", r.gone = FALSE,
         PageOf(r.kind) = PageOf(tab')
  PROVE  DisplayOK'
<1>1. Loads(r)'
  BY DEF Loads
<1> QED BY <1>1 DEF DisplayOK

-----------------------------------------------------------------------------
\* A change of tab keeps the invariant: it asks for the list of the new one.
LEMMA SetKindStep ==
  ASSUME OptionsInv, NEW kind \in Kinds, setKind(kind) PROVE OptionsInv'
<1>1. /\ tab' = kind /\ editing' = "none" /\ errors' = {} /\ groups' = NoRows /\ item' = item
      /\ table' = IF kind = "documentType" THEN NoRows ELSE table
      /\ clicks' = clicks + 1
      /\ requests' = {[c EXCEPT !.gone = @ \/ PageOf(c.kind) = "docs"] : c \in requests}
                     \cup {Lists(kind)}
  BY DEF setKind, Click
<1>2. /\ item \in [Item -> ItemRow] /\ table \in RowTable /\ clicks \in Nat
      /\ requests \subseteq OptionRequest /\ \A r \in requests : RequestOK(r)
  BY DEF OptionsInv, OptionTypes
<1>3. /\ Lists(kind) \in OptionRequest /\ Lists(kind).kind = kind /\ Lists(kind).do = "list"
      /\ Lists(kind).gone = FALSE /\ Lists(kind).stage = "asked"
  BY <1>2, ListsFacts
<1>4. ASSUME NEW c \in requests
      PROVE  LET r == [c EXCEPT !.gone = @ \/ PageOf(c.kind) = "docs"]
             IN  r \in OptionRequest /\ RequestOK(r)'
  <2> DEFINE g == c.gone \/ PageOf(c.kind) = "docs"
  <2>1. c \in OptionRequest /\ RequestOK(c)
    BY <1>2
  <2>2. g \in BOOLEAN /\ (c.kind = "documentType" => g) /\ (c.kind # "documentType" => ~g)
    <3>1. c.gone \in BOOLEAN
      BY <2>1 DEF OptionRequest
    <3> QED BY <2>1, <3>1 DEF PageOf, RequestOK
  <2> HIDE DEF g
  <2>3. PICK r \in {[c EXCEPT !.gone = g]} : TRUE
    OBVIOUS
  <2>4. /\ r \in OptionRequest /\ r.do = c.do /\ r.kind = c.kind /\ r.item = c.item
        /\ r.stage = c.stage /\ r.answer = c.answer /\ r.gone = g
    BY <2>1, <2>2, <2>3 DEF OptionRequest
  <2>5. RequestOK(r)'
    BY <1>1, <2>1, <2>2, <2>4 DEF RequestOK, OfPage, OfTypes, OfOptions, RowsOf
  <2> QED BY <2>3, <2>4, <2>5 DEF g
<1>5. PICK new \in {Lists(kind)} : TRUE
  OBVIOUS
<1>6. RequestOK(new)'
  BY <1>1, <1>3, <1>5 DEF RequestOK
<1>7. requests' \subseteq OptionRequest /\ \A r \in requests' : RequestOK(r)'
  BY <1>1, <1>3, <1>4, <1>5, <1>6
<1>8. DisplayOK'
  BY <1>1, <1>3, ReloadShows
<1>9. OptionTypes'
  BY <1>1, <1>2, <1>7, NoRowsFacts DEF OptionTypes
<1>10. (\A i \in DOMAIN table'.rows : OfOptions(i)') /\ \A i \in DOMAIN groups'.rows : OfTypes(i)'
  BY <1>1, NoRowsFacts DEF OptionsInv, OfOptions
<1> QED BY <1>1, <1>7, <1>8, <1>9, <1>10 DEF OptionsInv

\* What is clicked is on the screen.
LEMMA OnScreenFacts ==
  ASSUME OptionsInv
  PROVE  /\ OnScreen \in RowTable
         /\ \A i \in DOMAIN OnScreen.rows : i \in Item /\ OnScreen.rows[i] \in ItemRow
         /\ \A i \in DOMAIN OnScreen.rows : OfPage(tab, i)
<1>1. OnScreen \in RowTable
  BY NoRowsFacts DEF OptionsInv, OptionTypes, OnScreen
<1>2. OnScreen.rows \in ItemRows
  BY <1>1 DEF RowTable
<1>3. PICK S \in SUBSET Item : OnScreen.rows \in [S -> ItemRow]
  BY <1>2 DEF ItemRows
<1>4. IF tab = "documentType" THEN OnScreen = groups ELSE OnScreen = table \/ OnScreen = NoRows
  BY DEF OnScreen
<1> QED BY <1>1, <1>3, <1>4, NoRowsFacts DEF OptionsInv, OfPage

\* A request made under the tab keeps it, whatever it asks for.
LEMMA AsksStep ==
  ASSUME OptionsInv, NEW r \in OptionRequest, Asks(r), r.kind = tab, r.stage = "asked", r.gone = FALSE,
         r.do # "list", r.do # "add" => OfPage(tab, r.item),
         IF tab = "documentType" THEN r.do # "rename" ELSE r.do \notin {"cap", "delete"}
  PROVE  OptionsInv'
<1>1. UNCHANGED <<item, tab, table, groups, editing, errors>> /\ requests' = requests \cup {r}
      /\ clicks' = clicks + 1
  BY DEF Asks, Click, Page
<1>2. clicks \in Nat
  BY DEF OptionsInv, OptionTypes
<1>3. RequestOK(r)
  BY DEF RequestOK
<1>4. RequestOK(r)'
  BY <1>1, <1>3 DEF RequestOK, OfPage, OfTypes, OfOptions, RowsOf
<1>5. DisplayOK'
  BY <1>1, DisplayStays DEF OptionsInv
<1> QED BY <1>1, <1>2, <1>4, <1>5, OptionsRest DEF OptionsInv, OptionTypes

\* A request that the page of the tab makes.
LEMMA RequestStep ==
  ASSUME OptionsInv, NEW do \in {"add", "rename", "active", "cap", "delete"},
         NEW i \in Item \cup {"none"}, NEW v \in Texts, NEW on \in BOOLEAN,
         Asks(Request(do, tab, i, v, on)),
         do # "add" => OfPage(tab, i),
         IF tab = "documentType" THEN do # "rename" ELSE do \notin {"cap", "delete"}
  PROVE  OptionsInv'
<1>1. tab \in Kinds /\ clicks \in Nat
  BY DEF OptionsInv, OptionTypes
<1>2. /\ Request(do, tab, i, v, on) \in OptionRequest /\ Request(do, tab, i, v, on).do = do
      /\ Request(do, tab, i, v, on).kind = tab /\ Request(do, tab, i, v, on).item = i
      /\ Request(do, tab, i, v, on).stage = "asked" /\ Request(do, tab, i, v, on).gone = FALSE
  BY <1>1, NoRowsFacts DEF Request, OptionRequest
<1> DEFINE q == Request(do, tab, i, v, on)
<1>3. PICK r \in {q} : TRUE
  OBVIOUS
<1>4. r = q
  BY <1>3
<1>5. /\ r \in OptionRequest /\ r.do = do /\ r.kind = tab /\ r.item = i /\ r.stage = "asked"
      /\ r.gone = FALSE /\ Asks(r)
  BY <1>2, <1>4
<1> HIDE DEF q
<1> QED BY <1>5, AsksStep

\* An addition and a rename keep it.
LEMMA TypingStep ==
  ASSUME OptionsInv, NEW v \in Label, submitAdd(v) \/ saveEdit(v) PROVE OptionsInv'
<1>1. v \in Texts /\ "none" \in Texts
  BY DEF Texts
<1>2. \A j \in DOMAIN OnScreen.rows : j \in Item /\ OfPage(tab, j)
  BY OnScreenFacts
<1>3. CASE submitAdd(v)
  BY <1>1, <1>3, RequestStep DEF submitAdd
<1>4. CASE saveEdit(v)
  <2>1. editing \in Item /\ OfPage(tab, editing) /\ tab # "documentType"
    BY <1>2, <1>4, OptionsAssumption DEF saveEdit, OptionsInv
  <2> QED BY <1>1, <1>4, <2>1, RequestStep DEF saveEdit
<1> QED BY <1>3, <1>4

\* The switches and the deletion of a row keep it.
LEMMA ClicksStep ==
  ASSUME OptionsInv, NEW i \in Item, setActive(i) \/ toggleCap(i) \/ doDelete(i) PROVE OptionsInv'
<1>1. "none" \in Texts
  BY DEF Texts
<1>2. \A j \in DOMAIN OnScreen.rows : j \in Item /\ OfPage(tab, j)
  BY OnScreenFacts
<1>5. CASE setActive(i)
  <2>1. OfPage(tab, i)
    BY <1>2, <1>5 DEF setActive
  <2> QED BY <1>1, <1>5, <2>1, RequestStep DEF setActive
<1>6. CASE toggleCap(i)
  <2>1. OfPage(tab, i)
    BY <1>2, <1>6 DEF toggleCap
  <2> QED BY <1>1, <1>6, <2>1, RequestStep DEF toggleCap
<1>7. CASE doDelete(i)
  <2>1. OfPage(tab, i)
    BY <1>2, <1>7 DEF doDelete
  <2> QED BY <1>1, <1>7, <2>1, RequestStep DEF doDelete
<1> QED BY <1>5, <1>6, <1>7

\* Another try at the list keeps it.
LEMMA RetryListStep ==
  ASSUME OptionsInv, RetryList PROVE OptionsInv'
<1>1. PICK r \in {Lists(tab)} : TRUE
  OBVIOUS
<1>2. tab \in Kinds /\ clicks \in Nat
  BY DEF OptionsInv, OptionTypes
<1>3. /\ r \in OptionRequest /\ r.do = "list" /\ r.kind = tab /\ r.stage = "asked" /\ r.gone = FALSE
  BY <1>1, <1>2, ListsFacts
<1>4. UNCHANGED <<item, tab, table, groups, editing, clicks>> /\ requests' = requests \cup {r}
      /\ errors' = errors \ {PageOf(tab)}
  BY <1>1 DEF RetryList, Quietly
<1>5. RequestOK(r)'
  BY <1>3, <1>4 DEF RequestOK
<1>6. DisplayOK'
  BY <1>2, <1>3, <1>4, ReloadShows
<1> QED BY <1>2, <1>3, <1>4, <1>5, <1>6, OptionsRest DEF OptionsInv, OptionTypes

\* The opening of a row for a rename keeps it.
LEMMA OpenEditStep ==
  ASSUME OptionsInv, NEW i \in Item, openEdit(i) PROVE OptionsInv'
<1>1. /\ UNCHANGED <<item, tab, table, groups, errors, requests, clicks>> /\ editing' = i
      /\ tab # "documentType"
  BY DEF openEdit, Quietly
<1>2. DisplayOK'
  BY <1>1, DisplayStays DEF OptionsInv
<1> QED BY <1>1, <1>2, OptionsRest DEF OptionsInv, OptionTypes

-----------------------------------------------------------------------------
\* What is on display stays in order when what will load it stays, though it changes.
LEMMA DisplayKept ==
  ASSUME DisplayOK, UNCHANGED <<item, tab, table, groups>>, errors \subseteq errors',
         \A r \in requests : Loads(r) => \E q \in requests' : Loads(q)'
  PROVE  DisplayOK'
BY DEF DisplayOK, Fine, RowsOf

\* A table that is marked keeps all but its mark.
LEMMA BehindFacts ==
  ASSUME NEW t \in RowTable, NEW b \in BOOLEAN
  PROVE  LET d == [t EXCEPT !.behind = @ \/ b]
         IN  /\ d \in RowTable /\ d.of = t.of /\ d.rows = t.rows /\ d.late = t.late
             /\ (d.behind <=> t.behind \/ b)
<1> DEFINE g == t.behind \/ b
<1>1. g \in BOOLEAN
  OBVIOUS
<1>2. t.behind \in BOOLEAN
  BY DEF RowTable
<1> HIDE DEF g
<1>3. LET d == [t EXCEPT !.behind = g]
      IN  d \in RowTable /\ d.of = t.of /\ d.rows = t.rows /\ d.late = t.late /\ d.behind = g
  BY <1>1 DEF RowTable
<1> QED BY <1>3 DEF g

\* The server reads a list: it is what is stored.
LEMMA CarryListStep ==
  ASSUME OptionsInv, NEW c \in requests, NEW inUse \in BOOLEAN, Carry(c, inUse),
         c.do = "list" PROVE OptionsInv'
<1>1. /\ c \in OptionRequest /\ RequestOK(c) /\ item \in [Item -> ItemRow] /\ c.kind \in Kinds
      /\ requests \subseteq OptionRequest
  BY DEF OptionsInv, OptionTypes, OptionRequest
<1>2. PICK a \in {[NoRows EXCEPT !.of = c.kind, !.rows = RowsOf(c.kind)]} : TRUE
  OBVIOUS
<1>3. a \in RowTable /\ a.of = c.kind /\ a.rows = RowsOf(c.kind)
  <2>1. RowsOf(c.kind) \in ItemRows
    BY <1>1, RowsFacts
  <2> QED BY <1>1, <1>2, <2>1, NoRowsFacts DEF RowTable
<1>4. PICK r \in {[c EXCEPT !.stage = "ok", !.answer = a]} : TRUE
  OBVIOUS
<1>5. /\ r \in OptionRequest /\ r.do = c.do /\ r.kind = c.kind /\ r.item = c.item
      /\ r.gone = c.gone /\ r.stage = "ok" /\ r.answer = a
  BY <1>1, <1>3, <1>4 DEF OptionRequest
<1>6. /\ UNCHANGED <<item, tab, table, groups, editing, errors, clicks>>
      /\ requests' = (requests \ {c}) \cup {r}
  BY <1>2, <1>4 DEF Carry, Idly, Quietly
<1>7. RequestOK(r)'
  <2>1. \A i \in DOMAIN RowsOf(c.kind) : i \in Item /\ item[i].kind = c.kind
    BY <1>1, RowsFacts
  <2>2. \A i \in DOMAIN RowsOf(c.kind) : OfPage(c.kind, i)
    BY <1>1, <2>1 DEF OfPage, OfTypes, OfOptions
  <2>3. \A i \in DOMAIN r.answer.rows : OfPage(r.kind, i)
    BY <1>3, <1>5, <2>2
  <2>4. RequestOK(r)
    BY <1>1, <1>3, <1>5, <2>3 DEF RequestOK
  <2> QED BY <1>6, <2>4 DEF RequestOK, OfPage, OfTypes, OfOptions, RowsOf
<1>8. Loads(c) => Loads(r)'
  BY <1>5, <1>6 DEF Loads
<1>9. \A x \in requests : Loads(x) => Loads(x)'
  BY <1>6 DEF Loads
<1>10. DisplayOK'
  BY <1>6, <1>8, <1>9, DisplayKept DEF OptionsInv
<1>11. requests' \subseteq OptionRequest
  BY <1>1, <1>5, <1>6
<1> QED BY <1>6, <1>7, <1>10, <1>11, OptionsRest DEF OptionsInv, OptionTypes

\* The server refuses a change: nothing is stored.
LEMMA CarryRefusedStep ==
  ASSUME OptionsInv, NEW c \in requests, NEW inUse \in BOOLEAN, Carry(c, inUse),
         c.do # "list", ~Allowed(c, inUse)
  PROVE  OptionsInv'
<1>1. /\ c \in OptionRequest /\ RequestOK(c) /\ requests \subseteq OptionRequest
  BY DEF OptionsInv, OptionTypes
<1>4. PICK r \in {[c EXCEPT !.stage = "refused"]} : TRUE
  OBVIOUS
<1>5. /\ r \in OptionRequest /\ r.do = c.do /\ r.kind = c.kind /\ r.item = c.item
      /\ r.gone = c.gone /\ r.stage = "refused"
  BY <1>1, <1>4 DEF OptionRequest
<1>6. /\ UNCHANGED <<item, tab, table, groups, editing, errors, clicks>> /\ c.stage = "asked"
      /\ requests' = (requests \ {c}) \cup {r}
  BY <1>4 DEF Carry, Idly, Quietly
<1>7. RequestOK(r)'
  BY <1>1, <1>5, <1>6 DEF RequestOK, OfPage, OfTypes, OfOptions, RowsOf
<1>8. ~Loads(c)
  BY <1>6 DEF Loads
<1>9. \A x \in requests : Loads(x) => Loads(x)'
  BY <1>6 DEF Loads
<1>10. DisplayOK'
  BY <1>6, <1>8, <1>9, DisplayKept DEF OptionsInv
<1>11. requests' \subseteq OptionRequest
  BY <1>1, <1>5, <1>6
<1> QED BY <1>6, <1>7, <1>10, <1>11, OptionsRest DEF OptionsInv, OptionTypes

\* A row that is added is a row of its kind.
LEMMA SeededFacts ==
  ASSUME NEW kind \in Kinds, NEW v \in Texts
  PROVE  Seeded(kind, v) \in ItemRow /\ Seeded(kind, v).kind = kind
BY DEF Seeded, ItemRow

\* One row changes, and stays what its page takes it for.
LEMMA OneItem ==
  ASSUME item \in [Item -> ItemRow], NEW j \in Item, NEW row \in ItemRow,
         item' = [item EXCEPT ![j] = row], OfOptions(j) => row.kind \in Kinds \ {"documentType"},
         OfTypes(j) => row.kind = "documentType" \/ row = Deleted
  PROVE  /\ item' \in [Item -> ItemRow]
         /\ \A i : OfOptions(i) => OfOptions(i)'
         /\ \A i : OfTypes(i) => OfTypes(i)'
         /\ item[j].kind # "documentType" /\ row.kind # "documentType" =>
              RowsOf("documentType")' = RowsOf("documentType")
<1>1. item' \in [Item -> ItemRow] /\ item'[j] = row /\ \A i \in Item \ {j} : item'[i] = item[i]
  OBVIOUS
<1>2. \A i : OfOptions(i) => OfOptions(i)'
  BY <1>1 DEF OfOptions
<1>3. \A i : OfTypes(i) => OfTypes(i)'
  BY <1>1 DEF OfTypes, Deleted, NoItem
<1>4. ASSUME item[j].kind # "documentType", row.kind # "documentType"
      PROVE  RowsOf("documentType")' = RowsOf("documentType")
  <2>1. \A i \in Item : (item'[i].kind = "documentType") <=> (item[i].kind = "documentType")
    BY <1>1, <1>4
  <2>2. \A i \in Item : item[i].kind = "documentType" => item'[i] = item[i]
    BY <1>1, <1>4
  <2> QED BY <2>1, <2>2 DEF RowsOf
<1> QED BY <1>1, <1>2, <1>3, <1>4

\* A change by the server leaves the rows of every page what they were.
LEMMA ItemsChange ==
  ASSUME OptionsInv, NEW c \in requests, NEW inUse \in BOOLEAN, c.do # "list",
         Allowed(c, inUse), item' \in Change(c)
  PROVE  /\ item' \in [Item -> ItemRow]
         /\ \A i : OfOptions(i) => OfOptions(i)'
         /\ \A i : OfTypes(i) => OfTypes(i)'
         /\ c.kind # "documentType" => RowsOf("documentType")' = RowsOf("documentType")
<1>1. /\ c \in OptionRequest /\ RequestOK(c) /\ item \in [Item -> ItemRow]
  BY DEF OptionsInv, OptionTypes
<1>2. /\ c.do \in {"add", "rename", "active", "cap", "delete"} /\ c.kind \in Kinds
      /\ c.value \in Texts /\ c.on \in BOOLEAN
  BY <1>1 DEF OptionRequest
<1>3. CASE c.do = "add"
  <2>1. PICK j \in Item : item[j] = NoItem /\ item' = [item EXCEPT ![j] = Seeded(c.kind, c.value)]
    BY <1>3 DEF Change
  <2>2. PICK row \in {Seeded(c.kind, c.value)} : TRUE
    OBVIOUS
  <2>3. row \in ItemRow /\ row.kind = c.kind
    BY <1>2, <2>2, SeededFacts
  <2>4. NoItem.kind = "none" /\ Deleted.value = "deleted" /\ NoItem.value = "none"
    BY DEF NoItem, Deleted
  <2>5. ~OfOptions(j) /\ ~OfTypes(j) /\ item[j].kind # "documentType"
    BY <2>1, <2>4 DEF OfOptions, OfTypes, Kinds
  <2> QED BY <1>1, <2>1, <2>2, <2>3, <2>5, OneItem
<1> DEFINE j == c.item
<1>4. CASE c.do = "rename"
  <2>1. OfOptions(j) /\ j \in Item
    BY <1>1, <1>4 DEF RequestOK, OfPage, OfOptions
  <2>2. PICK row \in {[item[j] EXCEPT !.value = c.value]} : TRUE
    OBVIOUS
  <2>3. row \in ItemRow /\ row.kind = item[j].kind
    BY <1>1, <1>2, <2>1, <2>2 DEF ItemRow
  <2>4. item' = [item EXCEPT ![j] = row]
    BY <1>4, <2>2 DEF Change
  <2>5. ~OfTypes(j) /\ item[j].kind \in Kinds \ {"documentType"}
    BY <2>1 DEF OfTypes, OfOptions, Kinds, Deleted, NoItem
  <2> HIDE DEF j
  <2> QED BY <1>1, <2>1, <2>3, <2>4, <2>5, OneItem
<1>5. CASE c.do \in {"active", "cap"}
  <2>1. OfPage(c.kind, j) /\ j \in Item /\ item[j].kind # "none"
    BY <1>1, <1>5 DEF RequestOK, OfPage, OfOptions, OfTypes, Allowed, There
  <2>2. PICK row \in {IF c.do = "active" THEN [item[j] EXCEPT !.active = c.on]
                                          ELSE [item[j] EXCEPT !.cap = c.on]} : TRUE
    OBVIOUS
  <2>3. row \in ItemRow /\ row.kind = item[j].kind
    BY <1>1, <1>2, <2>1, <2>2 DEF ItemRow
  <2>4. item' = [item EXCEPT ![j] = row]
    BY <1>5, <2>2 DEF Change
  <2>5. OfTypes(j) => item[j].kind = "documentType"
    BY <2>1 DEF OfTypes, Deleted, NoItem
  <2>6. OfOptions(j) => item[j].kind \in Kinds \ {"documentType"}
    BY DEF OfOptions
  <2>7. c.kind # "documentType" => item[j].kind # "documentType"
    BY <2>1, <2>6 DEF OfPage
  <2> HIDE DEF j
  <2> QED BY <1>1, <2>1, <2>3, <2>4, <2>5, <2>6, <2>7, OneItem
<1>6. CASE c.do = "delete"
  <2>1. OfTypes(j) /\ j \in Item /\ c.kind = "documentType"
    BY <1>1, <1>6 DEF RequestOK, OfPage, OfTypes
  <2>2. PICK row \in {Deleted} : TRUE
    OBVIOUS
  <2>3. row \in ItemRow /\ row = Deleted
    BY <2>2 DEF ItemRow, Deleted, NoItem, Texts
  <2>4. item' = [item EXCEPT ![j] = row]
    BY <1>6, <2>3 DEF Change
  <2>5. ~OfOptions(j)
    BY <2>1 DEF OfTypes, OfOptions, Kinds, Deleted, NoItem
  <2> HIDE DEF j
  <2> QED BY <1>1, <2>1, <2>3, <2>4, <2>5, OneItem
<1> QED BY <1>2, <1>3, <1>4, <1>5, <1>6

\* An answer on its way is behind from now on.
LEMMA OutrunFacts ==
  ASSUME NEW x \in OptionRequest, NEW r, r = [x EXCEPT !.answer.behind = @ \/ x.stage = "ok"]
  PROVE  /\ r \in OptionRequest /\ r.do = x.do /\ r.kind = x.kind /\ r.item = x.item
         /\ r.gone = x.gone /\ r.stage = x.stage /\ r.answer.of = x.answer.of
         /\ r.answer.rows = x.answer.rows
         /\ x.stage = "ok" => r.answer.behind
<1>1. x.answer \in RowTable
  BY DEF OptionRequest
<1>2. PICK b \in {x.answer.behind \/ x.stage = "ok"} : TRUE
  OBVIOUS
<1>3. b \in BOOLEAN /\ (x.stage = "ok" => b)
  BY <1>2
<1>4. PICK a \in {[x.answer EXCEPT !.behind = b]} : TRUE
  OBVIOUS
<1>5. a \in RowTable /\ a.of = x.answer.of /\ a.rows = x.answer.rows /\ a.behind = b
  BY <1>1, <1>3, <1>4 DEF RowTable
<1>6. r = [x EXCEPT !.answer = a]
  BY <1>2, <1>4
<1>7. /\ r \in OptionRequest /\ r.do = x.do /\ r.kind = x.kind /\ r.item = x.item
      /\ r.gone = x.gone /\ r.stage = x.stage /\ r.answer = a
  BY <1>5, <1>6 DEF OptionRequest
<1> QED BY <1>3, <1>5, <1>7

\* The other requests stay in order over a change, and load what they would.
LEMMA OutrunStep ==
  ASSUME OptionsInv, NEW P \in SUBSET requests, tab' = tab,
         \A i : OfOptions(i) => OfOptions(i)', \A i : OfTypes(i) => OfTypes(i)'
  PROVE  /\ \A r \in Outrun(P) : r \in OptionRequest /\ RequestOK(r)'
         /\ \A x \in P : Loads(x) => \E r \in Outrun(P) : Loads(r)'
<1>1. ASSUME NEW x \in P
      PROVE  LET r == [x EXCEPT !.answer.behind = @ \/ x.stage = "ok"]
             IN  r \in OptionRequest /\ RequestOK(r)' /\ (Loads(x) => Loads(r)')
  <2>1. x \in OptionRequest /\ RequestOK(x)
    BY DEF OptionsInv, OptionTypes
  <2>2. PICK r \in {[x EXCEPT !.answer.behind = @ \/ x.stage = "ok"]} : TRUE
    OBVIOUS
  <2>3. /\ r \in OptionRequest /\ r.do = x.do /\ r.kind = x.kind /\ r.item = x.item
        /\ r.gone = x.gone /\ r.stage = x.stage /\ r.answer.of = x.answer.of
        /\ r.answer.rows = x.answer.rows /\ (x.stage = "ok" => r.answer.behind)
    BY <2>1, <2>2, OutrunFacts
  <2>4. RequestOK(r)'
    BY <2>1, <2>3 DEF RequestOK, OfPage
  <2>5. Loads(x) => Loads(r)'
    BY <2>3 DEF Loads
  <2> QED BY <2>2, <2>3, <2>4, <2>5
<1> QED BY <1>1 DEF Outrun

\* Both tables, where they are only marked.
LEMMA TablesStep ==
  ASSUME OptionsInv, NEW b \in BOOLEAN,
         \A i : OfOptions(i) => OfOptions(i)', \A i : OfTypes(i) => OfTypes(i)',
         table' = [table EXCEPT !.behind = @ \/ b], groups' = [groups EXCEPT !.behind = @ \/ b]
  PROVE  /\ table' \in RowTable /\ groups' \in RowTable
         /\ \A i \in DOMAIN table'.rows : OfOptions(i)'
         /\ \A i \in DOMAIN groups'.rows : OfTypes(i)'
         /\ table'.of = table.of /\ table'.rows = table.rows /\ table'.late = table.late
         /\ groups'.of = groups.of /\ groups'.rows = groups.rows /\ groups'.late = groups.late
         /\ table'.behind <=> table.behind \/ b
         /\ groups'.behind <=> groups.behind \/ b
<1>1. table \in RowTable /\ groups \in RowTable
  BY DEF OptionsInv, OptionTypes
<1>2. /\ table' \in RowTable /\ table'.of = table.of /\ table'.rows = table.rows
      /\ table'.late = table.late /\ (table'.behind <=> table.behind \/ b)
  BY <1>1, BehindFacts
<1>3. /\ groups' \in RowTable /\ groups'.of = groups.of /\ groups'.rows = groups.rows
      /\ groups'.late = groups.late /\ (groups'.behind <=> groups.behind \/ b)
  BY <1>1, BehindFacts
<1> QED BY <1>2, <1>3 DEF OptionsInv

\* The server makes a change: the answer will load it, unless its page is gone.
LEMMA CarryDoneStep ==
  ASSUME OptionsInv, NEW c \in requests, NEW inUse \in BOOLEAN, Carry(c, inUse),
         c.do # "list", Allowed(c, inUse)
  PROVE  OptionsInv'
<1>1. /\ c \in OptionRequest /\ RequestOK(c) /\ c.kind \in Kinds /\ c.gone \in BOOLEAN
  BY DEF OptionsInv, OptionTypes, OptionRequest
<1>2. PICK r \in {[c EXCEPT !.stage = "ok"]} : TRUE
  OBVIOUS
<1>3. /\ r \in OptionRequest /\ r.do = c.do /\ r.kind = c.kind /\ r.item = c.item
      /\ r.gone = c.gone /\ r.stage = "ok"
  BY <1>1, <1>2 DEF OptionRequest
<1>4. /\ UNCHANGED <<tab, editing, errors, clicks>> /\ c.stage = "asked" /\ item' \in Change(c)
      /\ requests' = Outrun(requests \ {c}) \cup {r}
      /\ table' = [table EXCEPT !.behind = @ \/ c.gone]
      /\ groups' = [groups EXCEPT !.behind = @ \/ c.gone]
  BY <1>2 DEF Carry, Idly, Quietly
<1>5. /\ item' \in [Item -> ItemRow]
      /\ \A i : OfOptions(i) => OfOptions(i)'
      /\ \A i : OfTypes(i) => OfTypes(i)'
      /\ c.kind # "documentType" => RowsOf("documentType")' = RowsOf("documentType")
  BY <1>4, ItemsChange
<1>6. PICK P \in SUBSET requests : P = requests \ {c}
  OBVIOUS
<1>7. /\ \A q \in Outrun(P) : q \in OptionRequest /\ RequestOK(q)'
      /\ \A x \in P : Loads(x) => \E q \in Outrun(P) : Loads(q)'
  BY <1>4, <1>5, OutrunStep
<1>8. requests' = Outrun(P) \cup {r}
  BY <1>4, <1>6
<1>9. RequestOK(r)'
  BY <1>1, <1>3, <1>4, <1>5 DEF RequestOK, OfPage
<1>10. requests' \subseteq OptionRequest /\ \A q \in requests' : RequestOK(q)'
  BY <1>3, <1>7, <1>8, <1>9
<1>11. /\ table' \in RowTable /\ groups' \in RowTable
       /\ \A i \in DOMAIN table'.rows : OfOptions(i)'
       /\ \A i \in DOMAIN groups'.rows : OfTypes(i)'
       /\ groups'.of = groups.of /\ groups'.rows = groups.rows /\ groups'.late = groups.late
       /\ table'.behind <=> table.behind \/ c.gone
       /\ groups'.behind <=> groups.behind \/ c.gone
  BY <1>1, <1>4, <1>5, TablesStep
<1>12. DisplayOK'
  <2>1. CASE c.gone
    BY <1>11, <2>1 DEF DisplayOK, Fine
  <2>2. CASE ~c.gone /\ PageOf(c.kind) = PageOf(tab)
    <3>1. Loads(r)'
      BY <1>3, <1>4, <2>2 DEF Loads
    <3> QED BY <1>8, <3>1 DEF DisplayOK
  <2>3. CASE ~c.gone /\ PageOf(c.kind) # PageOf(tab)
    <3>1. c.kind # "documentType" /\ tab = "documentType"
      BY <1>1, <2>3 DEF PageOf, RequestOK
    <3>2. Fine(groups) => Fine(groups)'
      BY <1>4, <1>5, <1>11, <3>1 DEF Fine
    <3>3. ~Loads(c)
      BY <2>3 DEF Loads
    <3>4. (\E x \in requests : Loads(x)) => \E q \in requests' : Loads(q)'
      BY <1>6, <1>7, <1>8, <3>3
    <3>5. Fine(groups) \/ PageOf(tab) \in errors \/ \E x \in requests : Loads(x)
      BY <3>1 DEF OptionsInv, DisplayOK
    <3>6. tab' = "documentType" /\ errors' = errors
      BY <1>4, <3>1
    <3> QED BY <3>1, <3>2, <3>4, <3>5, <3>6 DEF DisplayOK
  <2> QED BY <2>1, <2>2, <2>3
<1>13. OptionTypes'
  BY <1>4, <1>5, <1>10, <1>11 DEF OptionsInv, OptionTypes
<1> QED BY <1>4, <1>10, <1>11, <1>12, <1>13 DEF OptionsInv

\* Another administrator makes a change: what was read is behind.
LEMMA StrangeStep ==
  ASSUME OptionsInv, NEW i \in Item, Strange(i) PROVE OptionsInv'
<1>1. /\ UNCHANGED <<tab, editing, errors, clicks>> /\ There(i)
      /\ item' = [item EXCEPT ![i].active = ~@] /\ requests' = Outrun(requests)
      /\ table' = [table EXCEPT !.behind = @ \/ TRUE]
      /\ groups' = [groups EXCEPT !.behind = @ \/ TRUE]
  BY DEF Strange
<1>2. item \in [Item -> ItemRow]
  BY DEF OptionsInv, OptionTypes
<1>3. PICK row \in {[item[i] EXCEPT !.active = ~@]} : TRUE
  OBVIOUS
<1>4. row \in ItemRow /\ row.kind = item[i].kind
  BY <1>2, <1>3 DEF ItemRow
<1>5. item' = [item EXCEPT ![i] = row]
  BY <1>1, <1>3
<1>6. OfTypes(i) => item[i].kind = "documentType"
  BY <1>1 DEF OfTypes, There, Deleted, NoItem
<1>7. OfOptions(i) => item[i].kind \in Kinds \ {"documentType"}
  BY DEF OfOptions
<1>8. /\ item' \in [Item -> ItemRow]
      /\ \A j : OfOptions(j) => OfOptions(j)'
      /\ \A j : OfTypes(j) => OfTypes(j)'
  BY <1>2, <1>4, <1>5, <1>6, <1>7, OneItem
<1>9. PICK P \in SUBSET requests : P = requests
  OBVIOUS
<1>10. \A q \in Outrun(P) : q \in OptionRequest /\ RequestOK(q)'
  BY <1>1, <1>8, OutrunStep
<1>11. requests' \subseteq OptionRequest /\ \A q \in requests' : RequestOK(q)'
  BY <1>1, <1>9, <1>10
<1>12. /\ table' \in RowTable /\ groups' \in RowTable
       /\ \A j \in DOMAIN table'.rows : OfOptions(j)'
       /\ \A j \in DOMAIN groups'.rows : OfTypes(j)'
       /\ table'.behind /\ groups'.behind
  BY <1>1, <1>8, TablesStep
<1>13. DisplayOK'
  BY <1>12 DEF DisplayOK, Fine
<1>14. OptionTypes'
  BY <1>1, <1>8, <1>11, <1>12 DEF OptionsInv, OptionTypes
<1> QED BY <1>1, <1>11, <1>12, <1>13, <1>14 DEF OptionsInv

-----------------------------------------------------------------------------
\* The rest of the invariant, where the items and the tab are as they were, but the
\* tables need not be.
LEMMA TablesRest ==
  ASSUME OptionsInv, UNCHANGED <<item, tab, clicks>>, editing' \in {editing, "none"},
         errors' \subseteq {"docs", "options"}, table' \in RowTable, groups' \in RowTable,
         requests' \subseteq OptionRequest, \A r \in requests' : r \notin requests => RequestOK(r)',
         \A i \in DOMAIN table'.rows : OfOptions(i), \A i \in DOMAIN groups'.rows : OfTypes(i),
         DisplayOK'
  PROVE  OptionsInv'
<1>1. OptionTypes'
  BY DEF OptionsInv, OptionTypes
<1>2. ASSUME NEW r \in requests PROVE RequestOK(r)'
  <2>1. RequestOK(r)
    BY DEF OptionsInv
  <2> QED BY <2>1 DEF RequestOK, OfPage, OfTypes, OfOptions, RowsOf
<1>3. (\A i \in DOMAIN table'.rows : OfOptions(i)') /\ \A i \in DOMAIN groups'.rows : OfTypes(i)'
  BY DEF OfOptions, OfTypes
<1> QED BY <1>1, <1>2, <1>3 DEF OptionsInv

\* A list comes: it is shown as late, as behind, or as what is stored.
LEMMA ShowRowsStep ==
  ASSUME OptionsInv, NEW c \in requests, ShowRows(c) PROVE OptionsInv'
<1>1. /\ c \in OptionRequest /\ RequestOK(c) /\ c.kind \in Kinds /\ c.answer \in RowTable
      /\ requests \subseteq OptionRequest /\ table \in RowTable /\ groups \in RowTable
      /\ tab \in Kinds
  BY DEF OptionsInv, OptionTypes, OptionRequest
<1>2. PICK late \in {c.kind # tab} : TRUE
  OBVIOUS
<1>3. late \in BOOLEAN /\ (late <=> c.kind # tab)
  BY <1>2
<1>4. PICK d \in {[c.answer EXCEPT !.late = late]} : TRUE
  OBVIOUS
<1>5. /\ d \in RowTable /\ d.of = c.answer.of /\ d.rows = c.answer.rows
      /\ d.behind = c.answer.behind /\ d.late = late
  BY <1>1, <1>3, <1>4 DEF RowTable
<1>6. /\ UNCHANGED <<item, tab, editing, errors, clicks>> /\ requests' = requests \ {c}
      /\ c.do = "list" /\ c.stage = "ok"
      /\ \/ c.gone /\ UNCHANGED <<table, groups>>
         \/ ~c.gone /\ PageOf(c.kind) = "docs" /\ groups' = d /\ UNCHANGED table
         \/ ~c.gone /\ PageOf(c.kind) = "options" /\ table' = d /\ UNCHANGED groups
  BY <1>2, <1>4 DEF ShowRows, Idly, Quietly
<1>7. c.kind = tab => Fine(d)
  BY <1>1, <1>5, <1>6 DEF Fine, RequestOK
<1>8. c.kind # tab => Fine(d)
  BY <1>3, <1>5 DEF Fine
<1>9. Fine(d)'
  BY <1>6, <1>7, <1>8 DEF Fine, RowsOf
<1>10. \A x \in requests' : Loads(x) => Loads(x)'
  BY <1>6 DEF Loads
<1>11. \A i \in DOMAIN d.rows : OfPage(c.kind, i)
  BY <1>1, <1>5, <1>6 DEF RequestOK
<1>12. CASE c.gone /\ UNCHANGED <<table, groups>>
  <2>1. ~Loads(c)
    BY <1>12 DEF Loads
  <2>2. DisplayOK'
    BY <1>6, <1>10, <1>12, <2>1, DisplayKept DEF OptionsInv
  <2> QED BY <1>1, <1>6, <1>12, <2>2, TablesRest DEF OptionsInv, OptionTypes
<1>13. CASE ~c.gone /\ PageOf(c.kind) = "docs" /\ groups' = d /\ UNCHANGED table
  <2>1. c.kind = "documentType" /\ tab = "documentType"
    BY <1>1, <1>13 DEF RequestOK, PageOf
  <2>2. Fine(groups)'
    BY <1>9, <1>13
  <2>3. DisplayOK'
    BY <1>6, <2>1, <2>2 DEF DisplayOK
  <2>4. \A i \in DOMAIN groups'.rows : OfTypes(i)
    BY <1>11, <1>13, <2>1 DEF OfPage
  <2> QED BY <1>1, <1>5, <1>6, <1>13, <2>3, <2>4, TablesRest DEF OptionsInv, OptionTypes
<1>14. CASE ~c.gone /\ PageOf(c.kind) = "options" /\ table' = d /\ UNCHANGED groups
  <2>1. c.kind # "documentType"
    BY <1>14 DEF PageOf
  <2>2. \A i \in DOMAIN table'.rows : OfOptions(i)
    BY <1>11, <1>14, <2>1 DEF OfPage
  <2>3. DisplayOK'
    <3>1. CASE tab = "documentType"
      <4>1. ~Loads(c)
        BY <1>14, <3>1 DEF Loads, PageOf
      <4>2. Fine(groups) => Fine(groups)'
        BY <1>6, <1>14 DEF Fine, RowsOf
      <4>3. Fine(groups) \/ PageOf(tab) \in errors \/ \E x \in requests : Loads(x)
        BY <3>1 DEF OptionsInv, DisplayOK
      <4> QED BY <1>6, <1>10, <3>1, <4>1, <4>2, <4>3 DEF DisplayOK
    <3>2. CASE tab # "documentType"
      <4>1. Fine(table)'
        BY <1>9, <1>14
      <4> QED BY <1>6, <3>2, <4>1 DEF DisplayOK
    <3> QED BY <3>1, <3>2
  <2> QED BY <1>1, <1>5, <1>6, <1>14, <2>2, <2>3, TablesRest DEF OptionsInv, OptionTypes
<1> QED BY <1>6, <1>12, <1>13, <1>14

\* After load() the page will show its list.
LEMMA ReloadStep ==
  ASSUME OptionsInv, NEW c \in requests, Reload(c, requests \ {c}), ~c.gone, c.do # "list",
         UNCHANGED <<item, tab, table, groups, clicks>>, editing' \in {editing, "none"}
  PROVE  OptionsInv'
<1>1. /\ c \in OptionRequest /\ RequestOK(c) /\ c.kind \in Kinds /\ clicks \in Nat
      /\ requests \subseteq OptionRequest /\ tab \in Kinds
  BY DEF OptionsInv, OptionTypes, OptionRequest
<1>2. PICK b \in {c.do = "add"} : TRUE
  OBVIOUS
<1>3. b \in BOOLEAN
  BY <1>2
<1>4. PICK r \in {[Lists(c.kind) EXCEPT !.on = b]} : TRUE
  OBVIOUS
<1>5. /\ r \in OptionRequest /\ r.kind = c.kind /\ r.do = "list" /\ r.gone = FALSE
      /\ r.stage = "asked"
  <2> DEFINE q == Lists(c.kind)
  <2>1. q \in OptionRequest /\ q.kind = c.kind /\ q.do = "list" /\ q.gone = FALSE /\ q.stage = "asked"
    BY <1>1, ListsFacts
  <2>2. r = [q EXCEPT !.on = b]
    BY <1>4
  <2> HIDE DEF q
  <2> QED BY <1>3, <2>1, <2>2 DEF OptionRequest
<1>6. requests' = (requests \ {c}) \cup {r} /\ errors' = errors \ {PageOf(c.kind)}
  BY <1>2, <1>4 DEF Reload
<1>7. RequestOK(r)'
  BY <1>1, <1>5 DEF RequestOK
<1>8. DisplayOK'
  <2>1. CASE PageOf(c.kind) = PageOf(tab)
    BY <1>5, <1>6, <2>1 DEF DisplayOK, Loads
  <2>2. CASE PageOf(c.kind) # PageOf(tab)
    <3>1. ~Loads(c)
      BY <2>2 DEF Loads
    <3>2. \A x \in requests : Loads(x) => Loads(x)'
      BY DEF Loads
    <3> QED BY <1>6, <2>2, <3>1, <3>2 DEF OptionsInv, DisplayOK, Fine, RowsOf
  <2> QED BY <2>1, <2>2
<1>9. requests' \subseteq OptionRequest
  BY <1>1, <1>5, <1>6
<1> QED BY <1>6, <1>7, <1>8, <1>9, TablesRest DEF OptionsInv, OptionTypes

\* The answer to a change comes: its page loads its list again.
LEMMA CallAnsweredStep ==
  ASSUME OptionsInv, NEW c \in requests, CallAnswered(c) PROVE OptionsInv'
<1>1. /\ UNCHANGED <<item, tab, table, groups, clicks>> /\ editing' \in {editing, "none"}
      /\ c.do # "list"
  BY DEF CallAnswered, Quietly
<1>2. CASE c.gone
  <2>1. requests' = requests \ {c} /\ errors' = errors
    BY <1>2 DEF CallAnswered
  <2>2. ~Loads(c)
    BY <1>2 DEF Loads
  <2>3. \A x \in requests : Loads(x) => Loads(x)'
    BY <1>1 DEF Loads
  <2>4. DisplayOK'
    BY <1>1, <2>1, <2>2, <2>3, DisplayKept DEF OptionsInv
  <2> QED BY <1>1, <2>1, <2>4, TablesRest DEF OptionsInv, OptionTypes
<1>3. CASE ~c.gone
  BY <1>1, <1>3, ReloadStep DEF CallAnswered
<1> QED BY <1>2, <1>3

\* A request fails: the error, the mark or another load excuses the display.
LEMMA FailedStep ==
  ASSUME OptionsInv, NEW c \in requests, NEW done \in BOOLEAN, Failed(c, done), clicks' = clicks,
         c.stage = "ok" => done
  PROVE  OptionsInv'
<1>1. UNCHANGED <<item, tab, editing, clicks>> /\ c \in OptionRequest /\ c.kind \in Kinds
  BY DEF Failed, OptionsInv, OptionTypes, OptionRequest
<1>2. CASE c.do = "cap" /\ ~c.gone
  <2>1. Reload(c, requests \ {c}) /\ UNCHANGED <<table, groups>>
    BY <1>2 DEF Failed, ReloadAfterFailure
  <2> QED BY <1>1, <1>2, <2>1, ReloadStep
<1>3. CASE c.do # "cap" \/ c.gone
  <2>1. PICK b \in {done /\ c.do \notin {"list", "cap"}} : TRUE
    OBVIOUS
  <2>2. b \in BOOLEAN /\ (b <=> done /\ c.do \notin {"list", "cap"})
    BY <2>1
  <2>3. /\ requests' = requests \ {c}
        /\ errors' = IF c.do = "list" /\ ~c.gone THEN errors \cup {PageOf(c.kind)} ELSE errors
        /\ table' = [table EXCEPT !.behind = @ \/ b]
        /\ groups' = [groups EXCEPT !.behind = @ \/ b]
    BY <1>3, <2>1 DEF Failed, ReloadAfterFailure
  <2>4. (\A i : OfOptions(i) => OfOptions(i)') /\ \A i : OfTypes(i) => OfTypes(i)'
    BY <1>1 DEF OfOptions, OfTypes
  <2>5. /\ table' \in RowTable /\ groups' \in RowTable
        /\ table'.of = table.of /\ table'.rows = table.rows /\ table'.late = table.late
        /\ groups'.of = groups.of /\ groups'.rows = groups.rows /\ groups'.late = groups.late
        /\ table'.behind <=> table.behind \/ b
        /\ groups'.behind <=> groups.behind \/ b
    BY <2>2, <2>3, <2>4, TablesStep
  <2>6. \A x \in requests : Loads(x) => Loads(x)'
    BY <1>1 DEF Loads
  <2>7. /\ Fine(table) => Fine(table)'
        /\ Fine(groups) => Fine(groups)'
    BY <1>1, <2>5 DEF Fine, RowsOf
  <2>8. Loads(c) => b \/ PageOf(tab) \in errors'
    BY <1>3, <2>2, <2>3 DEF Loads
  <2>9. b => Fine(table)' /\ Fine(groups)'
    BY <2>5 DEF Fine
  <2>10. DisplayOK'
    BY <1>1, <2>3, <2>6, <2>7, <2>8, <2>9 DEF OptionsInv, DisplayOK
  <2>11. errors' \subseteq {"docs", "options"}
    BY <2>3 DEF OptionsInv, OptionTypes, PageOf
  <2> QED BY <1>1, <2>3, <2>5, <2>10, <2>11, TablesRest DEF OptionsInv, OptionTypes
<1> QED BY <1>2, <1>3

-----------------------------------------------------------------------------
\* The invariant holds of the page as it is opened.
LEMMA OptionsInvInit == OptionsInit => OptionsInv
<1> SUFFICES ASSUME OptionsInit PROVE OptionsInv
  OBVIOUS
<1>1. /\ tab = "documentType" /\ table = NoRows /\ groups = NoRows /\ editing = "none"
      /\ errors = {} /\ clicks = 0 /\ requests = {Lists("documentType")}
  BY DEF OptionsInit
<1>2. item \in [Item -> ItemRow]
  <2>1. NoItem \in ItemRow
    BY DEF NoItem, ItemRow, Texts
  <2>2. ASSUME NEW i \in Item, NEW k \in Kinds PROVE Seeded(k, i) \in ItemRow
    BY SeededFacts DEF Texts
  <2> QED BY <2>1, <2>2 DEF OptionsInit, Kinds
<1>3. PICK r \in {Lists("documentType")} : TRUE
  OBVIOUS
<1>4. /\ r \in OptionRequest /\ r.kind = "documentType" /\ r.do = "list" /\ r.gone = FALSE
      /\ r.stage = "asked"
  BY <1>1, <1>3, ListsFacts DEF Kinds
<1>5. RequestOK(r)
  BY <1>1, <1>4, ListsOK DEF Kinds
<1>6. Loads(r)
  BY <1>1, <1>4 DEF Loads
<1>7. OptionTypes
  BY <1>1, <1>2, <1>3, <1>4, NoRowsFacts DEF OptionTypes, Kinds
<1> QED BY <1>1, <1>3, <1>5, <1>6, <1>7, NoRowsFacts DEF OptionsInv, DisplayOK

\* Every step keeps the invariant.
LEMMA OptionsInvStep == OptionsInv /\ [OptionsNext]_optionsVars => OptionsInv'
<1> SUFFICES ASSUME OptionsInv, [OptionsNext]_optionsVars PROVE OptionsInv'
  OBVIOUS
<1>1. ASSUME NEW kind \in Kinds, setKind(kind) PROVE OptionsInv'
  BY <1>1, SetKindStep
<1>2. ASSUME NEW v \in Label, submitAdd(v) \/ saveEdit(v) PROVE OptionsInv'
  BY <1>2, TypingStep
<1>3. ASSUME NEW i \in Item, openEdit(i) \/ setActive(i) \/ toggleCap(i) \/ doDelete(i) \/ Strange(i)
      PROVE  OptionsInv'
  BY <1>3, OpenEditStep, ClicksStep, StrangeStep
<1>4. CASE RetryList
  BY <1>4, RetryListStep
<1>5. ASSUME NEW c \in requests, NEW inUse \in BOOLEAN, Carry(c, inUse) PROVE OptionsInv'
  BY <1>5, CarryListStep, CarryDoneStep, CarryRefusedStep
<1>6. ASSUME NEW c \in requests, ShowRows(c) \/ CallAnswered(c) \/ RefusedCall(c) \/ LostCall(c)
      PROVE  OptionsInv'
  <2>1. CASE RefusedCall(c)
    BY <2>1, FailedStep DEF RefusedCall, Quietly
  <2>2. CASE LostCall(c)
    BY <2>2, FailedStep DEF LostCall
  <2> QED BY <1>6, <2>1, <2>2, ShowRowsStep, CallAnsweredStep
<1>7. CASE UNCHANGED optionsVars
  <2>1. UNCHANGED <<item, tab, table, groups, editing, errors, requests, clicks>>
    BY <1>7 DEF optionsVars
  <2>2. DisplayOK'
    BY <2>1, DisplayStays DEF OptionsInv
  <2> QED BY <2>1, <2>2, OptionsRest DEF OptionsInv, OptionTypes
<1> QED BY <1>1, <1>2, <1>3, <1>4, <1>5, <1>6, <1>7 DEF OptionsNext

\* When all is answered, what a tab shows is stored, or excused.
LEMMA OptionsAreSound == OptionsInv => ShownIsStored
<1> SUFFICES ASSUME OptionsInv, requests = {}, errors = {}
             PROVE  Fine(IF tab = "documentType" THEN groups ELSE table)
  BY DEF ShownIsStored, Fine
<1> QED BY DEF OptionsInv, DisplayOK

-----------------------------------------------------------------------------
(***************************************************************************)
(* The bell.                                                               *)
(***************************************************************************)
\* A finite set of numbers has a largest one: the sets of those above one of them
\* are well-founded.
LEMMA LargestExists ==
  ASSUME NEW S, IsFiniteSet(S), S \subseteq Int, S # {}
  PROVE  \E n \in S : \A m \in S : m <= n
<1> DEFINE Above(n) == {m \in S : m > n}
           T == {Above(n) : n \in S}
<1>1. T \subseteq FiniteSubsetsOf(S) /\ T # {}
  <2>1. \A n \in S : Above(n) \in FiniteSubsetsOf(S)
    BY FS_Subset DEF FiniteSubsetsOf
  <2> QED
    BY <2>1
<1>2. PICK x \in T : \A y \in T : ~ (<<y, x>> \in StrictSubsetOrdering(S))
  BY <1>1, FS_StrictSubsetOrderingWellFounded, WFMin
<1>3. PICK n \in S : x = Above(n)
  OBVIOUS
<1>4. ASSUME NEW m \in S, m > n PROVE FALSE
  <2>1. m \in x /\ m \notin Above(m)
    BY <1>3, <1>4
  <2>2. \A k \in S : k > m => k > n
    BY <1>4
  <2>3. <<Above(m), x>> \in StrictSubsetOrdering(S)
    <3>1. Above(m) \subseteq x
      BY <2>2, <1>3
    <3>2. Above(m) \subseteq S /\ x \subseteq S
      BY <1>3
    <3> HIDE DEF Above
    <3> QED
      BY <2>1, <3>1, <3>2 DEF StrictSubsetOrdering
  <2> QED
    BY <1>2, <2>3
<1> QED
  BY <1>4

-----------------------------------------------------------------------------
(***************************************************************************)
(* The bell: work that waits rings.                                        *)
(***************************************************************************)
Note == [to : Role, kind : Status \cup {"EscalateWarn", "EscalateOverdue"},
         waiting : Status \cup {"none"}]
CameBy == {"create", "undo"} \cup {e.event : e \in Edges}

\* The first note of a visit is for the group the ticket waits for, and all of the
\* others tell of the same visit.
VisitInv ==
  /\ paper \in [flow : Flow, status : Status, by : CameBy]
  /\ notes \in Seq(Note)
  /\ visit \in 0..Len(notes)
  /\ paper.status \in DOMAIN Inbox =>
       /\ visit < Len(notes)
       /\ notes[visit + 1].to = Inbox[paper.status]
       /\ \A n \in DOMAIN notes : n > visit => notes[n].waiting = paper.status

\* Who finds what waits for a role.
LEMMA InboxFacts ==
  /\ DOMAIN Inbox = {"Submitted", "SubmittedToDcc2", "SubmittedToDcc2Hardcopy", "SubmittedToDcc3"}
  /\ Inbox["Submitted"] = "DCC1" /\ Inbox["SubmittedToDcc3"] = "DCC3"
  /\ Inbox["SubmittedToDcc2"] = "DCC2" /\ Inbox["SubmittedToDcc2Hardcopy"] = "DCC2"
BY DEF Inbox

\* Edges run between statuses, under the roles.
LEMMA EdgeKinds ==
  \A e \in Edges : e.from \in Status /\ e.to \in Status /\ e.owner \in Role
BY DEF Edges, SharedEdges, GeneralEdges, ContractEdges, PaymentEdges, Plain, Reversible,
   HeavyReturn, EdgeOf, Status, Role

\* Who may take a paper that waits at a handover is whom the trigger tells.
LEMMA TakersAreTold ==
  \A e \in Edges : e.from \in HandoverStates /\ e.event # "sendBack" => e.owner = Inbox[e.from]
BY InboxFacts DEF Edges, SharedEdges, GeneralEdges, ContractEdges, PaymentEdges, Plain, Reversible,
   HeavyReturn, EdgeOf, HandoverStates

\* The trigger files one note, and to the group that is waited for.
LEMMA TriggerFiles ==
  ASSUME NEW s \in Status
  PROVE  /\ notify_center_on_change(s) \in Seq(Note)
         /\ s \in DOMAIN Inbox =>
              notify_center_on_change(s) = <<[to |-> Inbox[s], kind |-> s, waiting |-> s]>>
<1>1. CASE s \in {"Completed", "Returned"}
  <2>1. notify_center_on_change(s) = <<[to |-> "Applicant", kind |-> s, waiting |-> "none"]>>
    BY <1>1, InboxFacts DEF notify_center_on_change
  <2>2. [to |-> "Applicant", kind |-> s, waiting |-> "none"] \in Note
    BY DEF Note, Role
  <2> QED
    BY <1>1, <2>1, <2>2, InboxFacts
<1>2. CASE s \in DOMAIN Inbox
  <2>1. Inbox[s] \in Role /\ s \notin {"Completed", "Returned"}
    BY <1>2, InboxFacts DEF Role
  <2>2. notify_center_on_change(s) = <<[to |-> Inbox[s], kind |-> s, waiting |-> s]>>
    BY <1>2, <2>1 DEF notify_center_on_change
  <2>3. [to |-> Inbox[s], kind |-> s, waiting |-> s] \in Note
    BY <2>1 DEF Note
  <2> QED
    BY <2>2, <2>3
<1>3. CASE s \notin {"Completed", "Returned"} /\ s \notin DOMAIN Inbox
  <2>1. notify_center_on_change(s) = << >>
    BY <1>3 DEF notify_center_on_change
  <2> QED
    BY <1>3, <2>1
<1> QED
  BY <1>1, <1>2, <1>3

\* The visit to a status survives the next arrival.
LEMMA ArriveKeepsVisit ==
  ASSUME VisitInv, NEW s \in Status, NEW by \in CameBy, Arrive(s, by)
  PROVE  VisitInv'
<1> DEFINE filed == notify_center_on_change(s)
<1>1. notes' = notes \o filed /\ visit' = Len(notes)
      /\ paper' = [paper EXCEPT !.status = s, !.by = by]
  BY DEF Arrive
<1>2. filed \in Seq(Note) /\ notes \in Seq(Note)
  BY TriggerFiles DEF VisitInv
<1>3. paper' \in [flow : Flow, status : Status, by : CameBy] /\ paper'.status = s
  BY <1>1 DEF VisitInv
<1>4. notes' \in Seq(Note) /\ visit' \in 0..Len(notes')
  BY <1>1, <1>2
<1>5. ASSUME s \in DOMAIN Inbox
      PROVE  /\ visit' < Len(notes')
             /\ notes'[visit' + 1].to = Inbox[s]
             /\ \A n \in DOMAIN notes' : n > visit' => notes'[n].waiting = s
  <2> DEFINE note == [to |-> Inbox[s], kind |-> s, waiting |-> s]
  <2>1. filed = <<note>>
    BY <1>5, TriggerFiles
  <2>2. Len(notes') = Len(notes) + 1 /\ notes'[Len(notes) + 1] = note
    BY <1>1, <1>2, <2>1
  <2>3. DOMAIN notes' = 1..(Len(notes) + 1)
    BY <1>4, <2>2
  <2>4. Len(notes) \in Nat
    BY <1>2
  <2> QED
    BY <1>1, <2>2, <2>3, <2>4
<1> QED
  BY <1>3, <1>4, <1>5 DEF VisitInv

\* ... and an escalation.
LEMMA EscalationKeepsVisit ==
  ASSUME VisitInv, PostEscalation
  PROVE  VisitInv'
<1>1. PICK kind \in {"EscalateWarn", "EscalateOverdue"},
           to \in {e.owner : e \in {x \in Edges : x.from = paper.status}} \ {"Applicant"} :
        notes' = Append(notes, [to |-> to, kind |-> kind, waiting |-> paper.status])
  BY DEF PostEscalation
<1> DEFINE note == [to |-> to, kind |-> kind, waiting |-> paper.status]
<1>2. note \in Note /\ notes \in Seq(Note) /\ UNCHANGED <<paper, visit>>
  <2>1. to \in Role /\ paper.status \in Status /\ notes \in Seq(Note)
    BY EdgeKinds DEF VisitInv
  <2> QED
    BY <2>1 DEF PostEscalation, Note
<1>3. /\ notes' \in Seq(Note) /\ Len(notes') = Len(notes) + 1 /\ Len(notes) \in Nat
      /\ \A n \in 1..Len(notes) : notes'[n] = notes[n]
      /\ notes'[Len(notes) + 1] = note
  BY <1>1, <1>2
<1>4. DOMAIN notes' = 1..(Len(notes) + 1) /\ DOMAIN notes = 1..Len(notes)
  BY <1>2, <1>3
<1> QED
  BY <1>2, <1>3, <1>4 DEF VisitInv

\* ... and every step.
LEMMA VisitStep ==
  ASSUME VisitInv, [NoticesNext]_noticesVars
  PROVE  VisitInv'
<1>1. CASE FollowEdge \/ UndoEdge
  <2>1. \E s \in Status, by \in CameBy : Arrive(s, by)
    <3>1. \A e \in Edges : e.from \in Status /\ e.to \in Status /\ e.event \in CameBy
      BY EdgeKinds DEF CameBy
    <3>2. "undo" \in CameBy
      BY DEF CameBy
    <3> QED
      BY <1>1, <3>1, <3>2 DEF FollowEdge, UndoEdge
  <2> QED
    BY <2>1, ArriveKeepsVisit
<1>2. CASE PostEscalation
  BY <1>2, EscalationKeepsVisit
<1>3. CASE UNCHANGED <<paper, notes, visit>>
  BY <1>3 DEF VisitInv
<1> QED
  BY <1>1, <1>2, <1>3 DEF NoticesNext, Ring, ServeList, ShowList, ListFails, openItem, clearAll,
     MarkRead, MarkFails, Centre, noticesVars

-----------------------------------------------------------------------------
\* The notes to the reader, and those of them the list shows.
MineNotes == {n \in DOMAIN notes : notes[n].to = reader}
Newest == {n \in MineNotes : Cardinality({m \in MineNotes : m > n}) < BellLimit}

\* What the server answers a bell.
LEMMA ListIs ==
  list = [items  |-> [n \in Newest |-> isRead(n)],
          unread |-> Cardinality({n \in Newest : ~isRead(n)})]
<1> DEFINE items == [n \in Newest |-> isRead(n)]
<1>1. {n \in Newest : ~items[n]} = {n \in Newest : ~isRead(n)}
  OBVIOUS
<1>2. list = [items |-> items, unread |-> Cardinality({n \in Newest : ~items[n]})]
  BY DEF list, MineNotes, Newest
<1> QED
  BY <1>1, <1>2

\* The newest note to a reader is shown; of a visit nobody marked, it is unread.
LEMMA VisitRings ==
  ASSUME VisitInv
  PROVE  WaitingRings
<1> SUFFICES ASSUME \/ paper.status = "Submitted" /\ reader = "DCC1"
                    \/ /\ paper.status \in HandoverStates
                       /\ \E e \in Edges : e.from = paper.status /\ e.owner = reader
                                           /\ e.event # "sendBack",
                    \A n \in marks : n <= visit
             PROVE  \E n \in DOMAIN list.items : ~list.items[n] /\ notes[n].waiting = paper.status
  BY DEF WaitingRings
<1>1. paper.status \in DOMAIN Inbox /\ Inbox[paper.status] = reader
  BY InboxFacts, TakersAreTold DEF HandoverStates
<1>2. /\ visit \in Nat /\ visit + 1 \in DOMAIN notes /\ visit + 1 \in MineNotes
      /\ \A n \in DOMAIN notes : n > visit => notes[n].waiting = paper.status
  BY <1>1 DEF VisitInv, MineNotes
<1>3. IsFiniteSet(MineNotes) /\ MineNotes \subseteq Int
  <2>1. DOMAIN notes = 1..Len(notes) /\ Len(notes) \in Nat
    BY DEF VisitInv
  <2>2. IsFiniteSet(1..Len(notes))
    BY <2>1, FS_Interval
  <2>3. MineNotes \subseteq 1..Len(notes)
    BY <2>1 DEF MineNotes
  <2> QED
    <3>1. IsFiniteSet(MineNotes)
      BY <2>2, <2>3, FS_Subset
    <3>2. 1..Len(notes) \subseteq Int
      BY <2>1
    <3> QED
      BY <2>3, <3>1, <3>2
<1>4. PICK n \in MineNotes : \A m \in MineNotes : m <= n
  BY <1>2, <1>3, LargestExists
<1>5. n \in Newest
  <2>1. {m \in MineNotes : m > n} = {}
    <3>1. \A m \in MineNotes : ~(m > n)
      BY <1>3, <1>4
    <3> QED
      BY <3>1
  <2> QED
    BY <2>1, FS_EmptySet, NoticesAssumption DEF Newest
<1>6. n > visit /\ n \in DOMAIN notes
  BY <1>2, <1>3, <1>4 DEF MineNotes
<1>7. ~isRead(n)
  BY <1>2, <1>3, <1>6 DEF isRead
<1> QED
  BY <1>2, <1>5, <1>6, <1>7, ListIs

-----------------------------------------------------------------------------
(***************************************************************************)
(* The bell: what it shows with nothing under way.                         *)
(***************************************************************************)
\* Read, or about to be: a mark under way that no list was shown over.
ShowsRead(n) == isRead(n) \/ \E p \in marking : ~p.spoilt /\ p.of \in {0, n}

\* A list has some notes, read or not; an optimistic badge may be out of step.
Items == UNION {[D -> BOOLEAN] : D \in SUBSET Nat}
ListRecord == [items : Items, unread : Int]
AnswerRecord == [list : ListRecord, good : BOOLEAN]
MarkRecord == [of : Nat, spoilt : BOOLEAN]

BellTypes ==
  /\ awaited \in Nat
  /\ rings \in BOOLEAN /\ unsure \in BOOLEAN
  /\ bell \in ListRecord
  /\ answers \subseteq AnswerRecord
  /\ marking \subseteq MarkRecord

\* With no load to come, the good answers are not all stale.
AnswersInv ==
  ~rings /\ awaited = 0 /\ (\E a \in answers : a.good)
    => \E a \in answers : a.good /\ a.list = list

\* With none under way either, the bell is ahead of the server by its own marks.
ShownInv ==
  ~rings /\ awaited = 0 /\ answers = {} /\ ~unsure
    => bell = [items  |-> [n \in Newest |-> ShowsRead(n)],
               unread |-> Cardinality({n \in Newest : ~ShowsRead(n)})]

BellInv == VisitInv /\ BellTypes /\ AnswersInv /\ ShownInv

\* The rows of a bell, by number.
LEMMA ItemsAre ==
  /\ \A D \in SUBSET Nat : \A f \in [D -> BOOLEAN] : f \in Items
  /\ \A f \in Items : f \in [DOMAIN f -> BOOLEAN] /\ DOMAIN f \subseteq Nat
BY DEF Items

\* What the server lists is a list.
LEMMA NewestFinite ==
  ASSUME VisitInv
  PROVE  IsFiniteSet(Newest) /\ Newest \subseteq Nat /\ 0 \notin Newest
<1>1. DOMAIN notes = 1..Len(notes) /\ Len(notes) \in Nat
  BY DEF VisitInv
<1>2. IsFiniteSet(1..Len(notes))
  BY <1>1, FS_Interval
<1>3. Newest \subseteq 1..Len(notes)
  BY <1>1 DEF Newest, MineNotes
<1>4. IsFiniteSet(Newest)
  BY <1>2, <1>3, FS_Subset
<1> QED
  BY <1>1, <1>3, <1>4

\* The answer of the server is of the type of a list.
LEMMA ListKind ==
  ASSUME VisitInv
  PROVE  list \in ListRecord
<1> DEFINE unread == {n \in Newest : ~isRead(n)}
<1>1. Cardinality(unread) \in Int
  <2>1. IsFiniteSet(unread)
    BY NewestFinite, FS_Subset
  <2> QED
    BY <2>1, FS_CardinalityType
<1>2. [n \in Newest |-> isRead(n)] \in [Newest -> BOOLEAN]
  BY DEF isRead
<1>3. [n \in Newest |-> isRead(n)] \in Items
  BY <1>2, NewestFinite, ItemsAre
<1> QED
  BY <1>1, <1>3, ListIs DEF ListRecord

\* What an answer is after something it does not tell of.
LEMMA OutdatedFacts ==
  ASSUME BellTypes
  PROVE  /\ Outdated \subseteq AnswerRecord
         /\ \A b \in Outdated : b.good = FALSE
         /\ Outdated = {} <=> answers = {}
<1>1. \A a \in answers : /\ [a EXCEPT !.good = FALSE] \in AnswerRecord
                         /\ [a EXCEPT !.good = FALSE].good = FALSE
  BY DEF BellTypes, AnswerRecord
<1> QED
  BY <1>1 DEF Outdated

\* Every step keeps the types of the bell.
LEMMA BellTypesStep ==
  ASSUME VisitInv, BellTypes, [NoticesNext]_noticesVars
  PROVE  BellTypes'
<1>1. answers \subseteq AnswerRecord /\ Outdated \subseteq AnswerRecord /\ marking \subseteq MarkRecord
  BY OutdatedFacts DEF BellTypes
<1>2. ASSUME NEW a \in answers, ShowList(a)
      PROVE  /\ bell' \in ListRecord /\ unsure' \in BOOLEAN
             /\ answers' \subseteq AnswerRecord /\ marking' \subseteq MarkRecord
             /\ UNCHANGED <<awaited, rings>>
  <2>1. bell' = a.list /\ unsure' = ~a.good /\ UNCHANGED <<awaited, rings>>
    BY <1>2 DEF ShowList
  <2>2. a.list \in ListRecord /\ a.good \in BOOLEAN
    BY <1>1 DEF AnswerRecord
  <2>3. \A b \in answers : [b EXCEPT !.good = FALSE] \in AnswerRecord
    BY <1>1 DEF AnswerRecord
  <2>4. \A p \in marking : [p EXCEPT !.spoilt = TRUE] \in MarkRecord
    BY <1>1 DEF MarkRecord
  <2> QED
    BY <1>2, <2>1, <2>2, <2>3, <2>4 DEF ShowList
<1>3. ASSUME NEW n \in DOMAIN bell.items, openItem(n)
      PROVE  bell' \in ListRecord /\ marking' \subseteq MarkRecord
  <2>1. bell.items \in Items /\ bell.unread \in Int
    BY DEF BellTypes, ListRecord
  <2> DEFINE f == [bell.items EXCEPT ![n] = TRUE]
             p == [of |-> n, spoilt |-> FALSE]
  <2>2. f \in [DOMAIN bell.items -> BOOLEAN] /\ n \in Nat
    BY <2>1, ItemsAre
  <2>3. f \in Items
    BY <2>1, <2>2, ItemsAre
  <2>4. p \in MarkRecord
    BY <2>2 DEF MarkRecord
  <2>5. bell' = [items |-> f, unread |-> bell.unread - 1] /\ marking' = marking \cup {p}
    BY <1>3 DEF openItem
  <2> HIDE DEF f, p
  <2> QED
    BY <1>1, <2>1, <2>3, <2>4, <2>5 DEF ListRecord
<1>4. ASSUME clearAll
      PROVE  bell' \in ListRecord /\ marking' \subseteq MarkRecord
  <2>1. DOMAIN bell.items \subseteq Nat
    BY ItemsAre DEF BellTypes, ListRecord
  <2> DEFINE f == [n \in DOMAIN bell.items |-> TRUE]
             p == [of |-> 0, spoilt |-> FALSE]
  <2>2. f \in [DOMAIN bell.items -> BOOLEAN]
    OBVIOUS
  <2>3. f \in Items
    BY <2>1, <2>2, ItemsAre
  <2>4. p \in MarkRecord
    BY DEF MarkRecord
  <2>5. bell' = [items |-> f, unread |-> 0] /\ marking' = marking \cup {p}
    BY <1>4 DEF clearAll
  <2> HIDE DEF f, p
  <2> QED
    BY <1>1, <2>3, <2>4, <2>5 DEF ListRecord
<1>5. ASSUME ServeList PROVE answers' \subseteq AnswerRecord
  <2>1. [list |-> list, good |-> TRUE] \in AnswerRecord
    BY ListKind DEF AnswerRecord
  <2> QED
    BY <1>1, <1>5, <2>1 DEF ServeList
<1>6. answers' \subseteq AnswerRecord
  BY <1>1, <1>2, <1>5 DEF NoticesNext, FollowEdge, UndoEdge, Arrive, PostEscalation, Ring,
     ListFails, openItem, clearAll, MarkRead, MarkFails, noticesVars
<1>7. marking' \subseteq MarkRecord
  BY <1>1, <1>2, <1>3, <1>4 DEF NoticesNext, FollowEdge, UndoEdge, Arrive, PostEscalation, Ring,
     ServeList, ListFails, MarkRead, MarkFails, noticesVars
<1>8. bell' \in ListRecord
  BY <1>2, <1>3, <1>4 DEF BellTypes, NoticesNext, FollowEdge, UndoEdge, Arrive, PostEscalation,
     Ring, ServeList, ListFails, MarkRead, MarkFails, Centre, noticesVars
<1>9. awaited' \in Nat
  <2>1. awaited' \in {awaited, awaited + 1} \/ (awaited > 0 /\ awaited' = awaited - 1)
    BY <1>2 DEF NoticesNext, FollowEdge, UndoEdge, Arrive, PostEscalation, Ring,
       ServeList, ListFails, openItem, clearAll, MarkRead, MarkFails, noticesVars
  <2> QED
    BY <2>1 DEF BellTypes
<1>10. rings' \in BOOLEAN
  BY <1>2 DEF BellTypes, NoticesNext, FollowEdge, UndoEdge, Arrive, PostEscalation, Ring,
     ServeList, ListFails, openItem, clearAll, MarkRead, MarkFails, noticesVars
<1>11. unsure' \in BOOLEAN
  <2>1. ASSUME NEW p \in marking, MarkRead(p) PROVE unsure' \in BOOLEAN
    BY <2>1 DEF MarkRead
  <2> QED
    BY <1>2, <2>1 DEF BellTypes, NoticesNext, FollowEdge, UndoEdge, Arrive, PostEscalation, Ring,
       ServeList, ListFails, openItem, clearAll, MarkFails, noticesVars
<1> QED
  BY <1>6, <1>7, <1>8, <1>9, <1>10, <1>11 DEF BellTypes

\* What the server would list changes with the notes, the marks and the ticket only.
LEMMA ListStays ==
  ASSUME UNCHANGED <<paper, reader, notes, marks>>
  PROVE  list' = list /\ Newest' = Newest /\ \A n : isRead(n)' = isRead(n)
BY DEF list, Newest, MineNotes, isRead

\* Every step keeps what is known of the answers on their way.
LEMMA AnswersStep ==
  ASSUME BellInv, [NoticesNext]_noticesVars
  PROVE  AnswersInv'
<1>1. BellTypes /\ AnswersInv
  BY DEF BellInv
<1>2. ASSUME answers' = Outdated \/ answers' \subseteq Outdated
      PROVE  AnswersInv'
  BY <1>1, <1>2, OutdatedFacts DEF AnswersInv
<1>3. CASE rings' \/ awaited' > 0
  BY <1>3 DEF AnswersInv
<1>4. CASE ServeList
  <2>1. list' = list
    BY <1>4, ListStays DEF ServeList, Centre
  <2> DEFINE a == [list |-> list, good |-> TRUE]
  <2>2. a \in answers'
    BY <1>4 DEF ServeList
  <2>3. a.list = list /\ a.good
    OBVIOUS
  <2> HIDE DEF a
  <2> QED
    BY <2>1, <2>2, <2>3, Zenon DEF AnswersInv
<1>5. ASSUME NEW a \in answers, ShowList(a) PROVE AnswersInv'
  <2>1. \A b \in answers : [b EXCEPT !.good = FALSE].good = FALSE
    BY <1>1 DEF BellTypes, AnswerRecord
  <2>2. \A b \in answers' : b.good = FALSE
    BY <1>5, <2>1 DEF ShowList
  <2> QED
    BY <2>2 DEF AnswersInv
<1>6. CASE UNCHANGED <<Centre, awaited, answers, rings>>
  BY <1>1, <1>6, ListStays DEF Centre, AnswersInv
<1>7. ASSUME Ring PROVE awaited' > 0
  BY <1>1, <1>7 DEF Ring, BellTypes
<1>8. ASSUME NEW s, NEW by, Arrive(s, by) PROVE rings' \/ answers' = Outdated
  BY <1>8 DEF Arrive
<1>9. CASE ListFails
  BY <1>2, <1>9 DEF ListFails
<1>10. CASE PostEscalation
  BY <1>2, <1>10 DEF PostEscalation
<1>11. ASSUME NEW p \in marking, MarkRead(p) \/ MarkFails(p) PROVE answers' = Outdated
  BY <1>11 DEF MarkRead, MarkFails
<1>12. CASE clearAll \/ UNCHANGED noticesVars \/ \E n \in DOMAIN bell.items : openItem(n)
  BY <1>6, <1>12 DEF clearAll, openItem, Centre, noticesVars
<1>13. CASE FollowEdge \/ UndoEdge
  <2>1. PICK s, by : Arrive(s, by)
    BY <1>13 DEF FollowEdge, UndoEdge
  <2>2. rings' \/ answers' = Outdated
    BY <1>8, <2>1
  <2> QED
    BY <1>2, <1>3, <2>2, Zenon
<1> QED
  BY <1>2, <1>3, <1>4, <1>5, <1>7, <1>9, <1>10, <1>11, <1>12, <1>13 DEF NoticesNext

\* The bell after a mark under way was added, made, or shown over.
LEMMA ShownStep ==
  ASSUME BellInv, [NoticesNext]_noticesVars
  PROVE  ShownInv'
<1> DEFINE Of(N, sh(_)) == [items  |-> [n \in N |-> sh(n)],
                            unread |-> Cardinality({n \in N : ~sh(n)})]
<1>1. VisitInv /\ BellTypes /\ AnswersInv /\ ShownInv
  BY DEF BellInv
<1>2. CASE rings' \/ awaited' > 0 \/ answers' # {} \/ unsure'
  BY <1>2 DEF ShownInv
<1>3. ASSUME NEW a \in answers, ShowList(a) PROVE ShownInv'
  <2> SUFFICES ASSUME ~rings', awaited' = 0, answers' = {}, ~unsure'
               PROVE  bell' = [items  |-> [n \in Newest' |-> ShowsRead(n)'],
                               unread |-> Cardinality({n \in Newest' : ~ShowsRead(n)'})]
    BY DEF ShownInv
  <2>1. /\ bell' = a.list /\ unsure' = ~a.good
        /\ UNCHANGED <<paper, reader, notes, marks, awaited, rings>>
    BY <1>3 DEF ShowList, Centre
  <2>2. answers = {a}
    BY <1>3 DEF ShowList
  <2>3. a.good
    BY <1>1, <2>1 DEF BellTypes, AnswerRecord
  <2>4. a.list = list
    BY <1>1, <2>1, <2>2, <2>3 DEF AnswersInv
  <2>5. \A p \in marking' : p.spoilt = TRUE
    <3>1. \A p \in marking : [p EXCEPT !.spoilt = TRUE].spoilt = TRUE
      BY <1>1 DEF BellTypes, MarkRecord
    <3> QED
      BY <1>3, <3>1 DEF ShowList
  <2>6. \A n : ShowsRead(n)' = isRead(n)
    BY <2>1, <2>5, ListStays DEF ShowsRead, isRead
  <2>7. Newest' = Newest
    BY <2>1, ListStays
  <2>8. [n \in Newest' |-> ShowsRead(n)'] = [n \in Newest |-> isRead(n)]
    BY <2>6, <2>7
  <2>9. {n \in Newest' : ~ShowsRead(n)'} = {n \in Newest : ~isRead(n)}
    BY <2>6, <2>7
  <2> QED
    BY <2>1, <2>4, <2>8, <2>9, ListIs
\* A mark shown before it is made ...
<1>4. ASSUME NEW n \in DOMAIN bell.items, openItem(n), answers = {}, ~rings, awaited = 0, ~unsure
      PROVE  ShownInv'
  <2>1. /\ bell = [items  |-> [m \in Newest |-> ShowsRead(m)],
                   unread |-> Cardinality({m \in Newest : ~ShowsRead(m)})]
    BY <1>1, <1>4 DEF ShownInv
  <2>2. n \in Newest /\ ~ShowsRead(n)
    BY <1>4, <2>1 DEF openItem
  <2>3. /\ bell' = [items |-> [bell.items EXCEPT ![n] = TRUE], unread |-> bell.unread - 1]
        /\ marking' = marking \cup {[of |-> n, spoilt |-> FALSE]}
        /\ UNCHANGED <<paper, reader, notes, marks>>
    BY <1>4 DEF openItem, Centre
  <2>4. \A m \in Newest : ShowsRead(m)' <=> ShowsRead(m) \/ m = n
    <3>1. n # 0
      BY <1>1, <2>2, NewestFinite
    <3>2. \A m : isRead(m)' = isRead(m)
      BY <2>3, ListStays
    <3>3. ~[of |-> n, spoilt |-> FALSE].spoilt /\ [of |-> n, spoilt |-> FALSE].of = n
      OBVIOUS
    <3> QED
      BY <2>3, <3>1, <3>2, <3>3 DEF ShowsRead
  <2>5. Newest' = Newest
    BY <2>3, ListStays
  <2>6. [m \in Newest' |-> ShowsRead(m)'] = [bell.items EXCEPT ![n] = TRUE]
    BY <2>1, <2>2, <2>4, <2>5 DEF ShowsRead
  <2>7. Cardinality({m \in Newest' : ~ShowsRead(m)'}) = bell.unread - 1
    <3> DEFINE U == {m \in Newest : ~ShowsRead(m)}
    <3>1. {m \in Newest' : ~ShowsRead(m)'} = U \ {n}
      BY <2>4, <2>5
    <3>2. IsFiniteSet(U) /\ n \in U
      BY <1>1, <2>2, NewestFinite, FS_Subset
    <3>3. Cardinality(U \ {n}) = Cardinality(U) - 1
      BY <3>2, FS_RemoveElement
    <3> QED
      BY <2>1, <3>1, <3>3
  <2> QED
    BY <2>3, <2>6, <2>7 DEF ShownInv
\* ... all of them at once ...
<1>5. ASSUME clearAll, answers = {}, ~rings, awaited = 0, ~unsure
      PROVE  ShownInv'
  <2>1. DOMAIN bell.items = Newest
    BY <1>1, <1>5 DEF ShownInv
  <2>2. /\ bell' = [items |-> [n \in Newest |-> TRUE], unread |-> 0]
        /\ marking' = marking \cup {[of |-> 0, spoilt |-> FALSE]}
        /\ UNCHANGED <<paper, reader, notes, marks>>
    BY <1>5, <2>1 DEF clearAll, Centre
  <2>3. \A m : ShowsRead(m)'
    <3>1. ~[of |-> 0, spoilt |-> FALSE].spoilt /\ [of |-> 0, spoilt |-> FALSE].of = 0
      OBVIOUS
    <3> QED
      BY <2>2, <3>1 DEF ShowsRead
  <2>4. Newest' = Newest
    BY <2>2, ListStays
  <2>5. [m \in Newest' |-> ShowsRead(m)'] = [n \in Newest |-> TRUE]
    BY <2>3, <2>4 DEF ShowsRead
  <2>6. {m \in Newest' : ~ShowsRead(m)'} = {}
    BY <2>3
  <2> QED
    BY <2>2, <2>5, <2>6, FS_EmptySet DEF ShownInv
\* ... and made.
<1>6. ASSUME NEW p \in marking, MarkRead(p), answers = {}, ~rings, awaited = 0, ~unsure, ~p.spoilt
      PROVE  ShownInv'
  <2>1. /\ bell' = bell /\ marking' = marking \ {p} /\ marks' = marks \cup Marked(p)
        /\ UNCHANGED <<paper, reader, notes>>
    BY <1>6 DEF MarkRead
  <2>2. Newest' = Newest
    BY <2>1 DEF Newest, MineNotes
  <2>3. \A m \in Newest : m \in Marked(p) <=> p.of \in {0, m}
    BY DEF Newest, MineNotes, Marked
  <2>4. \A m \in Newest : isRead(m)' <=> isRead(m) \/ m \in Marked(p)
    BY <2>1 DEF isRead
  <2>5. \A m \in Newest : ShowsRead(m)' <=> ShowsRead(m)
    BY <1>6, <2>1, <2>3, <2>4 DEF ShowsRead
  <2>6. [m \in Newest' |-> ShowsRead(m)'] = [m \in Newest |-> ShowsRead(m)]
    BY <2>2, <2>5 DEF ShowsRead
  <2>7. {m \in Newest' : ~ShowsRead(m)'} = {m \in Newest : ~ShowsRead(m)}
    BY <2>2, <2>5
  <2> QED
    BY <1>1, <1>6, <2>1, <2>6, <2>7 DEF ShownInv
<1>7. ASSUME UNCHANGED noticesVars PROVE ShownInv'
  <2>1. list' = list /\ Newest' = Newest /\ \A n : isRead(n)' = isRead(n)
    BY <1>7, ListStays DEF noticesVars
  <2>2. \A n : ShowsRead(n)' = ShowsRead(n)
    BY <1>7, <2>1 DEF ShowsRead, noticesVars, isRead
  <2> QED
    BY <1>1, <1>7, <2>1, <2>2 DEF ShownInv, noticesVars
\* Everything else leaves something under way, or the reader unsure.
<1>8. CASE FollowEdge \/ UndoEdge \/ PostEscalation \/ ListFails
  <2>1. rings' \/ unsure'
    <3>1. ASSUME NEW s, NEW by, Arrive(s, by) PROVE rings' \/ unsure'
      BY <3>1, Zenon DEF Arrive
    <3>2. (PostEscalation => unsure') /\ (ListFails => unsure')
      BY Zenon DEF PostEscalation, ListFails
    <3> QED
      BY <1>8, <3>1, <3>2, Zenon DEF FollowEdge, UndoEdge
  <2> QED
    BY <1>2, <2>1, Zenon
<1>9. CASE Ring \/ ServeList
  <2>1. Ring => awaited' > 0
    BY <1>1 DEF Ring, BellTypes
  <2>2. ServeList => answers' # {}
    BY DEF ServeList
  <2> QED
    BY <1>2, <1>9, <2>1, <2>2, Zenon
<1>10. ASSUME NEW n \in DOMAIN bell.items, openItem(n) PROVE ShownInv'
  BY <1>1, <1>2, <1>4, <1>10 DEF openItem, BellTypes
<1>11. CASE clearAll
  BY <1>1, <1>2, <1>5, <1>11 DEF clearAll, BellTypes
<1>12. ASSUME NEW p \in marking, MarkRead(p) PROVE ShownInv'
  <2>1. answers' = {} => answers = {}
    BY <1>1, <1>12, OutdatedFacts DEF MarkRead
  <2>2. p.spoilt \/ unsure => unsure'
    BY <1>1, <1>12 DEF MarkRead, BellTypes, MarkRecord
  <2>3. UNCHANGED <<rings, awaited>> /\ rings \in BOOLEAN /\ awaited \in Nat
    BY <1>1, <1>12 DEF MarkRead, BellTypes
  <2> QED
    BY <1>2, <1>6, <1>12, <2>1, <2>2, <2>3
<1>13. ASSUME NEW p \in marking, MarkFails(p) PROVE ShownInv'
  <2>1. unsure' = TRUE
    BY <1>13 DEF MarkFails
  <2> QED
    BY <1>2, <2>1
<1> QED
  BY <1>3, <1>7, <1>8, <1>9, <1>10, <1>11, <1>12, <1>13 DEF NoticesNext

\* The bell and the notes behind it.
LEMMA BellInvInit == NoticesInit => BellInv
<1> SUFFICES ASSUME NoticesInit PROVE BellInv
  OBVIOUS
<1> DEFINE note == [to |-> "DCC1", kind |-> "Submitted", waiting |-> "Submitted"]
<1>1. VisitInv
  <2>1. paper \in [flow : Flow, status : Status, by : CameBy] /\ paper.status = "Submitted"
    BY DEF NoticesInit, Status, CameBy
  <2>2. note \in Note
    BY DEF Note, Role, Status
  <2>3. notes = <<note>> /\ visit = 0
    BY DEF NoticesInit
  <2> HIDE DEF note
  <2>4. notes \in Seq(Note) /\ Len(notes) = 1 /\ DOMAIN notes = 1..1 /\ notes[1] = note
    BY <2>2, <2>3
  <2>5. note.to = "DCC1" /\ note.waiting = "Submitted"
    BY DEF note
  <2> QED
    BY <2>1, <2>3, <2>4, <2>5, InboxFacts DEF VisitInv
<1>2. BellTypes
  <2>1. << >> \in [{} -> BOOLEAN]
    OBVIOUS
  <2>2. << >> \in Items
    BY <2>1, ItemsAre
  <2>3. bell \in ListRecord /\ awaited \in Nat /\ answers = {} /\ marking = {}
    BY <2>2 DEF NoticesInit, ListRecord
  <2>4. rings \in BOOLEAN /\ unsure \in BOOLEAN
    BY DEF NoticesInit
  <2> QED
    BY <2>3, <2>4 DEF BellTypes
<1>3. AnswersInv /\ ShownInv
  BY DEF NoticesInit, AnswersInv, ShownInv
<1> QED
  BY <1>1, <1>2, <1>3 DEF BellInv

\* Every step keeps the invariant of the bell.
LEMMA BellInvStep == BellInv /\ [NoticesNext]_noticesVars => BellInv'
  BY VisitStep, BellTypesStep, AnswersStep, ShownStep DEF BellInv

\* Work that waits has an unread note, and a bell at rest shows what the server
\* holds.
LEMMA BellIsSound == BellInv => BellSound
<1> SUFFICES ASSUME BellInv PROVE BellSound
  OBVIOUS
<1>1. WaitingRings
  BY VisitRings DEF BellInv
<1>2. ASSUME ~rings, marking = {}, ~unsure, awaited = 0, answers = {}
      PROVE  bell = list
  <2>1. \A n : ShowsRead(n) = isRead(n)
    BY <1>2 DEF ShowsRead, isRead
  <2>2. /\ [n \in Newest |-> ShowsRead(n)] = [n \in Newest |-> isRead(n)]
        /\ {n \in Newest : ~ShowsRead(n)} = {n \in Newest : ~isRead(n)}
    BY <2>1
  <2> QED
    BY <1>2, <2>2, ListIs DEF BellInv, ShownInv
<1> QED
  BY <1>1, <1>2 DEF BellSound, BadgeTrue

-----------------------------------------------------------------------------
(***************************************************************************)
(* The scripts of the operators.                                           *)
(***************************************************************************)
DumpFile == [id : DumpIds, at : Nat, whole : BOOLEAN, rows : SUBSET Nat, upto : Nat]
GlobalFile == [id : DumpIds, at : Nat, whole : BOOLEAN]
MadeDump == [id : DumpIds, rows : SUBSET Nat, upto : Nat, paired : BOOLEAN]

BackupTypes ==
  /\ dumps \subseteq DumpFile /\ globals \subseteq GlobalFile /\ made \subseteq MadeDump
  /\ nightly = Resting \/ nightly \in [doing : {"dump", "cut", "globals"}, id : DumpIds]
  /\ wiper = Resting \/ wiper \in [doing : {"dump", "cut", "truncate"}, id : DumpIds]
  /\ restorer = NoRestore \/ restorer \in [doing : {"open", "load"}, id : DumpIds, rows : SUBSET Nat]
  /\ database \subseteq Nat /\ schema \in BOOLEAN /\ latest \in Nat
  /\ wipes \in 0..MaxWipes /\ clock \in Nat
  /\ writes \in [DumpIds -> Nat]

\* No two files were written at one time, and each tells when it was.
StampsInv ==
  /\ \A i \in DumpIds : writes[i] <= clock
  /\ \A i, j \in DumpIds : writes[i] = writes[j] /\ writes[i] > 0 => i = j
  /\ \A f \in dumps : f.at = writes[f.id] /\ f.at > 0
  /\ \A f, g \in dumps : f.id = g.id => f = g
  /\ \A g, h \in globals : g.id = h.id => g = h
  /\ \A g \in globals : writes[g.id] > 0 /\ writes[g.id] <= g.at /\ g.at <= clock
  /\ \A m \in made : writes[m.id] > 0

\* A dump that is not completed yet has no globals; one whose globals are being
\* written was completed, and is there.
Unmade(i) == /\ writes[i] > 0
             /\ \A m \in made : m.id # i
             /\ \A g \in globals : g.id # i
Dumping(script) == script.doing \in {"dump", "cut"}
RunsInv ==
  /\ Dumping(nightly) => Unmade(nightly.id)
  /\ Dumping(wiper) => Unmade(wiper.id)
  /\ Dumping(nightly) /\ Dumping(wiper) => nightly.id # wiper.id
  /\ nightly.doing = "globals" =>
       /\ \E f \in dumps : f.id = nightly.id
       /\ \E m \in made : m.id = nightly.id
       /\ \A m \in made : m.id = nightly.id => ~m.paired

\* Runs come one after the other: later globals are of later dumps, and as long as
\* one dump is there all that are later are, but for those that failed.
OrderInv ==
  /\ \A g, h \in globals : g.at > h.at => writes[g.id] > writes[h.id]
  /\ nightly.doing = "globals" =>
       \A h \in globals : h.id # nightly.id => writes[h.id] < writes[nightly.id]
  /\ \A g \in globals : \/ \E f \in dumps : f.id = g.id
                        \/ \A f \in dumps : f.at > writes[g.id]

\* What was written since the dump of the run under way was by the wipes.
Since(i) == {j \in DumpIds : writes[j] > writes[i]}
             \cup (IF wiper.doing = "dump" THEN {wiper.id} ELSE {})
WipesInv ==
  /\ wiper.doing = "dump" => wipes > 0
  /\ nightly.doing = "globals" => Cardinality(Since(nightly.id)) <= wipes

\* What the wipe is about to erase is in a completed dump, or was written after its own
\* dump had begun; and so is what the restore, or another wipe, puts in its place.
Saved(k) == \E m \in made : k \in m.rows
WipeInv ==
  /\ \A f \in dumps \cup made : f.upto <= latest
  /\ \A f \in dumps : f.whole => \A k \in f.rows : Saved(k)
  /\ \A k \in restorer.rows : Saved(k)
  /\ wiper.doing = "dump" =>
       \A f \in dumps : f.id = wiper.id =>
         \A k \in database : k > f.upto \/ k \in f.rows \/ Saved(k)
  /\ wiper.doing = "truncate" =>
       \E m \in made : m.id = wiper.id /\ \A k \in database : k > m.upto \/ Saved(k)

BackupInv == /\ BackupTypes /\ StampsInv /\ RunsInv /\ OrderInv /\ WipesInv /\ WipeInv
             /\ BackupsSound

-----------------------------------------------------------------------------
\* A job that rests.
LEMMA RestingIs == Resting.doing = "idle" /\ Resting.id = 0
BY DEF Resting

\* Who is at work on what.
LEMMA Workers ==
  ASSUME BackupTypes
  PROVE  /\ nightly.doing \in {"idle", "dump", "cut", "globals"}
         /\ wiper.doing \in {"idle", "dump", "cut", "truncate"}
         /\ nightly.doing # "idle" => nightly.id \in DumpIds
         /\ wiper.doing # "idle" => wiper.id \in DumpIds
         /\ (nightly = Resting) = (nightly.doing = "idle")
         /\ (wiper = Resting) = (wiper.doing = "idle")
BY RestingIs DEF BackupTypes

\* A job that is cut off has the same dump under way, and is not finished with it.
LEMMA CutOffIs ==
  ASSUME NEW script
  PROVE  \/ CutOff(script) = script /\ script.doing # "dump"
         \/ /\ script.doing = "dump" /\ CutOff(script) = [script EXCEPT !.doing = "cut"]
BY DEF CutOff

\* What a drop does to the jobs.
LEMMA CutJobs ==
  ASSUME BackupTypes
  PROVE  /\ CutOff(nightly).id = nightly.id /\ CutOff(wiper).id = wiper.id
         /\ CutOff(nightly).doing # "dump" /\ CutOff(wiper).doing # "dump"
         /\ Dumping(CutOff(nightly)) = Dumping(nightly) /\ Dumping(CutOff(wiper)) = Dumping(wiper)
         /\ (CutOff(nightly).doing = "globals") = (nightly.doing = "globals")
         /\ (CutOff(wiper).doing = "truncate") = (wiper.doing = "truncate")
BY RestingIs, CutOffIs DEF BackupTypes, Dumping

\* The dumps written to after one of them, and that they do not become fewer.
Later(k) == {j \in DumpIds : writes[j] > writes[k]}

\* There are finitely many names.
LEMMA LaterFinite ==
  \A S \in SUBSET DumpIds : IsFiniteSet(S) /\ Cardinality(S) \in Nat
<1>1. IsFiniteSet(DumpIds)
  BY BackupsAssumption, FS_Interval DEF DumpIds
<1> QED
  BY <1>1, FS_Subset, FS_CardinalityType

\* A name that is written is the latest.
LEMMA WrittenFacts ==
  ASSUME BackupTypes, StampsInv, NEW i \in DumpIds, Written(i)
  PROVE  /\ clock' = clock + 1 /\ clock' \in Nat /\ writes' \in [DumpIds -> Nat]
         /\ writes'[i] = clock + 1
         /\ \A j \in DumpIds : j # i => writes'[j] = writes[j]
         /\ \A j \in DumpIds : writes'[j] <= clock'
         /\ \A j, k \in DumpIds : writes'[j] = writes'[k] /\ writes'[j] > 0 => j = k
         /\ \A j \in DumpIds : j # i => writes'[j] < writes'[i]
<1>1. /\ clock' = clock + 1 /\ clock' \in Nat /\ writes' \in [DumpIds -> Nat]
      /\ writes'[i] = clock + 1
      /\ \A j \in DumpIds : j # i => writes'[j] = writes[j]
  BY DEF BackupTypes, Written
<1>2. \A j \in DumpIds : writes[j] <= clock /\ writes[j] \in Nat /\ clock \in Nat
  BY DEF BackupTypes, StampsInv
<1>3. \A j \in DumpIds : writes'[j] <= clock'
  BY <1>1, <1>2
<1>4. \A j \in DumpIds : j # i => writes'[j] < writes'[i]
  BY <1>1, <1>2
<1>5. \A j, k \in DumpIds : writes'[j] = writes'[k] /\ writes'[j] > 0 => j = k
  BY <1>1, <1>2, <1>4 DEF StampsInv
<1> QED
  BY <1>1, <1>3, <1>4, <1>5

\* ... so that it comes after every other.
LEMMA LaterGrows ==
  ASSUME BackupTypes, StampsInv, NEW i \in DumpIds, Written(i), NEW k \in DumpIds, k # i
  PROVE  Later(k)' = Later(k) \cup {i} /\ Cardinality(Later(k)') >= Cardinality(Later(k))
<1>1. Later(k)' = Later(k) \cup {i}
  BY WrittenFacts DEF Later
<1>2. Later(k) \cup {i} \in SUBSET DumpIds
  BY DEF Later
<1>3. Cardinality(Later(k)) <= Cardinality(Later(k) \cup {i})
  BY <1>2, LaterFinite, FS_Subset
<1> QED
  BY <1>1, <1>2, <1>3, LaterFinite

\* A dump is begun under a name of its own.
LEMMA BeginFacts ==
  ASSUME BackupTypes, StampsInv, NEW i \in DumpIds, BeginDump(i)
  PROVE  \E f \in DumpFile :
           /\ f.id = i /\ f.at = clock + 1 /\ f.rows = database /\ f.upto = latest /\ ~f.whole
           /\ dumps' = dumps \cup {f} /\ f \notin dumps
           /\ \A g \in dumps \cup globals \cup made : g.id # i
           /\ writes[i] = 0 /\ Written(i)
<1> DEFINE f == [id |-> i, at |-> clock + 1, whole |-> FALSE, rows |-> database, upto |-> latest]
<1>1. f \in DumpFile
  BY DEF BackupTypes, DumpFile
<1>2. f.id = i /\ f.at = clock + 1 /\ f.rows = database /\ f.upto = latest /\ ~f.whole
  OBVIOUS
<1>3. dumps' = dumps \cup {f} /\ writes[i] = 0 /\ Written(i)
  BY DEF BeginDump
<1>4. \A g \in dumps \cup globals \cup made : g.id # i
  <2>1. \A g \in dumps : writes[g.id] > 0
    BY DEF StampsInv
  <2> QED
    BY <1>3, <2>1 DEF StampsInv
<1> HIDE DEF f
<1> QED
  BY <1>1, <1>2, <1>3, <1>4

\* A dump that is finished keeps its name and its rows.
LEMMA FinishFacts ==
  ASSUME BackupTypes, StampsInv, NEW i \in DumpIds, FinishDump(i)
  PROVE  \E f \in dumps, g \in DumpFile, m \in MadeDump :
           /\ f.id = i /\ g.id = i /\ g.at = clock + 1 /\ g.rows = f.rows /\ g.upto = f.upto
           /\ m.id = i /\ m.rows = f.rows /\ m.upto = f.upto /\ ~m.paired
           /\ dumps' = (dumps \ {f}) \cup {g} /\ made' = made \cup {m}
           /\ \A h \in dumps \ {f} : h.id # i
           /\ Written(i)
<1>1. PICK f \in dumps :
        /\ f.id = i
        /\ dumps' = (dumps \ {f}) \cup {[f EXCEPT !.at = clock + 1, !.whole = TRUE]}
        /\ made' = made \cup {[id |-> i, rows |-> f.rows, upto |-> f.upto, paired |-> FALSE]}
  BY DEF FinishDump
<1> DEFINE g == [f EXCEPT !.at = clock + 1, !.whole = TRUE]
           m == [id |-> i, rows |-> f.rows, upto |-> f.upto, paired |-> FALSE]
<1>2. f \in DumpFile
  BY DEF BackupTypes
<1>3. g \in DumpFile /\ g.id = i /\ g.at = clock + 1 /\ g.rows = f.rows /\ g.upto = f.upto
  <2>1. clock + 1 \in Nat
    BY DEF BackupTypes
  <2>3. ASSUME NEW n \in Nat
        PROVE  LET h == [f EXCEPT !.at = n, !.whole = TRUE]
               IN  /\ h \in DumpFile /\ h.id = f.id /\ h.at = n
                   /\ h.rows = f.rows /\ h.upto = f.upto
    BY <1>2 DEF DumpFile
  <2> QED
    BY <1>1, <2>1, <2>3
<1>4. m \in MadeDump /\ m.id = i /\ m.rows = f.rows /\ m.upto = f.upto /\ ~m.paired
  BY <1>2 DEF MadeDump, DumpFile
<1>5. \A h \in dumps \ {f} : h.id # i
  BY <1>1 DEF StampsInv
<1> HIDE DEF g, m
<1> QED
  BY <1>1, <1>3, <1>4, <1>5 DEF FinishDump, g, m

\* The runs that were completed, before and after one more is.
LEMMA PairedFacts ==
  ASSUME BackupTypes, NightDone
  PROVE  /\ made' \subseteq MadeDump
         /\ \A m \in made : \E n \in made' : /\ n.id = m.id /\ n.rows = m.rows /\ n.upto = m.upto
                                             /\ n.paired = (m.paired \/ m.id = nightly.id)
         /\ \A n \in made' : \E m \in made : /\ n.id = m.id /\ n.rows = m.rows /\ n.upto = m.upto
                                             /\ n.paired = (m.paired \/ m.id = nightly.id)
<1> DEFINE Next(m) == [m EXCEPT !.paired = @ \/ m.id = nightly.id]
<1>1. made' = {Next(m) : m \in made}
  BY DEF NightDone
<1>2. ASSUME NEW m \in made
      PROVE  /\ Next(m) \in MadeDump /\ Next(m).id = m.id /\ Next(m).rows = m.rows
             /\ Next(m).upto = m.upto /\ Next(m).paired = (m.paired \/ m.id = nightly.id)
  <2>1. m \in MadeDump
    BY DEF BackupTypes
  <2>2. ASSUME NEW b \in BOOLEAN
        PROVE  LET n == [m EXCEPT !.paired = b]
               IN  n \in MadeDump /\ n.id = m.id /\ n.rows = m.rows /\ n.upto = m.upto /\ n.paired = b
    BY <2>1 DEF MadeDump
  <2>3. (m.paired \/ m.id = nightly.id) \in BOOLEAN
    OBVIOUS
  <2> QED
    BY <2>2, <2>3
<1> HIDE DEF Next
<1> QED
  BY <1>1, <1>2

\* The window of the globals, before the pruning.
RolesWindow == Without(globals, nightly.id) \cup
            {[id |-> nightly.id, at |-> clock + 1, whole |-> TRUE]}

\* The roles that are kept when the night has them.
LEMMA ClosedFacts ==
  ASSUME BackupTypes, nightly.doing = "globals"
  PROVE  /\ RolesWindow \subseteq GlobalFile
         /\ \E g \in RolesWindow : /\ g.id = nightly.id /\ g.at = clock + 1 /\ g.whole
                              /\ \A h \in RolesWindow \ {g} : h \in globals /\ h.id # nightly.id
         /\ \A h \in globals : h.id # nightly.id => h \in RolesWindow
<1> DEFINE g == [id |-> nightly.id, at |-> clock + 1, whole |-> TRUE]
<1>1. nightly.id \in DumpIds /\ clock + 1 \in Nat
  BY Workers DEF BackupTypes
<1>2. g \in GlobalFile /\ g.id = nightly.id /\ g.at = clock + 1 /\ g.whole
  BY <1>1 DEF GlobalFile
<1>3. RolesWindow = {h \in globals : h.id # nightly.id} \cup {g}
  BY DEF RolesWindow, Without
<1> HIDE DEF g
<1> QED
  BY <1>2, <1>3 DEF BackupTypes

-----------------------------------------------------------------------------
\* Every step keeps the types.
LEMMA BackupTypesStep ==
  ASSUME BackupTypes, StampsInv, [BackupsNext]_backupVars
  PROVE  BackupTypes'
<1> USE DEF BackupTypes
<1>1. CASE \E i \in DumpIds : StartNight(i)
  <2>1. PICK i \in DumpIds : StartNight(i)
    BY <1>1
  <2>2. BeginDump(i)
    BY <2>1 DEF StartNight
  <2>3. dumps' \subseteq DumpFile /\ clock' \in Nat /\ writes' \in [DumpIds -> Nat]
    BY <2>2, BeginFacts, WrittenFacts
  <2>4. nightly' \in [doing : {"dump", "cut", "globals"}, id : DumpIds]
    BY <2>1 DEF StartNight
  <2> QED
    BY <2>1, <2>3, <2>4 DEF StartNight, Data
<1>2. CASE \E i \in DumpIds : StartWipe(i)
  <2>1. PICK i \in DumpIds : StartWipe(i)
    BY <1>2
  <2>2. BeginDump(i)
    BY <2>1 DEF StartWipe
  <2>3. dumps' \subseteq DumpFile /\ clock' \in Nat /\ writes' \in [DumpIds -> Nat]
    BY <2>2, BeginFacts, WrittenFacts
  <2>4. wiper' \in [doing : {"dump", "cut", "truncate"}, id : DumpIds]
    BY <2>1 DEF StartWipe
  <2>5. wipes' \in 0..MaxWipes
    BY <2>1, BackupsAssumption DEF StartWipe
  <2> QED
    BY <2>1, <2>3, <2>4, <2>5 DEF StartWipe, Data
<1>3. CASE NightDumped
  <2>1. FinishDump(nightly.id) /\ nightly.id \in DumpIds
    BY <1>3, Workers DEF NightDumped
  <2>2. /\ dumps' \subseteq DumpFile /\ made' \subseteq MadeDump
        /\ clock' \in Nat /\ writes' \in [DumpIds -> Nat]
    BY <2>1, FinishFacts, WrittenFacts
  <2>3. [id |-> nightly.id, at |-> clock + 1, whole |-> FALSE] \in GlobalFile
    BY <2>1 DEF GlobalFile
  <2>4. globals' \subseteq GlobalFile
    BY <1>3, <2>3 DEF NightDumped
  <2>5. nightly' \in [doing : {"dump", "cut", "globals"}, id : DumpIds]
    BY <1>3, RestingIs DEF NightDumped
  <2> QED
    BY <1>3, <2>2, <2>4, <2>5 DEF NightDumped, Data
<1>4. CASE NightDone
  <2>1. globals' \subseteq RolesWindow /\ dumps' \subseteq dumps
    BY <1>4 DEF NightDone, Pruned, RolesWindow
  <2>2. globals' \subseteq GlobalFile
    BY <1>4, <2>1, ClosedFacts DEF NightDone
  <2>3. clock' \in Nat /\ nightly' = Resting
    BY <1>4 DEF NightDone
  <2> QED
    BY <1>4, <2>1, <2>2, <2>3, PairedFacts DEF NightDone, Data
<1>5. CASE NightFails
  BY <1>5 DEF NightFails, Data, Without
<1>6. CASE NightCrashes
  BY <1>6 DEF NightCrashes, Data
<1>7. CASE SafetyDumped
  <2>1. FinishDump(wiper.id) /\ wiper.id \in DumpIds
    BY <1>7, Workers DEF SafetyDumped
  <2>2. /\ dumps' \subseteq DumpFile /\ made' \subseteq MadeDump
        /\ clock' \in Nat /\ writes' \in [DumpIds -> Nat]
    BY <2>1, FinishFacts, WrittenFacts
  <2>3. wiper' \in [doing : {"dump", "cut", "truncate"}, id : DumpIds]
    BY <1>7, RestingIs DEF SafetyDumped
  <2> QED
    BY <1>7, <2>2, <2>3 DEF SafetyDumped, Data
<1>8. CASE Truncate
  BY <1>8 DEF Truncate, Erase
<1>9. CASE WipeFails
  BY <1>9 DEF WipeFails, Data
<1>10. CASE \E f \in dumps : DropDatabase(f)
  <2>1. PICK f \in dumps : DropDatabase(f)
    BY <1>10
  <2>2. /\ nightly' = Resting \/ nightly' \in [doing : {"dump", "cut", "globals"}, id : DumpIds]
        /\ wiper' = Resting \/ wiper' \in [doing : {"dump", "cut", "truncate"}, id : DumpIds]
    BY <2>1, RestingIs, CutOffIs DEF DropDatabase
  <2>3. [doing |-> "open", id |-> f.id, rows |-> f.rows]
          \in [doing : {"open", "load"}, id : DumpIds, rows : SUBSET Nat]
    BY DEF DumpFile
  <2>4. /\ restorer' = NoRestore
           \/ restorer' \in [doing : {"open", "load"}, id : DumpIds, rows : SUBSET Nat]
        /\ database' \subseteq Nat /\ schema' \in BOOLEAN
    BY <2>1, <2>3 DEF DropDatabase
  <2> QED
    BY <2>1, <2>2, <2>4 DEF DropDatabase
<1>11. CASE LoadDump
  <2>1. restorer.rows \subseteq Nat
    BY <1>11 DEF LoadDump, NoRestore
  <2> QED
    BY <1>11, <2>1 DEF LoadDump
<1>14. CASE CreateTables
  <2>1. restorer' \in [doing : {"open", "load"}, id : DumpIds, rows : SUBSET Nat]
    BY <1>14 DEF CreateTables, NoRestore
  <2> QED
    BY <1>14, <2>1 DEF CreateTables
<1>15. CASE ApiWrites
  BY <1>15 DEF ApiWrites
<1>12. CASE LoadFails
  BY <1>12 DEF LoadFails, Data
<1>13. CASE UNCHANGED backupVars
  BY <1>13 DEF backupVars
<1> QED
  BY <1>1, <1>2, <1>3, <1>4, <1>5, <1>6, <1>7, <1>8, <1>9, <1>10, <1>11, <1>12, <1>13,
     <1>14, <1>15 DEF BackupsNext

-----------------------------------------------------------------------------
\* The steps that touch the files, by what they do to them: a dump is begun, a
\* dump is finished, files disappear.
Begun(i) == i \in DumpIds /\ BeginDump(i) /\ UNCHANGED <<globals, made>>

Finished(i) ==
  /\ i \in DumpIds /\ FinishDump(i) /\ Unmade(i)
  /\ \/ UNCHANGED globals
     \/ globals' = globals \cup {[id |-> i, at |-> clock + 1, whole |-> FALSE]}

Fewer == /\ dumps' \subseteq dumps /\ globals' \subseteq globals
         /\ UNCHANGED <<made, writes, clock>>

\* A step begins a dump, finishes one, or takes files away.
LEMMA StepKinds ==
  ASSUME BackupTypes, RunsInv, BackupsNext
  PROVE  \/ \E i \in DumpIds : StartNight(i) /\ Begun(i)
         \/ \E i \in DumpIds : StartWipe(i) /\ Begun(i)
         \/ NightDumped /\ Finished(nightly.id)
         \/ SafetyDumped /\ Finished(wiper.id)
         \/ NightDone
         \/ NightFails /\ Fewer
         \/ /\ \/ NightCrashes \/ Truncate \/ WipeFails \/ LoadDump \/ LoadFails \/ CreateTables \/ ApiWrites
               \/ \E f \in dumps : DropDatabase(f)
            /\ UNCHANGED <<dumps, globals, made, writes, clock>>
<1>1. ASSUME NEW i \in DumpIds, StartNight(i) PROVE Begun(i)
  BY <1>1 DEF StartNight, Begun
<1>2. ASSUME NEW i \in DumpIds, StartWipe(i) PROVE Begun(i)
  BY <1>2 DEF StartWipe, Begun
<1>3. ASSUME NightDumped PROVE Finished(nightly.id)
  BY <1>3, Workers DEF NightDumped, Finished, RunsInv, Dumping
<1>4. ASSUME SafetyDumped PROVE Finished(wiper.id)
  BY <1>4, Workers DEF SafetyDumped, Finished, RunsInv, Dumping
<1>5. ASSUME NightFails PROVE Fewer
  BY <1>5 DEF NightFails, Fewer, Without
<1>6. ASSUME \/ NightCrashes \/ Truncate \/ WipeFails \/ LoadDump \/ LoadFails \/ CreateTables \/ ApiWrites
             \/ \E f \in dumps : DropDatabase(f)
      PROVE  UNCHANGED <<dumps, globals, made, writes, clock>>
  BY <1>6 DEF NightCrashes, Truncate, Erase, WipeFails, LoadDump, LoadFails, CreateTables, ApiWrites,
         DropDatabase
<1> QED
  BY <1>1, <1>2, <1>3, <1>4, <1>5, <1>6 DEF BackupsNext

\* A dump that finishes leaves at most its own roles beside those there were.
LEMMA NewGlobal ==
  ASSUME BackupTypes, NEW i \in DumpIds, Finished(i)
  PROVE  \E h \in GlobalFile : h.id = i /\ h.at = clock + 1 /\ globals' \subseteq globals \cup {h}
<1> DEFINE h == [id |-> i, at |-> clock + 1, whole |-> FALSE]
<1>1. h \in GlobalFile /\ h.id = i /\ h.at = clock + 1
  BY DEF BackupTypes, GlobalFile
<1>2. globals' \subseteq globals \cup {h}
  BY DEF Finished
<1> HIDE DEF h
<1> QED
  BY <1>1, <1>2

\* A dump that begins has a stamp of its own.
LEMMA BegunStamps ==
  ASSUME BackupTypes, StampsInv, NEW i \in DumpIds, Begun(i)
  PROVE  StampsInv'
<1>1. PICK f \in DumpFile :
           /\ f.id = i /\ f.at = clock + 1 /\ f.rows = database /\ f.upto = latest /\ ~f.whole
           /\ dumps' = dumps \cup {f} /\ f \notin dumps
           /\ \A g \in dumps \cup globals \cup made : g.id # i
           /\ writes[i] = 0 /\ Written(i)
  BY BeginFacts DEF Begun
<1>2. /\ clock' = clock + 1 /\ clock \in Nat /\ writes'[i] = clock + 1
      /\ \A j \in DumpIds : j # i => writes'[j] = writes[j]
      /\ \A j \in DumpIds : writes'[j] <= clock'
      /\ \A j, k \in DumpIds : writes'[j] = writes'[k] /\ writes'[j] > 0 => j = k
  BY <1>1, WrittenFacts DEF BackupTypes
<1>3. \A g \in dumps \cup globals \cup made : g.id \in DumpIds /\ writes'[g.id] = writes[g.id]
  BY <1>1, <1>2 DEF BackupTypes, DumpFile, GlobalFile, MadeDump
<1>4. \A g \in dumps' : g.at = writes'[g.id] /\ g.at > 0
  BY <1>1, <1>2, <1>3 DEF StampsInv
<1>5. \A g, h \in dumps' : g.id = h.id => g = h
  BY <1>1 DEF StampsInv
<1>6. \A g \in globals' : writes'[g.id] > 0 /\ writes'[g.id] <= g.at /\ g.at <= clock'
  BY <1>2, <1>3 DEF StampsInv, Begun, BackupTypes, GlobalFile
<1>7. \A m \in made' : writes'[m.id] > 0
  BY <1>3 DEF StampsInv, Begun
<1>8. \A g, h \in globals' : g.id = h.id => g = h
  BY DEF StampsInv, Begun
<1> QED
  BY <1>2, <1>4, <1>5, <1>6, <1>7, <1>8 DEF StampsInv

\* ... and so has one that finishes.
LEMMA FinishedStamps ==
  ASSUME BackupTypes, StampsInv, NEW i \in DumpIds, Finished(i)
  PROVE  StampsInv'
<1>1. PICK f \in dumps, g \in DumpFile, m \in MadeDump :
           /\ f.id = i /\ g.id = i /\ g.at = clock + 1 /\ g.rows = f.rows /\ g.upto = f.upto
           /\ m.id = i /\ m.rows = f.rows /\ m.upto = f.upto /\ ~m.paired
           /\ dumps' = (dumps \ {f}) \cup {g} /\ made' = made \cup {m}
           /\ \A h \in dumps \ {f} : h.id # i
           /\ Written(i)
  BY FinishFacts DEF Finished
<1>2. /\ clock' = clock + 1 /\ clock \in Nat /\ writes'[i] = clock + 1
      /\ \A j \in DumpIds : j # i => writes'[j] = writes[j]
      /\ \A j \in DumpIds : writes'[j] <= clock'
      /\ \A j, k \in DumpIds : writes'[j] = writes'[k] /\ writes'[j] > 0 => j = k
  BY <1>1, WrittenFacts DEF BackupTypes
<1>3. \A h \in dumps \cup globals \cup made :
         h.id \in DumpIds /\ (h.id # i => writes'[h.id] = writes[h.id])
  BY <1>2 DEF BackupTypes, DumpFile, GlobalFile, MadeDump
<1>4. \A h \in dumps' : h.at = writes'[h.id] /\ h.at > 0
  BY <1>1, <1>2, <1>3 DEF StampsInv
<1>5. \A h, d \in dumps' : h.id = d.id => h = d
  BY <1>1 DEF StampsInv
<1>0. PICK k \in GlobalFile : k.id = i /\ k.at = clock + 1 /\ globals' \subseteq globals \cup {k}
  BY NewGlobal
<1>6. \A h \in globals' : writes'[h.id] > 0 /\ writes'[h.id] <= h.at /\ h.at <= clock'
  <2>1. ASSUME NEW h \in globals PROVE writes'[h.id] > 0 /\ writes'[h.id] <= h.at /\ h.at <= clock'
    BY <1>2, <1>3 DEF StampsInv, Finished, Unmade, BackupTypes, GlobalFile
  <2>2. writes'[k.id] > 0 /\ writes'[k.id] <= k.at /\ k.at <= clock'
    BY <1>0, <1>2
  <2> QED
    BY <1>0, <2>1, <2>2
<1>7. \A n \in made' : writes'[n.id] > 0
  BY <1>1, <1>2, <1>3 DEF StampsInv
<1>8. \A h, d \in globals' : h.id = d.id => h = d
  BY <1>0 DEF StampsInv, Finished, Unmade
<1> QED
  BY <1>2, <1>4, <1>5, <1>6, <1>7, <1>8 DEF StampsInv

\* Every step keeps the stamps apart.
LEMMA StampsStep ==
  ASSUME BackupTypes, StampsInv, RunsInv, [BackupsNext]_backupVars
  PROVE  StampsInv'
<1>1. CASE \E i \in DumpIds : Begun(i)
  BY <1>1, BegunStamps
<1>2. CASE \E i \in DumpIds : Finished(i)
  BY <1>2, FinishedStamps
<1>3. CASE Fewer
  BY <1>3 DEF Fewer, StampsInv
<1>4. CASE UNCHANGED <<dumps, globals, made, writes, clock>>
  BY <1>4 DEF StampsInv
<1>5. CASE NightDone
  <2>1. /\ dumps' \subseteq dumps /\ globals' \subseteq RolesWindow
        /\ writes' = writes /\ clock' = clock + 1 /\ clock \in Nat /\ nightly.doing = "globals"
    BY <1>5 DEF NightDone, Pruned, RolesWindow, BackupTypes
  <2>2. PICK g \in RolesWindow : /\ g.id = nightly.id /\ g.at = clock + 1 /\ g.whole
                            /\ \A h \in RolesWindow \ {g} : h \in globals /\ h.id # nightly.id
    BY <2>1, ClosedFacts
  <2>3. \A i \in DumpIds : writes'[i] <= clock'
    BY <2>1 DEF StampsInv, BackupTypes
  <2>4. nightly.id \in DumpIds /\ writes[nightly.id] \in Nat /\ writes[nightly.id] > 0
    BY <2>1, Workers DEF RunsInv, StampsInv, BackupTypes
  <2>5. writes'[g.id] > 0 /\ writes'[g.id] <= g.at /\ g.at <= clock'
    BY <2>1, <2>2, <2>3, <2>4
  <2>6. \A h \in globals : writes'[h.id] > 0 /\ writes'[h.id] <= h.at /\ h.at <= clock'
    BY <2>1 DEF StampsInv, BackupTypes, GlobalFile
  <2>7. \A h \in globals' : writes'[h.id] > 0 /\ writes'[h.id] <= h.at /\ h.at <= clock'
    BY <2>1, <2>2, <2>5, <2>6
  <2>8. \A h, k \in globals' : h.id = k.id => h = k
    BY <2>1, <2>2 DEF StampsInv
  <2>9. \A n \in made' : writes'[n.id] > 0
    BY <1>5, <2>1, PairedFacts DEF StampsInv
  <2> QED
    BY <2>1, <2>3, <2>7, <2>8, <2>9 DEF StampsInv
<1>6. CASE BackupsNext
  BY <1>1, <1>2, <1>3, <1>4, <1>5, <1>6, StepKinds, Workers DEF Begun, Finished
<1> QED
  BY <1>4, <1>6 DEF backupVars

-----------------------------------------------------------------------------
\* What a begun and a finished dump leave of the names: theirs is nobody else's.
LEMMA BegunNames ==
  ASSUME BackupTypes, StampsInv, NEW i \in DumpIds, Begun(i)
  PROVE  /\ \A g \in dumps \cup globals \cup made : g.id \in DumpIds /\ g.id # i /\ writes'[g.id] = writes[g.id]
         /\ \A j \in DumpIds : j # i => writes'[j] = writes[j]
         /\ writes[i] = 0 /\ writes'[i] = clock + 1 /\ clock \in Nat
         /\ \A j \in DumpIds : writes'[j] \in Nat /\ writes[j] \in Nat
         /\ UNCHANGED <<globals, made>> /\ dumps \subseteq dumps'
         /\ \A f \in dumps' : f \in dumps \/ (/\ f.id = i /\ f.at = clock + 1 /\ ~f.whole
                                           /\ f.rows = database /\ f.upto = latest)
<1>1. PICK f \in DumpFile :
           /\ f.id = i /\ f.at = clock + 1 /\ f.rows = database /\ f.upto = latest /\ ~f.whole
           /\ dumps' = dumps \cup {f} /\ f \notin dumps
           /\ \A g \in dumps \cup globals \cup made : g.id # i
           /\ writes[i] = 0 /\ Written(i)
  BY BeginFacts DEF Begun
<1>2. \A g \in dumps \cup globals \cup made : g.id \in DumpIds
  BY DEF BackupTypes, DumpFile, GlobalFile, MadeDump
<1>3. /\ \A j \in DumpIds : j # i => writes'[j] = writes[j]
      /\ writes'[i] = clock + 1 /\ writes' \in [DumpIds -> Nat]
  BY <1>1, WrittenFacts
<1>4. \A g \in dumps \cup globals \cup made : writes'[g.id] = writes[g.id]
  BY <1>1, <1>2, <1>3
<1>5. /\ dumps \subseteq dumps'
      /\ \A h \in dumps' : h \in dumps \/ (/\ h.id = i /\ h.at = clock + 1 /\ ~h.whole
                                        /\ h.rows = database /\ h.upto = latest)
  BY <1>1
<1>6. \A j \in DumpIds : writes'[j] \in Nat /\ writes[j] \in Nat
  BY <1>3 DEF BackupTypes
<1> QED
  BY <1>1, <1>2, <1>3, <1>4, <1>5, <1>6 DEF Begun, BackupTypes

\* When a dump finishes, the other names keep their stamps.
LEMMA FinishedNames ==
  ASSUME BackupTypes, StampsInv, NEW i \in DumpIds, Finished(i)
  PROVE  /\ \A g \in dumps \cup globals \cup made :
              g.id \in DumpIds /\ (g.id # i => writes'[g.id] = writes[g.id])
         /\ \A g \in globals \cup made : g.id # i
         /\ \A j \in DumpIds : j # i => writes'[j] = writes[j]
         /\ writes'[i] = clock + 1 /\ clock \in Nat
         /\ \A j \in DumpIds : writes'[j] \in Nat /\ writes[j] \in Nat
         /\ \A f \in dumps : \E g \in dumps' : g.id = f.id /\ g.rows = f.rows /\ g.upto = f.upto
         /\ \A f \in dumps' : \/ f \in dumps /\ f.id # i
                              \/ /\ f.id = i /\ f.at = clock + 1
                                 /\ \E g \in dumps : g.id = i /\ g.rows = f.rows /\ g.upto = f.upto
                                 /\ \E m \in made' : m.id = i /\ m.rows = f.rows
         /\ made \subseteq made'
         /\ \A m \in made' \ made : /\ m.id = i /\ ~m.paired
                                     /\ \E f \in dumps : f.id = i /\ m.upto = f.upto
         /\ \E f \in dumps, m \in made' :
              f.id = i /\ m.id = i /\ m.rows = f.rows /\ m.upto = f.upto
<1>1. PICK f \in dumps, g \in DumpFile, m \in MadeDump :
           /\ f.id = i /\ g.id = i /\ g.at = clock + 1 /\ g.rows = f.rows /\ g.upto = f.upto
           /\ m.id = i /\ m.rows = f.rows /\ m.upto = f.upto /\ ~m.paired
           /\ dumps' = (dumps \ {f}) \cup {g} /\ made' = made \cup {m}
           /\ \A h \in dumps \ {f} : h.id # i
           /\ Written(i)
  BY FinishFacts DEF Finished
<1>2. \A h \in dumps \cup globals \cup made : h.id \in DumpIds
  BY DEF BackupTypes, DumpFile, GlobalFile, MadeDump
<1>3. /\ \A j \in DumpIds : j # i => writes'[j] = writes[j]
      /\ writes'[i] = clock + 1 /\ writes' \in [DumpIds -> Nat]
  BY <1>1, WrittenFacts
<1>4. \A h \in globals \cup made : h.id # i
  BY DEF Finished, Unmade
<1>5. /\ \A h \in dumps : \E k \in dumps' : k.id = h.id /\ k.rows = h.rows /\ k.upto = h.upto
      /\ \A h \in dumps' : \/ h \in dumps /\ h.id # i
                           \/ /\ h.id = i /\ h.at = clock + 1
                              /\ \E k \in dumps : k.id = i /\ k.rows = h.rows /\ k.upto = h.upto
                              /\ \E n \in made' : n.id = i /\ n.rows = h.rows
      /\ made \subseteq made'
      /\ \A n \in made' \ made : /\ n.id = i /\ ~n.paired
                                  /\ \E h \in dumps : h.id = i /\ n.upto = h.upto
      /\ \E h \in dumps, n \in made' :
           h.id = i /\ n.id = i /\ n.rows = h.rows /\ n.upto = h.upto
  BY <1>1
<1> QED
  BY <1>2, <1>3, <1>4, <1>5 DEF BackupTypes

\* Every step keeps what is known of the jobs that run.
LEMMA RunsStep ==
  ASSUME BackupTypes, StampsInv, RunsInv, [BackupsNext]_backupVars
  PROVE  RunsInv'
<1> USE Workers DEF Dumping
<1>1. ASSUME NEW i \in DumpIds, StartNight(i), Begun(i) PROVE RunsInv'
  <2>1. nightly' = [doing |-> "dump", id |-> i] /\ UNCHANGED wiper
    BY <1>1 DEF StartNight
  <2>2. Unmade(i)'
    BY <1>1, BegunNames DEF Unmade
  <2>3. Dumping(wiper) => wiper.id # i /\ Unmade(wiper.id)'
    BY <1>1, <2>1, BegunNames DEF Unmade, RunsInv
  <2> QED
    BY <2>1, <2>2, <2>3 DEF RunsInv
<1>2. ASSUME NEW i \in DumpIds, StartWipe(i), Begun(i) PROVE RunsInv'
  <2>1. wiper' = [doing |-> "dump", id |-> i] /\ UNCHANGED nightly
    BY <1>2 DEF StartWipe
  <2>2. Unmade(i)'
    BY <1>2, BegunNames DEF Unmade
  <2>3. Dumping(nightly) => nightly.id # i /\ Unmade(nightly.id)'
    BY <1>2, <2>1, BegunNames DEF Unmade, RunsInv
  <2>4. UNCHANGED made /\ dumps \subseteq dumps'
    BY <1>2, BegunNames
  <2> QED
    BY <2>1, <2>2, <2>3, <2>4 DEF RunsInv
<1>3. ASSUME NightDumped, Finished(nightly.id) PROVE RunsInv'
  <2>1. /\ nightly.doing = "dump" /\ nightly.id \in DumpIds /\ UNCHANGED wiper
        /\ nightly'.id = nightly.id /\ nightly'.doing = "globals"
    BY <1>3 DEF NightDumped, BackupTypes
  <2>2. Dumping(wiper) => Unmade(wiper.id)'
    <3> SUFFICES ASSUME Dumping(wiper) PROVE Unmade(wiper.id)'
      OBVIOUS
    <3>1. wiper.id # nightly.id /\ Unmade(wiper.id)
      BY <2>1 DEF RunsInv
    <3>2. writes'[wiper.id] > 0 /\ \A m \in made' : m.id # wiper.id
      BY <1>3, <2>1, <3>1, FinishedNames DEF Unmade
    <3>3. \A g \in globals' : g.id # wiper.id
      BY <1>3, <2>1, <3>1, NewGlobal DEF Unmade
    <3> QED
      BY <2>1, <3>2, <3>3 DEF Unmade
  <2>3. /\ \E f \in dumps' : f.id = nightly.id
        /\ \E m \in made' : m.id = nightly.id
        /\ \A m \in made' : m.id = nightly.id => ~m.paired
    BY <1>3, <2>1, FinishedNames
  <2> QED
    BY <2>1, <2>2, <2>3 DEF RunsInv
<1>4. ASSUME SafetyDumped, Finished(wiper.id) PROVE RunsInv'
  <2>1. /\ wiper.doing = "dump" /\ wiper.id \in DumpIds /\ UNCHANGED <<nightly, globals>>
        /\ wiper'.doing = "truncate"
    BY <1>4 DEF SafetyDumped, BackupTypes
  <2>2. Dumping(nightly) => Unmade(nightly.id)'
    <3> SUFFICES ASSUME Dumping(nightly) PROVE Unmade(nightly.id)'
      OBVIOUS
    <3>1. wiper.id # nightly.id /\ Unmade(nightly.id)
      BY <2>1 DEF RunsInv
    <3>2. writes'[nightly.id] > 0 /\ \A m \in made' : m.id # nightly.id
      BY <1>4, <2>1, <3>1, FinishedNames DEF Unmade
    <3> QED
      BY <2>1, <3>1, <3>2 DEF Unmade
  <2>3. nightly.doing = "globals" =>
          /\ \E f \in dumps' : f.id = nightly.id
          /\ \E m \in made' : m.id = nightly.id
          /\ \A m \in made' : m.id = nightly.id => ~m.paired
    BY <1>4, <2>1, FinishedNames DEF RunsInv
  <2> QED
    BY <2>1, <2>2, <2>3 DEF RunsInv
<1>5. CASE NightDone
  <2>1. nightly' = Resting /\ UNCHANGED <<wiper, writes>> /\ globals' \subseteq RolesWindow
        /\ nightly.doing = "globals"
    BY <1>5 DEF NightDone, Pruned, RolesWindow
  <2>2. \A n \in made' : \E m \in made : n.id = m.id
    BY <1>5, PairedFacts
  <2>3. \E m \in made : m.id = nightly.id
    BY <2>1 DEF RunsInv
  <2>4. Dumping(wiper) => Unmade(wiper.id)'
    <3> SUFFICES ASSUME Dumping(wiper) PROVE Unmade(wiper.id)'
      OBVIOUS
    <3>1. Unmade(wiper.id)
      BY DEF RunsInv
    <3>2. wiper.id # nightly.id
      BY <2>3, <3>1 DEF Unmade
    <3>3. \A g \in RolesWindow : g.id # wiper.id
      BY <2>1, <3>1, <3>2, ClosedFacts DEF Unmade
    <3> QED
      BY <2>1, <2>2, <3>1, <3>3 DEF Unmade
  <2> QED
    BY <2>1, <2>4, RestingIs DEF RunsInv
<1>6. ASSUME NightFails, Fewer PROVE RunsInv'
  <2>1. nightly' = Resting /\ UNCHANGED wiper
    BY <1>6 DEF NightFails
  <2> QED
    BY <1>6, <2>1, RestingIs DEF Fewer, RunsInv, Unmade
<1>7. ASSUME \/ NightCrashes \/ Truncate \/ WipeFails \/ LoadDump \/ LoadFails \/ CreateTables \/ ApiWrites
             \/ \E f \in dumps : DropDatabase(f),
             UNCHANGED <<dumps, globals, made, writes, clock>>
      PROVE  RunsInv'
  <2>1. /\ nightly' \in {nightly, Resting, CutOff(nightly)} /\ wiper' \in {wiper, Resting, CutOff(wiper)}
    BY <1>7 DEF NightCrashes, Truncate, Erase, WipeFails, LoadDump, LoadFails, CreateTables, ApiWrites,
         DropDatabase
  <2> QED
    <3>1. /\ Dumping(nightly') => Dumping(nightly) /\ nightly'.id = nightly.id
          /\ Dumping(wiper') => Dumping(wiper) /\ wiper'.id = wiper.id
          /\ nightly'.doing = "globals" => nightly.doing = "globals" /\ nightly'.id = nightly.id
      BY <2>1, RestingIs, CutJobs
    <3> QED
      BY <1>7, <3>1 DEF RunsInv, Unmade
<1>8. CASE UNCHANGED backupVars
  BY <1>8 DEF backupVars, RunsInv, Unmade
<1> QED
  BY <1>1, <1>2, <1>3, <1>4, <1>5, <1>6, <1>7, <1>8, StepKinds

-----------------------------------------------------------------------------
\* A window holds no file that is older than one it dropped.
LEMMA PrunedAreNewer ==
  ASSUME NEW files, IsFiniteSet(files), \A f \in files : f.at \in Nat,
         NEW f \in files, f \notin Pruned(files), NEW g \in Pruned(files), Keep \in Nat
  PROVE  g.at > f.at
<1> SUFFICES ASSUME ~(g.at > f.at) PROVE FALSE
  OBVIOUS
<1>1. g \in files /\ Cardinality(Newer(g, files)) < Keep /\ ~(Cardinality(Newer(f, files)) < Keep)
  BY DEF Pruned
<1>2. Newer(f, files) \subseteq Newer(g, files) /\ Newer(g, files) \subseteq files
  BY <1>1 DEF Newer
<1>3. /\ Cardinality(Newer(f, files)) <= Cardinality(Newer(g, files))
      /\ Cardinality(Newer(f, files)) \in Nat /\ Cardinality(Newer(g, files)) \in Nat
  BY <1>2, FS_Subset, FS_CardinalityType
<1> QED
  BY <1>1, <1>3

\* There are at most as many files as there are names.
LEMMA FilesFinite ==
  ASSUME BackupTypes, StampsInv
  PROVE  IsFiniteSet(dumps) /\ IsFiniteSet(globals) /\ IsFiniteSet(RolesWindow)
<1>1. IsFiniteSet(DumpIds)
  BY LaterFinite
<1>2. ASSUME NEW files, \A f \in files : f.id \in DumpIds, \A f, g \in files : f.id = g.id => f = g
      PROVE  IsFiniteSet(files)
  <2> DEFINE N == [f \in files |-> f.id]
  <2>1. N \in Injection(files, DumpIds)
    BY <1>2, Fun_IsInj
  <2> QED
    BY <1>1, <2>1, FS_Injection
<1>3. IsFiniteSet(dumps)
  BY <1>2 DEF BackupTypes, DumpFile, StampsInv
<1>4. IsFiniteSet(globals)
  BY <1>2 DEF BackupTypes, GlobalFile, StampsInv
<1>5. Without(globals, nightly.id) \subseteq globals
  BY DEF Without
<1>6. IsFiniteSet(RolesWindow)
  BY <1>4, <1>5, FS_Subset, FS_AddElement DEF RolesWindow
<1> QED
  BY <1>3, <1>4, <1>6

\* Every step keeps the dumps and their roles in order.
LEMMA OrderStep ==
  ASSUME BackupTypes, StampsInv, RunsInv, OrderInv, [BackupsNext]_backupVars
  PROVE  OrderInv'
<1> USE Workers
<1>0. /\ \A g \in globals : g.at \in Nat /\ g.id \in DumpIds /\ writes[g.id] \in Nat /\ writes[g.id] <= clock
      /\ \A f \in dumps : f.at \in Nat /\ f.id \in DumpIds /\ f.at = writes[f.id]
      /\ \A g \in globals : g.at <= clock
      /\ clock \in Nat
  BY DEF BackupTypes, StampsInv, GlobalFile, DumpFile
<1>1. ASSUME NEW i \in DumpIds, Begun(i), StartNight(i) \/ StartWipe(i) PROVE OrderInv'
  <2>1. \A g \in globals : g.id # i /\ writes'[g.id] = writes[g.id]
    BY <1>1, BegunNames
  <2>2. UNCHANGED globals /\ \A g, h \in globals' : g.at > h.at => writes'[g.id] > writes'[h.id]
    BY <1>1, <2>1, BegunNames DEF OrderInv
  <2>3. nightly'.doing = "globals" =>
          \A h \in globals' : h.id # nightly'.id => writes'[h.id] < writes'[nightly'.id]
    <3>1. CASE StartNight(i)
      BY <3>1 DEF StartNight
    <3>2. CASE StartWipe(i)
      <4> SUFFICES ASSUME nightly'.doing = "globals"
                   PROVE  \A h \in globals' : h.id # nightly'.id => writes'[h.id] < writes'[nightly'.id]
        OBVIOUS
      <4>1. UNCHANGED nightly
        BY <3>2 DEF StartWipe
      <4>2. \E f \in dumps : f.id = nightly.id
        BY <4>1 DEF RunsInv
      <4>3. writes'[nightly.id] = writes[nightly.id]
        BY <1>1, <4>2, BegunNames
      <4> QED
        BY <2>1, <2>2, <4>1, <4>3 DEF OrderInv
    <3> QED
      BY <1>1, <3>1, <3>2
  <2>4. \A g \in globals' : \/ \E f \in dumps' : f.id = g.id
                            \/ \A f \in dumps' : f.at > writes'[g.id]
    <3> SUFFICES ASSUME NEW g \in globals, ~ \E f \in dumps' : f.id = g.id
                 PROVE  \A f \in dumps' : f.at > writes'[g.id]
      BY <2>2
    <3>1. \A f \in dumps : f.at > writes[g.id]
      BY <1>1, BegunNames DEF OrderInv
    <3>2. \A f \in dumps' : f \in dumps \/ f.at = clock + 1
      BY <1>1, BegunNames
    <3> QED
      BY <1>0, <2>1, <3>1, <3>2
  <2> QED
    BY <2>2, <2>3, <2>4 DEF OrderInv
<1>2. ASSUME NEW i \in DumpIds, Finished(i),
             \/ NightDumped /\ i = nightly.id
             \/ SafetyDumped /\ UNCHANGED <<globals, nightly>>
      PROVE  OrderInv'
  <2>1. \A g \in globals : g.id # i /\ writes'[g.id] = writes[g.id]
    BY <1>2, FinishedNames
  <2>2. PICK k \in GlobalFile : k.id = i /\ k.at = clock + 1 /\ globals' \subseteq globals \cup {k}
    BY <1>2, NewGlobal
  <2>3. writes'[i] = clock + 1
    BY <1>2, FinishedNames
  <2>4. \A g, h \in globals' : g.at > h.at => writes'[g.id] > writes'[h.id]
    <3> SUFFICES ASSUME NEW g \in globals', NEW h \in globals', g.at > h.at
                 PROVE  writes'[g.id] > writes'[h.id]
      OBVIOUS
    <3>1. CASE g \in globals /\ h \in globals
      BY <2>1, <3>1 DEF OrderInv
    <3>2. CASE g = k
      <4>1. h \in globals
        BY <1>0, <2>2, <3>2
      <4> QED
        BY <1>0, <2>1, <2>2, <2>3, <3>2, <4>1
    <3>3. CASE h = k
      BY <1>0, <2>2, <3>3
    <3> QED
      BY <2>2, <3>1, <3>2, <3>3
  <2>5. nightly'.doing = "globals" =>
          \A h \in globals' : h.id # nightly'.id => writes'[h.id] < writes'[nightly'.id]
    <3>1. CASE NightDumped /\ i = nightly.id
      <4>1. nightly'.id = i
        BY <3>1 DEF NightDumped, BackupTypes
      <4>2. \A h \in globals : writes'[h.id] < writes'[i]
        BY <1>0, <2>1, <2>3
      <4> QED
        BY <2>2, <4>1, <4>2
    <3>2. CASE SafetyDumped /\ UNCHANGED <<globals, nightly>>
      <4> SUFFICES ASSUME nightly'.doing = "globals"
                   PROVE  \A h \in globals' : h.id # nightly'.id => writes'[h.id] < writes'[nightly'.id]
        OBVIOUS
      <4>1. \E m \in made : m.id = nightly.id
        BY <3>2 DEF RunsInv
      <4>2. writes'[nightly.id] = writes[nightly.id]
        BY <1>2, <4>1, FinishedNames
      <4> QED
        BY <2>1, <3>2, <4>2 DEF OrderInv
    <3> QED
      BY <1>2, <3>1, <3>2
  <2>6. \A g \in globals' : \/ \E f \in dumps' : f.id = g.id
                            \/ \A f \in dumps' : f.at > writes'[g.id]
    <3> SUFFICES ASSUME NEW g \in globals', ~ \E f \in dumps' : f.id = g.id
                 PROVE  \A f \in dumps' : f.at > writes'[g.id]
      OBVIOUS
    <3>1. /\ \A f \in dumps : \E h \in dumps' : h.id = f.id
          /\ \E f \in dumps : f.id = i
          /\ \A f \in dumps' : f \in dumps \/ f.at = clock + 1
      BY <1>2, FinishedNames
    <3>2. g \in globals
      BY <2>2, <3>1
    <3>3. \A f \in dumps : f.at > writes[g.id]
      BY <3>1, <3>2 DEF OrderInv
    <3> QED
      BY <1>0, <2>1, <3>1, <3>2, <3>3
  <2> QED
    BY <2>4, <2>5, <2>6 DEF OrderInv
<1>3. CASE NightDone
  <2>1. /\ nightly' = Resting /\ UNCHANGED writes /\ nightly.doing = "globals"
        /\ globals' = Pruned(RolesWindow) /\ dumps' = Pruned(dumps)
        /\ globals' \subseteq RolesWindow /\ dumps' \subseteq dumps
    BY <1>3 DEF NightDone, Pruned, RolesWindow
  <2>2. PICK k \in RolesWindow : /\ k.id = nightly.id /\ k.at = clock + 1 /\ k.whole
                            /\ \A h \in RolesWindow \ {k} : h \in globals /\ h.id # nightly.id
    BY <2>1, ClosedFacts
  <2>3. \A g, h \in globals' : g.at > h.at => writes'[g.id] > writes'[h.id]
    <3> SUFFICES ASSUME NEW g \in RolesWindow, NEW h \in RolesWindow, g.at > h.at
                 PROVE  writes[g.id] > writes[h.id]
      BY <2>1
    <3>1. CASE h = k
      BY <1>0, <2>2, <3>1
    <3>2. CASE h # k /\ g = k
      <4>1. writes[nightly.id] \in Nat /\ writes[h.id] < writes[nightly.id]
        BY <2>1, <2>2, <3>2 DEF OrderInv, BackupTypes
      <4> QED
        BY <1>0, <2>2, <3>2, <4>1
    <3>3. CASE h # k /\ g # k
      BY <2>2, <3>3 DEF OrderInv
    <3> QED
      BY <3>1, <3>2, <3>3
  <2>4. \A g \in globals' : \/ \E f \in dumps' : f.id = g.id
                            \/ \A f \in dumps' : f.at > writes'[g.id]
    <3> SUFFICES ASSUME NEW g \in RolesWindow, ~ \E f \in dumps' : f.id = g.id
                 PROVE  \A f \in dumps' : f.at > writes[g.id]
      BY <2>1
    <3>1. CASE \E f \in dumps : f.id = g.id
      <4>1. PICK f \in dumps : f.id = g.id
        BY <3>1
      <4>2. f \notin Pruned(dumps)
        BY <2>1, <4>1
      <4>3. \A h \in dumps' : h.at > f.at
        BY <1>0, <2>1, <4>2, FilesFinite, PrunedAreNewer, BackupsAssumption
      <4> QED
        BY <1>0, <4>1, <4>3
    <3>2. CASE ~ \E f \in dumps : f.id = g.id
      <4>1. g \in globals
        BY <2>1, <2>2, <3>2 DEF RunsInv
      <4> QED
        BY <2>1, <3>2, <4>1 DEF OrderInv
    <3> QED
      BY <3>1, <3>2
  <2> QED
    BY <2>1, <2>3, <2>4, RestingIs DEF OrderInv
<1>4. ASSUME NightFails, Fewer PROVE OrderInv'
  <2>1. nightly' = Resting /\ UNCHANGED writes /\ dumps' \subseteq dumps /\ globals' \subseteq globals
    BY <1>4 DEF NightFails, Fewer
  <2>2. Dumping(nightly) => \A g \in globals : g.id # nightly.id
    BY DEF RunsInv, Unmade
  <2>3. \A f \in dumps : f \in dumps' \/ (Dumping(nightly) /\ f.id = nightly.id)
    BY <1>4 DEF NightFails, Without, Dumping
  <2>4. \A g \in globals : (\E f \in dumps : f.id = g.id) => \E f \in dumps' : f.id = g.id
    BY <2>2, <2>3
  <2> QED
    BY <2>1, <2>4, RestingIs DEF OrderInv
<1>5. ASSUME \/ NightCrashes \/ Truncate \/ WipeFails \/ LoadDump \/ LoadFails \/ CreateTables \/ ApiWrites
             \/ \E f \in dumps : DropDatabase(f),
             UNCHANGED <<dumps, globals, made, writes, clock>>
      PROVE  OrderInv'
  <2>1. nightly' \in {nightly, Resting, CutOff(nightly)}
    BY <1>5 DEF NightCrashes, Truncate, Erase, WipeFails, LoadDump, LoadFails, CreateTables, ApiWrites,
         DropDatabase
  <2>2. nightly'.doing = "globals" => nightly.doing = "globals" /\ nightly'.id = nightly.id
    BY <2>1, RestingIs, CutJobs
  <2> QED
    BY <1>5, <2>2 DEF OrderInv
<1>6. CASE UNCHANGED backupVars
  BY <1>6 DEF backupVars, OrderInv
<1>7. CASE BackupsNext
  <2>1. ASSUME NightDumped, Finished(nightly.id) PROVE OrderInv'
    BY <1>2, <2>1 DEF Finished
  <2>2. ASSUME SafetyDumped, Finished(wiper.id) PROVE OrderInv'
    BY <1>2, <2>2 DEF Finished, SafetyDumped
  <2> QED
    BY <1>1, <1>3, <1>4, <1>5, <1>7, <2>1, <2>2, StepKinds
<1> QED
  BY <1>6, <1>7

-----------------------------------------------------------------------------
\* The names since one of them.
LEMMA SinceFacts ==
  ASSUME BackupTypes, NEW k \in DumpIds
  PROVE  /\ Later(k) \subseteq DumpIds /\ Since(k) \subseteq DumpIds
         /\ Since(k) = IF wiper.doing = "dump" THEN Later(k) \cup {wiper.id} ELSE Later(k)
BY Workers DEF Since, Later

\* A smaller set of names has no more of them.
LEMMA SmallerSet ==
  ASSUME NEW S \in SUBSET DumpIds, NEW T \in SUBSET S, NEW n \in Nat, Cardinality(S) <= n
  PROVE  Cardinality(T) <= n
<1>1. Cardinality(T) <= Cardinality(S) /\ Cardinality(T) \in Nat /\ Cardinality(S) \in Nat
  BY LaterFinite, FS_Subset
<1> QED
  BY <1>1

\* Every step keeps what is known of the safety dumps.
LEMMA WipesStep ==
  ASSUME BackupTypes, StampsInv, RunsInv, WipesInv, [BackupsNext]_backupVars
  PROVE  WipesInv'
<1> USE Workers
<1>0. wipes \in Nat
  BY DEF BackupTypes
<1>1. ASSUME NEW i \in DumpIds, StartNight(i) PROVE WipesInv'
  BY <1>1 DEF StartNight, WipesInv, Data
<1>2. ASSUME NEW i \in DumpIds, Begun(i), StartWipe(i) PROVE WipesInv'
  <2>1. /\ wipes' = wipes + 1 /\ wiper' = [doing |-> "dump", id |-> i] /\ UNCHANGED nightly
        /\ wiper = Resting
    BY <1>2 DEF StartWipe
  <2>2. ASSUME nightly.doing = "globals" PROVE Cardinality(Since(nightly.id)') <= wipes + 1
    <3> DEFINE k == nightly.id
    <3>1. k \in DumpIds /\ Cardinality(Later(k)) <= wipes
      BY <2>1, <2>2, SinceFacts DEF WipesInv
    <3>2. \E f \in dumps : f.id = k
      BY <2>2 DEF RunsInv
    <3>3. k # i /\ Written(i)
      BY <1>2, <3>2, BegunNames DEF Begun, BeginDump
    <3>4. Later(k)' = Later(k) \cup {i}
      BY <2>1, <3>1, <3>3, LaterGrows
    <3>5. Since(k)' = Later(k) \cup {i}
      BY <2>1, <3>4 DEF Since, Later
    <3>6. Later(k) \in SUBSET DumpIds
      BY DEF Later
    <3>7. /\ Cardinality(Later(k) \cup {i}) \in {Cardinality(Later(k)), Cardinality(Later(k)) + 1}
          /\ Cardinality(Later(k)) \in Nat
      BY <3>6, LaterFinite, FS_AddElement
    <3> QED
      BY <1>0, <3>1, <3>5, <3>7
  <2> QED
    BY <1>0, <2>1, <2>2 DEF WipesInv
<1>3. ASSUME NightDumped, Finished(nightly.id) PROVE WipesInv'
  <2>1. /\ nightly.id \in DumpIds /\ nightly'.id = nightly.id /\ UNCHANGED <<wiper, wipes>>
    BY <1>3 DEF NightDumped, BackupTypes, Data
  <2>2. Later(nightly.id)' = {}
    <3>1. Written(nightly.id)
      BY <1>3 DEF Finished, FinishDump
    <3> QED
      BY <2>1, <3>1, WrittenFacts DEF Later
  <2>3. Since(nightly.id)' = IF wiper.doing = "dump" THEN {wiper.id} ELSE {}
    BY <2>1, <2>2 DEF Since, Later
  <2>4. Cardinality({wiper.id}) = 1 /\ Cardinality({}) = 0
    BY FS_Singleton, FS_EmptySet, Zenon
  <2> QED
    BY <1>0, <2>1, <2>3, <2>4 DEF WipesInv
<1>4. ASSUME SafetyDumped, Finished(wiper.id) PROVE WipesInv'
  <2>1. /\ UNCHANGED <<nightly, wipes>> /\ wiper'.doing = "truncate" /\ wiper.doing = "dump"
        /\ wiper.id \in DumpIds
    BY <1>4 DEF SafetyDumped, BackupTypes, Data
  <2>2. ASSUME nightly.doing = "globals" PROVE Cardinality(Since(nightly.id)') <= wipes
    <3> DEFINE k == nightly.id
    <3>1. \E m \in made : m.id = k
      BY <2>2 DEF RunsInv
    <3>2. k \in DumpIds /\ k # wiper.id
      BY <1>4, <2>1, <2>2, <3>1, FinishedNames
    <3>5. Written(wiper.id)
      BY <1>4 DEF Finished, FinishDump
    <3>3. Later(k)' = Later(k) \cup {wiper.id}
      BY <2>1, <3>2, <3>5, LaterGrows
    <3>4. Since(k)' = Since(k)
      BY <2>1, <3>3 DEF Since, Later
    <3> QED
      BY <2>2, <3>4 DEF WipesInv
  <2> QED
    BY <2>1, <2>2 DEF WipesInv
<1>5. CASE NightDone
  BY <1>5, RestingIs DEF NightDone, WipesInv, Data
<1>6. CASE NightFails
  BY <1>6, RestingIs DEF NightFails, WipesInv, Data
<1>7. ASSUME \/ NightCrashes \/ Truncate \/ WipeFails \/ LoadDump \/ LoadFails \/ CreateTables \/ ApiWrites
             \/ \E f \in dumps : DropDatabase(f)
      PROVE  WipesInv'
  <2>1. /\ nightly' \in {nightly, Resting, CutOff(nightly)} /\ wiper' \in {wiper, Resting, CutOff(wiper)}
        /\ UNCHANGED <<wipes, writes>>
    BY <1>7 DEF NightCrashes, Truncate, Erase, WipeFails, LoadDump, LoadFails, CreateTables, ApiWrites,
         DropDatabase, Data
  <2>2. /\ nightly'.doing = "globals" => nightly.doing = "globals" /\ nightly'.id = nightly.id
        /\ wiper'.doing = "dump" => wiper' = wiper
    BY <2>1, RestingIs, CutJobs
  <2>3. ASSUME nightly'.doing = "globals" PROVE Cardinality(Since(nightly.id)') <= wipes
    <3>1. nightly.doing = "globals" /\ nightly.id \in DumpIds
      BY <2>2, <2>3
    <3>2. Since(nightly.id)' \subseteq Since(nightly.id)
      BY <2>1, <2>2, <2>3 DEF Since
    <3>3. Since(nightly.id) \in SUBSET DumpIds
      BY <3>1, SinceFacts
    <3>4. Cardinality(Since(nightly.id)) <= wipes
      BY <3>1 DEF WipesInv
    <3> QED
      BY <1>0, <3>2, <3>3, <3>4, SmallerSet
  <2> QED
    BY <2>1, <2>2, <2>3 DEF WipesInv
<1>8. CASE UNCHANGED backupVars
  BY <1>8 DEF backupVars, WipesInv, Since
<1> QED
  BY <1>1, <1>2, <1>3, <1>4, <1>5, <1>6, <1>7, <1>8, StepKinds

\* A dump that was completed goes on having been.
LEMMA MadeStays ==
  ASSUME BackupTypes, StampsInv, RunsInv, [BackupsNext]_backupVars
  PROVE  \A m \in made : \E n \in made' : n.id = m.id /\ n.rows = m.rows /\ n.upto = m.upto
<1>1. ASSUME NEW i \in DumpIds, Begun(i) PROVE made \subseteq made'
  BY <1>1 DEF Begun
<1>2. ASSUME NEW i \in DumpIds, Finished(i) PROVE made \subseteq made'
  BY <1>2, FinishedNames
<1>3. ASSUME NightDone
      PROVE  \A m \in made : \E n \in made' : n.id = m.id /\ n.rows = m.rows /\ n.upto = m.upto
  BY <1>3, PairedFacts
<1>4. ASSUME NightFails, Fewer PROVE made \subseteq made'
  BY <1>4 DEF Fewer
<1> QED
  BY <1>1, <1>2, <1>3, <1>4, StepKinds DEF backupVars, Finished

\* The newest ticket is not newer than itself.
LEMMA LatestIs == BackupTypes => latest <= latest
BY DEF BackupTypes

\* Every step keeps the dump that would undo the wipe.
LEMMA WipeStep ==
  ASSUME BackupTypes, StampsInv, RunsInv, WipeInv, [BackupsNext]_backupVars
  PROVE  WipeInv'
<1> USE Workers
<1>0. /\ \A m \in made : \E n \in made' : n.id = m.id /\ n.rows = m.rows /\ n.upto = m.upto
      /\ \A k : Saved(k) => Saved(k)'
  BY MadeStays DEF Saved
<1>1. ASSUME NEW i \in DumpIds, StartNight(i), Begun(i) PROVE WipeInv'
  <2>1. UNCHANGED <<wiper, restorer, database, latest>>
    BY <1>1 DEF StartNight, Data
  <2>2. wiper.doing = "dump" => wiper.id # i
    BY <1>1, BegunNames DEF RunsInv, Unmade, Dumping
  <2> QED
    BY <1>0, <1>1, <2>1, <2>2, BegunNames, LatestIs DEF WipeInv
<1>2. ASSUME NEW i \in DumpIds, StartWipe(i), Begun(i) PROVE WipeInv'
  <2>1. wiper' = [doing |-> "dump", id |-> i] /\ UNCHANGED <<restorer, database, latest>>
    BY <1>2 DEF StartWipe, Data
  <2>2. \A f \in dumps' : f.id = i => f.rows = database
    BY <1>2, BegunNames
  <2> QED
    BY <1>0, <1>2, <2>1, <2>2, BegunNames, LatestIs DEF WipeInv
<1>3. ASSUME NEW i \in DumpIds, Finished(i), UNCHANGED <<restorer, database, latest>>
      PROVE  /\ \A f \in dumps' \cup made' : f.upto <= latest
             /\ \A f \in dumps' : f.whole => \A k \in f.rows : Saved(k)'
             /\ \A k \in restorer'.rows : Saved(k)'
  <2>1. \A f \in dumps' \cup made' : f.upto <= latest
    BY <1>3, FinishedNames DEF WipeInv
  <2>2. \A f \in dumps' : f.whole => \A k \in f.rows : Saved(k)'
    BY <1>0, <1>3, FinishedNames DEF WipeInv, Saved
  <2> QED
    BY <1>0, <1>3, <2>1, <2>2 DEF WipeInv
<1>4. ASSUME NightDumped, Finished(nightly.id) PROVE WipeInv'
  <2>1. /\ UNCHANGED <<wiper, restorer, database, latest>>
        /\ nightly.id \in DumpIds /\ nightly.doing = "dump"
    BY <1>4 DEF NightDumped, Data
  <2>2. wiper.doing = "dump" => wiper.id # nightly.id
    BY <2>1 DEF RunsInv, Dumping
  <2>3. wiper.doing = "dump" =>
          \A f \in dumps' : f.id = wiper.id =>
            \A k \in database : k > f.upto \/ k \in f.rows \/ Saved(k)'
    BY <1>0, <1>4, <2>1, <2>2, FinishedNames DEF WipeInv
  <2> QED
    BY <1>0, <1>3, <1>4, <2>1, <2>3 DEF WipeInv
<1>5. ASSUME SafetyDumped, Finished(wiper.id) PROVE WipeInv'
  <2>1. /\ UNCHANGED <<restorer, database, latest>> /\ wiper.doing = "dump" /\ wiper.id \in DumpIds
        /\ wiper'.doing = "truncate" /\ wiper'.id = wiper.id
    BY <1>5 DEF SafetyDumped, BackupTypes, Data
  <2>2. PICK f \in dumps, m \in made' :
          f.id = wiper.id /\ m.id = wiper.id /\ m.rows = f.rows /\ m.upto = f.upto
    BY <1>5, <2>1, FinishedNames
  <2>3. \A k \in database : k > m.upto \/ Saved(k)'
    BY <1>0, <2>1, <2>2 DEF WipeInv, Saved
  <2> QED
    BY <1>3, <1>5, <2>1, <2>2, <2>3 DEF WipeInv
<1>6. CASE NightDone
  <2>1. UNCHANGED <<wiper, restorer, database, latest>> /\ dumps' \subseteq dumps
    BY <1>6 DEF NightDone, Data, Pruned
  <2>2. \A n \in made' : n.upto <= latest
    BY <1>6, PairedFacts DEF WipeInv
  <2> QED
    BY <1>0, <2>1, <2>2 DEF WipeInv
<1>7. ASSUME NightFails, Fewer PROVE WipeInv'
  <2>1. UNCHANGED <<wiper, restorer, database, latest, made>> /\ dumps' \subseteq dumps
    BY <1>7 DEF NightFails, Fewer, Data
  <2> QED
    BY <1>0, <2>1 DEF WipeInv
<1>8. ASSUME UNCHANGED <<dumps, globals, made, writes, clock>>,
             \/ NightCrashes \/ Truncate \/ WipeFails \/ LoadDump \/ LoadFails \/ CreateTables \/ ApiWrites
             \/ \E f \in dumps : DropDatabase(f)
      PROVE  WipeInv'
  <2>1. CASE NightCrashes
    BY <1>0, <1>8, <2>1 DEF NightCrashes, WipeInv, Data
  <2>2. CASE Truncate \/ WipeFails
    <3>1. /\ wiper' = Resting /\ UNCHANGED <<restorer, latest>>
      BY <2>2 DEF Truncate, Erase, WipeFails, Data
    <3> QED
      BY <1>0, <1>8, <3>1, RestingIs DEF WipeInv
  <2>3. CASE LoadDump
    <3>1. /\ UNCHANGED <<wiper, latest>> /\ restorer' = NoRestore
          /\ database' = database \cup restorer.rows
      BY <2>3 DEF LoadDump
    <3>2. NoRestore.rows = {}
      BY DEF NoRestore
    <3> QED
      BY <1>0, <1>8, <3>1, <3>2 DEF WipeInv
  <2>4. CASE LoadFails
    <3>1. UNCHANGED <<wiper, latest, database>> /\ restorer' = NoRestore
      BY <2>4 DEF LoadFails, Data
    <3>2. NoRestore.rows = {}
      BY DEF NoRestore
    <3> QED
      BY <1>0, <1>8, <3>1, <3>2 DEF WipeInv
  <2>5. CASE CreateTables
    <3>1. UNCHANGED <<wiper, latest, database>> /\ restorer'.rows = restorer.rows
      BY <2>5 DEF CreateTables, BackupTypes, NoRestore
    <3> QED
      BY <1>0, <1>8, <3>1 DEF WipeInv
  <2>6. CASE ApiWrites
    <3>1. /\ UNCHANGED <<wiper, restorer>> /\ latest' = latest + 1 /\ latest \in Nat
          /\ database' = database \cup {latest + 1}
      BY <2>6 DEF ApiWrites, BackupTypes
    <3>2. \A f \in dumps \cup made : f.upto \in Nat /\ f.upto <= latest /\ f.upto < latest + 1
      BY <3>1 DEF WipeInv, BackupTypes, DumpFile, MadeDump
    <3>3. \A f \in dumps \cup made : f.upto <= latest + 1
      BY <3>1, <3>2
    <3> QED
      BY <1>0, <1>8, <3>1, <3>2, <3>3 DEF WipeInv
  <2>7. CASE \E f \in dumps : DropDatabase(f)
    <3>1. PICK f \in dumps : DropDatabase(f)
      BY <2>7
    <3>2. /\ wiper'.id = wiper.id /\ wiper'.doing # "dump" /\ UNCHANGED latest
          /\ wiper'.doing = "truncate" => wiper.doing = "truncate"
          /\ database' \subseteq database /\ f.whole
          /\ restorer'.rows \in {restorer.rows, f.rows}
      BY <3>1, CutJobs DEF DropDatabase
    <3> QED
      BY <1>0, <1>8, <3>2 DEF WipeInv
  <2> QED
    BY <1>8, <2>1, <2>2, <2>3, <2>4, <2>5, <2>6, <2>7
<1>9. CASE UNCHANGED backupVars
  BY <1>9 DEF backupVars, WipeInv, Saved
<1> QED
  BY <1>1, <1>2, <1>4, <1>5, <1>6, <1>7, <1>8, <1>9, StepKinds

-----------------------------------------------------------------------------
\* Files map to files that are as new or newer, one to one: there are as many.
LEMMA NotFewer ==
  ASSUME NEW S, NEW T, IsFiniteSet(T), NEW F \in [S -> T],
         \A x, y \in S : F[x] = F[y] => x = y
  PROVE  /\ Cardinality(S) <= Cardinality(T)
         /\ Cardinality(S) \in Nat /\ Cardinality(T) \in Nat
<1>1. F \in Injection(S, T)
  BY Fun_IsInj
<1>2. IsFiniteSet(S) /\ Cardinality(S) <= Cardinality(T)
  BY <1>1, FS_Injection
<1> QED
  BY <1>2, FS_CardinalityType

\* The newer files of a dump are among the names after it.
LEMMA NewerAreLater ==
  ASSUME BackupTypes, StampsInv, NEW f \in dumps
  PROVE  /\ Cardinality(Newer(f, dumps)) <= Cardinality(Later(f.id))
         /\ Cardinality(Newer(f, dumps)) \in Nat /\ Cardinality(Later(f.id)) \in Nat
<1> DEFINE F == [g \in Newer(f, dumps) |-> g.id]
<1>1. F \in [Newer(f, dumps) -> Later(f.id)]
  BY DEF Newer, Later, StampsInv, BackupTypes, DumpFile
<1>2. \A x, y \in Newer(f, dumps) : F[x] = F[y] => x = y
  BY DEF Newer, StampsInv
<1>3. IsFiniteSet(Later(f.id))
  BY LaterFinite DEF Later
<1> QED
  BY <1>1, <1>2, <1>3, NotFewer

\* Every step keeps the latest dumps of the window.
LEMMA RollingStep ==
  ASSUME BackupTypes, StampsInv, RunsInv, RollingWindow, [BackupsNext]_backupVars
  PROVE  RollingWindow'
<1> USE Workers
<1>0. RollingWindow = \A m \in made : (\E f \in dumps : f.id = m.id) \/ Cardinality(Later(m.id)) >= Keep
  BY DEF RollingWindow, Later
<1>1. ASSUME NEW i \in DumpIds, Written(i), NEW j \in DumpIds, j # i, Cardinality(Later(j)) >= Keep
      PROVE  Cardinality(Later(j)') >= Keep
  <2>1. Later(j) \in SUBSET DumpIds /\ Later(j)' = Later(j) \cup {i} /\ Keep \in Nat
    BY <1>1, LaterGrows, BackupsAssumption DEF Later
  <2>2. Cardinality(Later(j)') >= Cardinality(Later(j)) /\ Cardinality(Later(j)) \in Nat
    BY <1>1, <2>1, LaterGrows, LaterFinite
  <2>3. Cardinality(Later(j)') \in Nat
    BY <2>1, LaterFinite
  <2> QED
    BY <1>1, <2>1, <2>2, <2>3
<1>2. ASSUME NEW i \in DumpIds, Begun(i) PROVE RollingWindow'
  <2>1. Written(i)
    BY <1>2 DEF Begun, BeginDump
  <2>2. ASSUME NEW m \in made
        PROVE  (\E f \in dumps' : f.id = m.id) \/ Cardinality(Later(m.id)') >= Keep
    BY <1>0, <1>1, <1>2, <2>1, BegunNames
  <2> QED
    BY <1>2, <2>2, BegunNames DEF RollingWindow, Later
<1>3. ASSUME NEW i \in DumpIds, Finished(i) PROVE RollingWindow'
  <2>1. Written(i)
    BY <1>3 DEF Finished, FinishDump
  <2>2. ASSUME NEW m \in made
        PROVE  (\E f \in dumps' : f.id = m.id) \/ Cardinality(Later(m.id)') >= Keep
    <3>1. m.id \in DumpIds /\ m.id # i
      BY <1>3, FinishedNames
    <3>2. \A f \in dumps : \E g \in dumps' : g.id = f.id
      BY <1>3, FinishedNames
    <3> QED
      BY <1>0, <1>1, <2>1, <3>1, <3>2
  <2>3. ASSUME NEW m \in made' \ made PROVE \E f \in dumps' : f.id = m.id
    BY <1>3, FinishedNames
  <2> QED
    BY <2>2, <2>3 DEF RollingWindow, Later
<1>4. CASE NightDone
  <2>1. dumps' = Pruned(dumps) /\ UNCHANGED writes
    BY <1>4 DEF NightDone
  <2>2. ASSUME NEW f \in dumps, f \notin Pruned(dumps) PROVE Cardinality(Later(f.id)) >= Keep
    <3>1. ~(Cardinality(Newer(f, dumps)) < Keep) /\ Keep \in Nat
      BY <2>2, BackupsAssumption DEF Pruned
    <3> QED
      BY <3>1, NewerAreLater
  <2>3. ASSUME NEW m \in made
        PROVE  (\E f \in dumps' : f.id = m.id) \/ Cardinality(Later(m.id)) >= Keep
    BY <1>0, <2>1, <2>2
  <2>4. ASSUME NEW n \in made'
        PROVE  (\E f \in dumps' : f.id = n.id) \/ Cardinality(Later(n.id)) >= Keep
    BY <1>4, <2>3, PairedFacts
  <2> QED
    BY <2>1, <2>4 DEF RollingWindow, Later
<1>5. ASSUME NightFails, Fewer PROVE RollingWindow'
  <2>1. \A f \in dumps : f \in dumps' \/ (Dumping(nightly) /\ f.id = nightly.id)
    BY <1>5 DEF NightFails, Without, Dumping
  <2>2. Dumping(nightly) => \A m \in made : m.id # nightly.id
    BY DEF RunsInv, Unmade
  <2> QED
    BY <1>5, <2>1, <2>2 DEF Fewer, RollingWindow
<1>6. CASE UNCHANGED <<dumps, globals, made, writes, clock>>
  BY <1>6 DEF RollingWindow
<1> QED
  BY <1>2, <1>3, <1>4, <1>5, <1>6, StepKinds DEF backupVars, Finished

\* Every step keeps the wipe undoable.
LEMMA UndoableStep ==
  ASSUME BackupTypes, StampsInv, RunsInv, WipeInv, WipeUndoable, [BackupsNext]_backupVars
  PROVE  WipeUndoable'
<1> USE Workers
<1>1. \A m \in made : \E n \in made' : n.id = m.id /\ n.rows = m.rows /\ n.upto = m.upto
  BY MadeStays
<1>2. \/ wiped' = wiped
      \/ wiped' = wiped \cup (database \X {wiper.id}) /\ wiper.doing = "truncate"
  <2>1. CASE \E i \in DumpIds : StartNight(i) \/ StartWipe(i)
    BY <2>1 DEF StartNight, StartWipe
  <2>2. CASE NightDumped \/ NightDone \/ NightFails \/ NightCrashes \/ SafetyDumped \/ WipeFails
    BY <2>2 DEF NightDumped, NightDone, NightFails, NightCrashes, SafetyDumped, WipeFails
  <2>3. CASE \/ Truncate \/ LoadDump \/ LoadFails \/ CreateTables \/ ApiWrites
             \/ \E f \in dumps : DropDatabase(f)
    BY <2>3 DEF Truncate, Erase, LoadDump, LoadFails, CreateTables, ApiWrites, DropDatabase
  <2>4. CASE UNCHANGED backupVars
    BY <2>4 DEF backupVars
  <2> QED
    BY <2>1, <2>2, <2>3, <2>4 DEF BackupsNext
<1>3. ASSUME NEW gone \in database \X {wiper.id}, wiper.doing = "truncate"
      PROVE  \E m \in made : gone[1] \in m.rows \/ (m.id = gone[2] /\ gone[1] > m.upto)
  <2>1. gone[1] \in database /\ gone[2] = wiper.id
    OBVIOUS
  <2> QED
    BY <1>3, <2>1 DEF WipeInv, Saved
<1>4. \A gone \in wiped' : \E m \in made :
         gone[1] \in m.rows \/ (m.id = gone[2] /\ gone[1] > m.upto)
  BY <1>2, <1>3 DEF WipeUndoable
<1> QED
  BY <1>1, <1>4 DEF WipeUndoable

-----------------------------------------------------------------------------
\* A run that was completed, and its dump, and its globals.
Dumped(m) == \E f \in dumps : f.id = m.id
Roled(m) == \E g \in globals : g.id = m.id /\ g.whole

\* A pair is kept, and one of them is whole.
LEMMA PairsAre ==
  PairsKept = /\ \A m \in made : m.paired /\ Dumped(m) => Roled(m)
              /\ (\E m \in made : m.paired) => \E m \in made : m.paired /\ Dumped(m) /\ Roled(m)
<1> DEFINE complete == {m \in made : m.paired}
           Pair(m) == Dumped(m) /\ Roled(m)
<1>1. PairsKept = /\ \A m \in complete : Dumped(m) => Pair(m)
                  /\ complete # {} => \E m \in complete : Pair(m)
  BY DEF PairsKept, Dumped, Roled
<1> QED
  BY <1>1

\* The globals of a completed run are within their window if its dump is: every
\* later one has a later dump.
LEMMA RolesStay ==
  ASSUME BackupTypes, StampsInv, RunsInv, OrderInv, nightly.doing = "globals",
         NEW f \in Pruned(dumps), NEW g \in globals, g.id = f.id, g.id # nightly.id
  PROVE  g \in Pruned(RolesWindow)
<1> USE Workers
<1>1. PICK k \in RolesWindow : /\ k.id = nightly.id /\ k.at = clock + 1 /\ k.whole
                          /\ \A h \in RolesWindow \ {k} : h \in globals /\ h.id # nightly.id
  BY ClosedFacts
<1>2. g \in RolesWindow /\ f \in dumps /\ Cardinality(Newer(f, dumps)) < Keep
  BY ClosedFacts DEF Pruned
<1>3. f.at = writes[g.id] /\ writes[g.id] \in Nat
  BY <1>2 DEF StampsInv, BackupTypes, GlobalFile
<1>4. ASSUME NEW h \in Newer(g, RolesWindow)
      PROVE  \E d \in Newer(f, dumps) : d.id = h.id
  <2>1. h \in RolesWindow /\ h.at > g.at
    BY <1>4 DEF Newer
  <2>2. CASE h = k
    <3>1. PICK d \in dumps : d.id = nightly.id
      BY DEF RunsInv
    <3>2. d.at = writes[nightly.id] /\ writes[g.id] < writes[nightly.id]
      BY <3>1 DEF StampsInv, OrderInv
    <3>3. d \in Newer(f, dumps)
      BY <1>3, <3>2 DEF Newer, BackupTypes
    <3> QED
      BY <1>1, <2>2, <3>1, <3>3
  <2>3. CASE h # k
    <3>1. h \in globals
      BY <1>1, <2>1, <2>3
    <3>2. writes[h.id] > writes[g.id]
      BY <2>1, <3>1 DEF OrderInv
    <3>3. writes[h.id] \in Nat
      BY <3>1 DEF BackupTypes, GlobalFile
    <3>4. ~ \A d \in dumps : d.at > writes[h.id]
      BY <1>2, <1>3, <3>2, <3>3
    <3>5. PICK d \in dumps : d.id = h.id
      BY <3>1, <3>4 DEF OrderInv
    <3>6. d.at = writes[h.id]
      BY <3>5 DEF StampsInv
    <3> QED
      BY <1>3, <3>2, <3>3, <3>5, <3>6 DEF Newer
  <2> QED
    BY <2>2, <2>3
<1> DEFINE F == [h \in Newer(g, RolesWindow) |-> CHOOSE d \in Newer(f, dumps) : d.id = h.id]
<1>5. F \in [Newer(g, RolesWindow) -> Newer(f, dumps)]
  BY <1>4
<1>6. \A x, y \in RolesWindow : x.id = y.id => x = y
  BY <1>1 DEF StampsInv
<1>7. ASSUME NEW x \in Newer(g, RolesWindow), NEW y \in Newer(g, RolesWindow), F[x] = F[y] PROVE x = y
  <2>1. F[x].id = x.id /\ F[y].id = y.id
    BY <1>4
  <2>2. x.id = y.id /\ x \in RolesWindow /\ y \in RolesWindow
    BY <1>7, <2>1 DEF Newer
  <2> QED
    BY <1>6, <2>2
<1>8. IsFiniteSet(Newer(f, dumps))
  <2>1. Newer(f, dumps) \subseteq dumps
    BY DEF Newer
  <2> QED
    BY <2>1, FilesFinite, FS_Subset
<1>9. /\ Cardinality(Newer(g, RolesWindow)) <= Cardinality(Newer(f, dumps))
      /\ Cardinality(Newer(g, RolesWindow)) \in Nat /\ Cardinality(Newer(f, dumps)) \in Nat
  <2> HIDE DEF F
  <2> QED
    BY <1>5, <1>7, <1>8, NotFewer
<1> QED
  BY <1>2, <1>9, BackupsAssumption DEF Pruned

\* The run that is completed now keeps its dump, for only wipes have written since,
\* and its globals, the newest.
LEMMA NewPairStays ==
  ASSUME BackupTypes, StampsInv, RunsInv, WipesInv, nightly.doing = "globals"
  PROVE  /\ \E f \in Pruned(dumps) : f.id = nightly.id
         /\ \E g \in Pruned(RolesWindow) : g.id = nightly.id /\ g.whole
<1> USE Workers
<1>1. PICK f \in dumps : f.id = nightly.id
  BY DEF RunsInv
<1>2. Later(nightly.id) \in SUBSET Since(nightly.id) /\ Since(nightly.id) \in SUBSET DumpIds
  BY SinceFacts DEF Since, Later
<1>3. Cardinality(Later(nightly.id)) <= wipes
  BY <1>2, SmallerSet DEF WipesInv, BackupTypes
<1>4. Cardinality(Newer(f, dumps)) < Keep
  <2>1. wipes < Keep /\ Keep \in Nat /\ wipes \in Nat
    BY BackupsAssumption DEF BackupTypes
  <2> QED
    BY <1>1, <1>3, <2>1, NewerAreLater
<1>5. f \in Pruned(dumps)
  BY <1>4 DEF Pruned
<1>6. PICK k \in RolesWindow : /\ k.id = nightly.id /\ k.at = clock + 1 /\ k.whole
                          /\ \A h \in RolesWindow \ {k} : h \in globals /\ h.id # nightly.id
  BY ClosedFacts
<1>7. Newer(k, RolesWindow) = {}
  <2>1. \A h \in globals : h.at <= clock /\ h.at \in Nat /\ clock \in Nat
    BY DEF StampsInv, BackupTypes, GlobalFile
  <2>2. clock \in Nat
    BY DEF BackupTypes
  <2> QED
    BY <1>6, <2>1, <2>2 DEF Newer
<1>8. Cardinality(Newer(k, RolesWindow)) < Keep
  <2>1. Cardinality({}) = 0
    BY FS_EmptySet, Zenon
  <2> QED
    BY <1>7, <2>1, BackupsAssumption
<1>9. k \in Pruned(RolesWindow)
  BY <1>8 DEF Pruned
<1> QED
  BY <1>1, <1>5, <1>6, <1>9

\* Every step keeps the pairs.
LEMMA PairsStep ==
  ASSUME BackupTypes, StampsInv, RunsInv, OrderInv, WipesInv, PairsKept, [BackupsNext]_backupVars
  PROVE  PairsKept'
<1> USE Workers
<1>1. /\ \A m \in made : m.paired /\ Dumped(m) => Roled(m)
      /\ (\E m \in made : m.paired) => \E m \in made : m.paired /\ Dumped(m) /\ Roled(m)
  BY PairsAre
<1>2. SUFFICES /\ \A m \in made' : m.paired /\ Dumped(m)' => Roled(m)'
               /\ (\E m \in made' : m.paired) => \E m \in made' : m.paired /\ Dumped(m)' /\ Roled(m)'
  BY DEF PairsKept, Dumped, Roled
<1>3. ASSUME NEW i \in DumpIds, Begun(i)
      PROVE  UNCHANGED made /\ \A m \in made : Dumped(m)' = Dumped(m) /\ Roled(m)' = Roled(m)
  <2>1. UNCHANGED <<made, globals>>
    BY <1>3, BegunNames
  <2>2. \A m \in made : Dumped(m)' = Dumped(m)
    BY <1>3, BegunNames DEF Dumped
  <2> QED
    BY <2>1, <2>2 DEF Roled
<1>4. ASSUME NEW i \in DumpIds, Finished(i)
      PROVE  /\ \A m \in made : Dumped(m)' = Dumped(m) /\ (Roled(m) => Roled(m)')
             /\ \A m \in made' : m \in made \/ ~m.paired
             /\ made \subseteq made'
  <2>1. \A m \in made : Dumped(m)' = Dumped(m)
    BY <1>4, FinishedNames DEF Dumped
  <2>2. globals \subseteq globals'
    BY <1>4 DEF Finished
  <2> QED
    BY <1>4, <2>1, <2>2, FinishedNames DEF Roled
<1>5. CASE NightDone
  <2>1. nightly.doing = "globals" /\ dumps' = Pruned(dumps) /\ globals' = Pruned(RolesWindow)
    BY <1>5 DEF NightDone, RolesWindow
  <2>2. ASSUME NEW n \in made', n.paired, Dumped(n)' PROVE Roled(n)'
    <3>1. PICK m \in made : n.id = m.id /\ (m.paired \/ m.id = nightly.id)
      BY <1>5, <2>2, PairedFacts
    <3>2. CASE m.id = nightly.id
      BY <2>1, <3>1, <3>2, NewPairStays DEF Roled
    <3>3. CASE m.id # nightly.id /\ m.paired
      <4>1. PICK f \in Pruned(dumps) : f.id = m.id
        BY <2>1, <2>2, <3>1 DEF Dumped
      <4>2. f \in dumps
        BY <4>1 DEF Pruned
      <4>3. PICK g \in globals : g.id = m.id /\ g.whole
        BY <1>1, <3>3, <4>1, <4>2 DEF Dumped, Roled
      <4>4. g \in Pruned(RolesWindow)
        BY <2>1, <3>3, <4>1, <4>3, RolesStay
      <4> QED
        BY <2>1, <3>1, <4>3, <4>4 DEF Roled
    <3> QED
      BY <3>1, <3>2, <3>3
  <2>3. \E n \in made' : n.paired /\ Dumped(n)' /\ Roled(n)'
    <3>1. PICK m \in made : m.id = nightly.id
      BY <2>1 DEF RunsInv
    <3>2. PICK n \in made' : n.id = nightly.id /\ n.paired = (m.paired \/ m.id = nightly.id)
      BY <1>5, <3>1, PairedFacts
    <3>3. n.paired
      BY <3>1, <3>2
    <3> QED
      BY <2>1, <3>2, <3>3, NewPairStays DEF Dumped, Roled
  <2> QED
    BY <2>2, <2>3
<1>6. ASSUME NightFails, Fewer
      PROVE  /\ UNCHANGED made
             /\ \A m \in made : /\ Dumped(m)' = Dumped(m)
                                /\ m.paired => Roled(m)' = Roled(m)
  <2>1. \/ Dumping(nightly) /\ dumps' = Without(dumps, nightly.id) /\ UNCHANGED globals
        \/ nightly.doing = "globals" /\ globals' = Without(globals, nightly.id) /\ UNCHANGED dumps
    BY <1>6 DEF NightFails, Dumping
  <2>2. UNCHANGED made
    BY <1>6 DEF Fewer
  <2>3. CASE Dumping(nightly) /\ dumps' = Without(dumps, nightly.id) /\ UNCHANGED globals
    <3>1. \A m \in made : m.id # nightly.id
      BY <2>3 DEF RunsInv, Unmade
    <3> QED
      BY <2>2, <2>3, <3>1 DEF Dumped, Roled, Without
  <2>4. CASE nightly.doing = "globals" /\ globals' = Without(globals, nightly.id) /\ UNCHANGED dumps
    <3>1. \A m \in made : m.id = nightly.id => ~m.paired
      BY <2>4 DEF RunsInv
    <3> QED
      BY <2>2, <2>4, <3>1 DEF Dumped, Roled, Without
  <2> QED
    BY <2>1, <2>3, <2>4
<1>7. CASE UNCHANGED <<dumps, globals, made, writes, clock>>
  BY <1>1, <1>7 DEF Dumped, Roled
<1>8. CASE \E i \in DumpIds : Begun(i)
  BY <1>1, <1>3, <1>8
<1>9. CASE \E i \in DumpIds : Finished(i)
  BY <1>1, <1>4, <1>9
<1>10. CASE NightFails /\ Fewer
  BY <1>1, <1>6, <1>10
<1> QED
  BY <1>5, <1>7, <1>8, <1>9, <1>10, StepKinds DEF backupVars, Finished

-----------------------------------------------------------------------------
\* The invariant of the scripts holds at first.
LEMMA BackupInvInit == BackupsInit => BackupInv
<1> SUFFICES ASSUME BackupsInit PROVE BackupInv
  OBVIOUS
<1> USE DEF BackupsInit
<1>1. BackupTypes
  BY BackupsAssumption DEF BackupTypes
<1>2. StampsInv
  BY DEF StampsInv
<1>3. RunsInv /\ OrderInv /\ WipesInv /\ WipeInv
  BY RestingIs DEF RunsInv, OrderInv, WipesInv, WipeInv, Dumping, NoRestore
<1>4. BackupsSound
  BY PairsAre DEF BackupsSound, RollingWindow, WipeUndoable
<1> QED
  BY <1>1, <1>2, <1>3, <1>4 DEF BackupInv

\* Every step keeps it.
LEMMA BackupInvStep == BackupInv /\ [BackupsNext]_backupVars => BackupInv'
BY BackupTypesStep, StampsStep, RunsStep, OrderStep, WipesStep, WipeStep, RollingStep,
   UndoableStep, PairsStep DEF BackupInv, BackupsSound

-----------------------------------------------------------------------------
(***************************************************************************)
(* The pages side by side.                                                 *)
(***************************************************************************)
\* Whichever page is in use, each does what it does by itself.
LEMMA PagesImplement ==
  WebSpec => /\ OptionsSpec
             /\ NoticesInit /\ [][NoticesNext]_noticesVars
             /\ BackupsInit /\ [][BackupsNext]_backupVars
             /\ MineInit /\ [][MineNext]_mineVars
             /\ DraftInit /\ [][DraftNext]_draftVars
             /\ BulkInit /\ [][BulkNext]_bulkVars
             /\ DeskSpec /\ LookupSpec /\ SettingsSpec
<1>1. WebInit => /\ OptionsInit /\ NoticesInit /\ BackupsInit /\ MineInit /\ DraftInit
                 /\ BulkInit /\ DeskInit /\ LookupInit /\ SettingsInit
  BY DEF WebInit
<1>2. [WebNext]_webVars => [OptionsNext]_optionsVars
  BY Zenon DEF WebNext, webVars
<1>3. [WebNext]_webVars => [NoticesNext]_noticesVars
  BY Zenon DEF WebNext, webVars
<1>4. [WebNext]_webVars => [BackupsNext]_backupVars
  BY Zenon DEF WebNext, webVars
<1>5. [WebNext]_webVars => [MineNext]_mineVars
  BY Zenon DEF WebNext, webVars
<1>6. [WebNext]_webVars => [DraftNext]_draftVars
  BY Zenon DEF WebNext, webVars
<1>7. [WebNext]_webVars => [BulkNext]_bulkVars
  BY Zenon DEF WebNext, webVars
<1>8. [WebNext]_webVars => [DeskNext]_deskVars
  BY Zenon DEF WebNext, webVars
<1>9. [WebNext]_webVars => [LookupNext]_lookupVars
  BY Zenon DEF WebNext, webVars
<1>10. [WebNext]_webVars => [SettingsNext]_settingsVars
  BY Zenon DEF WebNext, webVars
<1> QED
  BY <1>1, <1>2, <1>3, <1>4, <1>5, <1>6, <1>7, <1>8, <1>9, <1>10, PTL
     DEF WebSpec, OptionsSpec, DeskSpec, LookupSpec, SettingsSpec

\* When all is answered, a tab of the administrator shows what is stored, unless
\* what it shows is known to be late or behind.
THEOREM ListsShowWhatIsStored == WebSpec => []ShownIsStored
BY PagesImplement, OptionsInvInit, OptionsInvStep, OptionsAreSound, PTL DEF OptionsSpec

\* Work that waits for a role has an unread note, and a bell at rest shows what the
\* server holds.
THEOREM BellAlwaysSound == WebSpec => []BellSound
BY PagesImplement, BellInvInit, BellInvStep, BellIsSound, PTL

\* A whole dump with its roles stays, whichever scripts overlap, and what a wipe erased
\* is in a completed dump, but for what was written after its own had begun.
THEOREM BackupsAlwaysSound == WebSpec => []BackupsSound
<1>1. BackupInv => BackupsSound
  BY DEF BackupInv
<1> QED
  BY <1>1, PagesImplement, BackupInvInit, BackupInvStep, PTL

\* What people type and send from a form, an edit or a draft, is what is stored.
THEOREM FormsAlwaysHold == WebSpec => []FormsHold
<1>1. WebSpec => []EditsSound
  BY PagesImplement, MineInvInit, MineInvStep, MineIsSound, PTL
<1>2. WebSpec => []DraftSound
  BY PagesImplement, DraftInvInit, DraftInvStep, DraftIsSound, PTL
<1> QED
  BY <1>1, <1>2, PTL DEF FormsHold

\* No step takes a typed form from its owner but one that they made, or the answer
\* to what they sent from it.
THEOREM TypedFormsSurvive == WebSpec => FormsSurvive
<1>1. WebSpec => []MineInv
  BY PagesImplement, MineInvInit, MineInvStep, PTL
<1> QED
  BY <1>1, PagesImplement, FormsStandStep, PTL DEF FormsSurvive

\* Every "select all" of a desk leads to an action its cards share, and a toast counts as
\* done what was moved, and as failed what moved only when an answer was lost.
THEOREM BatchesAlwaysSound == WebSpec => []BulkSound
BY PagesImplement, BulkInvInit, BulkInvStep, BulkInvSound, PTL

\* A card's buttons send one POST at a time, the board is told what was done on it,
\* and a row leaves the sheet when its number is written.
THEOREM DeskAlwaysSound == WebSpec => []DeskSound
BY PagesImplement, DeskInvInit, DeskInvStep, DeskInvSound, PTL DEF DeskSpec

\* Paging through the lookup shows every match once, whatever is closed and reopened
\* between the pages.
THEOREM LookupAlwaysComplete == WebSpec => []NothingSkipped
BY PagesImplement, LookupSkipsNothing

\* The save bar, the VP's label and the mail form are true to what is stored.
THEOREM SettingsAlwaysSound == WebSpec => SettingsSound
BY PagesImplement, SettingsAreSound
=============================================================================
