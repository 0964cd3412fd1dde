---------------------------- MODULE LookupProofs ----------------------------
(***************************************************************************)
(* The lookup of closed tickets skips nothing, for any tickets, pages and  *)
(* clocks: what a page answers with (searchClosed and its order), and the  *)
(* rows that pages are appended to or replace.                             *)
(***************************************************************************)
EXTENDS Lookup, FiniteSetTheorems, SequenceTheorems, TLAPS

Keys == Nat \X Nat
LookupKinds == {"default", "run", "refresh", "more"}
CallSet == [kind : LookupKinds, q : Query, from : Keys, read : BOOLEAN,
            page : [items : Seq(Ids), next : Keys], steady : SUBSET Ids, late : BOOLEAN]

\* Nobody closes a ticket in the future, and those that stayed closed are closed.
LookupTypes ==
  /\ instant \in 1..LastInstant
  /\ closedAt \in [Ids -> Nat] /\ \A i \in Ids : closedAt[i] <= instant
  /\ rows \in Seq(Ids) /\ cursor \in Keys /\ activeQ \in Query
  /\ busy \in BOOLEAN /\ more \in BOOLEAN /\ mixed \in BOOLEAN
  /\ calls \subseteq CallSet /\ steady \subseteq ClosedTickets

\* No ticket twice in a sequence.
Once(s) == \A m, n \in 1..Len(s) : s[m] = s[n] => m = n
\* Ticket i is in it.
Holds(s, i) == \E m \in 1..Len(s) : s[m] = i

\* A ticket at the key k or above it, and above it still if it is closed again.
AtOrAbove(i, k) == ~Below(<<instant, i>>, k) /\ (closedAt[i] > 0 => ~Below(Key(i), k))

\* A list down to the key k: its tickets, and of those of T that match nothing
\* between the keys is left out.
ListedTo(s, k) == Once(s) /\ \A m \in 1..Len(s) : AtOrAbove(s[m], k)
Complete(s, T, q, from, k) ==
  \A i \in T \cap Found(q) : Below(Key(i), from) => Below(Key(i), k) \/ Holds(s, i)

\* The rows, but after a page of another list.
RowsSound == ~mixed => ListedTo(rows, cursor) /\ Complete(rows, steady, activeQ, Top, cursor)

\* A first page that was read is a list by itself.
FirstPage(c) == /\ c.from = Top
                /\ c.read => /\ c.steady \subseteq ClosedTickets
                             /\ ListedTo(c.page.items, c.page.next)
                             /\ Complete(c.page.items, c.steady, c.q, Top, c.page.next)

\* A next page continues the rows where they end, and repeats none of them.
NextPage(c) ==
  /\ c.q = activeQ /\ c.from = cursor /\ cursor # Bottom
  /\ c.read => /\ ListedTo(c.page.items, c.page.next)
               /\ Complete(c.page.items, steady, c.q, cursor, c.page.next)
               /\ \A m \in 1..Len(c.page.items) : ~Holds(rows, c.page.items[m])
               /\ Below(c.page.next, cursor)

CallsSound == \A c \in calls : IF c.kind = "more" THEN ~mixed /\ ~c.late => NextPage(c)
                                                  ELSE FirstPage(c)

\* The button "load more" has one call under way.
OneMore == \A c, d \in calls : c.kind = "more" => more /\ (d.kind = "more" => c = d)

LookupInv == LookupTypes /\ RowsSound /\ CallsSound /\ OneMore

-----------------------------------------------------------------------------
(***************************************************************************)
(* What searchClosed answers.                                              *)
(***************************************************************************)
\* Ticket i comes before j in the order of the lookup.
Ahead(i, j) == closedAt[i] > closedAt[j] \/ (closedAt[i] = closedAt[j] /\ i > j)

\* One that comes before another has a smaller place (the sort of searchClosed).
LEMMA PlacesGrow ==
  ASSUME closedAt \in [Ids -> Nat], NEW S \in SUBSET Ids, NEW i \in S, NEW j \in S, Ahead(i, j)
  PROVE  Place(i, S) < Place(j, S)
<1> DEFINE Upto(k) == {m \in S : \/ closedAt[m] > closedAt[k]
                                 \/ closedAt[m] = closedAt[k] /\ m >= k}
<1>1. IsFiniteSet(S)
  BY LookupAssumption, FS_Subset
<1>2. Ids \subseteq Nat /\ \A m \in S : closedAt[m] \in Nat
  BY LookupAssumption
<1>3. Upto(i) \subseteq Upto(j) /\ j \in Upto(j) /\ j \notin Upto(i)
  <2>1. \A m \in S : m \in Nat /\ closedAt[m] \in Nat
    BY <1>2
  <2>2. closedAt[i] > closedAt[j] \/ (closedAt[i] = closedAt[j] /\ i > j)
    BY DEF Ahead
  <2>3. ASSUME NEW m \in S, closedAt[m] > closedAt[i] \/ (closedAt[m] = closedAt[i] /\ m >= i)
        PROVE  closedAt[m] > closedAt[j] \/ (closedAt[m] = closedAt[j] /\ m >= j)
    BY <2>1, <2>2, <2>3
  <2>4. Upto(i) \subseteq Upto(j)
    BY <2>3
  <2>5. j \in Upto(j)
    BY <2>1
  <2>6. j \notin Upto(i)
    BY <2>1, <2>2
  <2> QED BY <2>4, <2>5, <2>6
<1>4. IsFiniteSet(Upto(j)) /\ IsFiniteSet(Upto(i))
  BY <1>1, FS_Subset
<1>5. Cardinality(Upto(i)) <= Cardinality(Upto(j)) /\ Cardinality(Upto(i)) # Cardinality(Upto(j))
  <2> HIDE DEF Upto
  <2> QED BY <1>3, <1>4, FS_Subset
<1>6. Cardinality(Upto(i)) \in Nat /\ Cardinality(Upto(j)) \in Nat
  <2> HIDE DEF Upto
  <2> QED BY <1>4, FS_CardinalityType
<1>7. Cardinality(Upto(i)) < Cardinality(Upto(j))
  <2> HIDE DEF Upto
  <2> QED BY <1>5, <1>6
<1> QED BY <1>7 DEF Place

\* The places of the tickets of a set are one to its size, each taken by one of them.
LEMMA PlacesAreTaken ==
  ASSUME closedAt \in [Ids -> Nat], NEW S \in SUBSET Ids
  PROVE  /\ IsFiniteSet(S) /\ Cardinality(S) \in Nat
         /\ \A i \in S : Place(i, S) \in 1..Cardinality(S)
         /\ \A i, j \in S : i # j => Ahead(i, j) \/ Ahead(j, i)
         /\ \A i, j \in S : Place(i, S) = Place(j, S) => i = j
         /\ \A p \in 1..Cardinality(S) : \E i \in S : Place(i, S) = p
<1>1. IsFiniteSet(S) /\ Cardinality(S) \in Nat
  BY LookupAssumption, FS_Subset, FS_CardinalityType
<1>2. ASSUME NEW i \in S PROVE Place(i, S) \in 1..Cardinality(S)
  <2> DEFINE U == {m \in S : closedAt[m] > closedAt[i] \/ (closedAt[m] = closedAt[i] /\ m >= i)}
  <2>1. U \subseteq S /\ i \in U
    BY LookupAssumption
  <2>2. Place(i, S) = Cardinality(U)
    BY DEF Place
  <2> HIDE DEF U
  <2>3. IsFiniteSet(U) /\ Cardinality(U) <= Cardinality(S)
    BY <1>1, <2>1, FS_Subset
  <2>4. Cardinality(U) \in Nat /\ Cardinality(U) # 0
    BY <2>1, <2>3, FS_CardinalityType, FS_EmptySet
  <2> QED BY <1>1, <2>2, <2>3, <2>4
<1>3. \A i, j \in S : i # j => Ahead(i, j) \/ Ahead(j, i)
  BY LookupAssumption DEF Ahead
<1>4. ASSUME NEW i \in S, NEW j \in S, Place(i, S) = Place(j, S) PROVE i = j
  BY <1>1, <1>2, <1>3, <1>4, PlacesGrow
<1>5. \A p \in 1..Cardinality(S) : \E i \in S : Place(i, S) = p
  <2> DEFINE T == 1..Cardinality(S)
             f == [i \in S |-> Place(i, S)]
  <2>1. f \in [S -> T] /\ \A i, j \in S : f[i] = f[j] => i = j
    BY <1>2, <1>4
  <2>2. f \in Injection(S, T)
    <3> HIDE DEF f, T
    <3> QED BY <2>1 DEF Injection, IsInjective
  <2>3. IsFiniteSet(T) /\ Cardinality(T) = Cardinality(S)
    BY <1>1, FS_Interval
  <2>4. f \in Surjection(S, T)
    <3> HIDE DEF f, T
    <3> QED BY <2>2, <2>3, FS_Injection
  <2>5. \A t \in T : \E i \in S : f[i] = t
    <3> HIDE DEF f, T
    <3> QED BY <2>4 DEF Surjection
  <2> QED BY <2>5
<1> QED BY <1>1, <1>2, <1>3, <1>4, <1>5

\* Matching a search between two keys, and the page searchClosed answers with.
Matching(q, from) == {i \in ClosedTickets \cap Found(q) : Below(Key(i), from)}

\* A page of a set of tickets in their order: the first of them, without a gap.
LEMMA PageOfASet ==
  ASSUME closedAt \in [Ids -> Nat], NEW S \in SUBSET Ids, NEW n \in 0..Cardinality(S),
         NEW s, s = [p \in 1..n |-> CHOOSE i \in S : Place(i, S) = p]
  PROVE  /\ s \in Seq(S) /\ Len(s) = n
         /\ \A p \in 1..n : s[p] \in S /\ Place(s[p], S) = p
         /\ \A i \in S : Place(i, S) <= n => Holds(s, i)
<1>1. Cardinality(S) \in Nat /\ \A p \in 1..Cardinality(S) : \E i \in S : Place(i, S) = p
  BY PlacesAreTaken
<1>2. n \in Nat /\ 1..n \subseteq 1..Cardinality(S)
  BY <1>1
<1>3. ASSUME NEW p \in 1..n PROVE s[p] \in S /\ Place(s[p], S) = p
  <2>1. s[p] = CHOOSE i \in S : Place(i, S) = p
    OBVIOUS
  <2>2. PICK i \in S : Place(i, S) = p
    BY <1>1, <1>2
  <2> QED BY <2>1, <2>2
<1>4. s \in [1..n -> S]
  BY <1>3
<1>5. s \in Seq(S) /\ Len(s) = n
  BY <1>2, <1>4, LenProperties
<1>6. ASSUME NEW i \in S, Place(i, S) <= n PROVE Holds(s, i)
  <2>1. Place(i, S) \in 1..n
    BY <1>1, <1>2, <1>6, PlacesAreTaken
  <2>2. s[Place(i, S)] = i
    BY <1>3, <2>1, PlacesAreTaken
  <2> QED BY <1>5, <2>1, <2>2 DEF Holds
<1> QED BY <1>3, <1>5, <1>6

\* What searchClosed answers: a list down to its cursor in which nothing that
\* matches above it is missing, all of it below the cursor asked for.
LEMMA PageIsSound ==
  ASSUME LookupTypes, NEW q \in Query, NEW from \in Keys, NEW r, r = SearchClosed(q, from)
  PROVE  /\ r \in [items : Seq(Ids), next : Keys]
         /\ ListedTo(r.items, r.next)
         /\ Complete(r.items, ClosedTickets, q, from, r.next)
         /\ \A m \in 1..Len(r.items) : /\ closedAt[r.items[m]] > 0
                                       /\ Below(Key(r.items[m]), from)
         /\ r.next = Bottom \/ Below(r.next, from)
<1> DEFINE S == Matching(q, from)
           hasMore == Cardinality(S) > PageSize
           shown == IF hasMore THEN PageSize ELSE Cardinality(S)
           s == [p \in 1..shown |-> CHOOSE i \in S : Place(i, S) = p]
           k == IF hasMore THEN Key(s[PageSize]) ELSE Bottom
<1>1. r = [items |-> s, next |-> k]
  BY DEF SearchClosed, Matching
<1>2. S \in SUBSET Ids /\ \A i \in S : closedAt[i] > 0 /\ Below(Key(i), from)
  BY DEF Matching, ClosedTickets
<1>3. closedAt \in [Ids -> Nat] /\ PageSize \in Nat \ {0} /\ Ids \subseteq Nat
  BY LookupAssumption DEF LookupTypes
<1>4. \A i \in Ids : closedAt[i] \in Nat /\ i \in Nat /\ closedAt[i] <= instant /\ instant \in Nat
  BY <1>3 DEF LookupTypes
<1>5. S = Matching(q, from)
  OBVIOUS
<1> HIDE DEF S
<1>6. /\ IsFiniteSet(S) /\ Cardinality(S) \in Nat
      /\ \A i \in S : Place(i, S) \in 1..Cardinality(S)
      /\ \A i, j \in S : i # j => Ahead(i, j) \/ Ahead(j, i)
  BY <1>2, <1>3, PlacesAreTaken
<1>7. shown \in 0..Cardinality(S) /\ (hasMore => shown = PageSize)
  BY <1>3, <1>6
<1>8. s = [p \in 1..shown |-> CHOOSE i \in S : Place(i, S) = p]
  OBVIOUS
<1>9. (hasMore => k = Key(s[PageSize])) /\ (~hasMore => k = Bottom /\ shown = Cardinality(S))
  OBVIOUS
<1> HIDE DEF s, shown, k
<1>10. /\ s \in Seq(S) /\ Len(s) = shown
       /\ \A p \in 1..shown : s[p] \in S /\ Place(s[p], S) = p
       /\ \A i \in S : Place(i, S) <= shown => Holds(s, i)
  BY <1>2, <1>3, <1>7, <1>8, PageOfASet
<1>11. s \in Seq(Ids)
  BY <1>2, <1>10, SeqMonotonic
<1>12. hasMore => PageSize \in 1..shown /\ s[PageSize] \in S
  BY <1>3, <1>7, <1>10
<1>13. k \in Keys /\ (k = Bottom \/ Below(k, from))
  BY <1>2, <1>4, <1>9, <1>12 DEF Keys, Key, Bottom
<1>14. Once(s)
  BY <1>10 DEF Once
<1>15. ASSUME NEW m \in 1..Len(s) PROVE AtOrAbove(s[m], k)
  <2>1. s[m] \in S /\ s[m] \in Ids /\ Place(s[m], S) = m /\ m \in 1..shown /\ shown \in Nat
    BY <1>2, <1>6, <1>7, <1>10
  <2>2. CASE ~hasMore
    BY <2>1, <2>2, <1>4, <1>9 DEF AtOrAbove, Below, Bottom, Key
  <2>3. CASE hasMore
    <3>1. PICK last \in S : last = s[PageSize] /\ last \in Ids /\ Place(last, S) = PageSize
      BY <2>3, <1>2, <1>10, <1>12
    <3>2. PICK i \in S : i = s[m] /\ i \in Ids
      BY <2>1
    <3>3. m <= PageSize
      BY <2>1, <2>3, <1>7, <1>3
    <3>4. ~Ahead(last, i)
      BY <3>1, <3>2, <3>3, <2>1, <1>2, <1>3, PlacesGrow
    <3>5. ~Below(<<closedAt[i], i>>, <<closedAt[last], last>>)
      BY <3>1, <3>2, <3>4, <1>4 DEF Ahead, Below
    <3>6. ~Below(<<instant, i>>, <<closedAt[last], last>>)
      BY <3>1, <3>2, <3>5, <1>4 DEF Below
    <3> QED BY <2>3, <3>1, <3>2, <3>5, <3>6, <1>9 DEF AtOrAbove, Key
  <2> QED BY <2>2, <2>3
<1>16. ASSUME NEW i \in S PROVE Below(Key(i), k) \/ Holds(s, i)
  <2>1. CASE Place(i, S) <= shown
    BY <2>1, <1>10
  <2>2. CASE ~(Place(i, S) <= shown)
    <3>1. hasMore /\ shown = PageSize
      BY <2>2, <1>6, <1>7, <1>9
    <3>2. PICK last \in S : last = s[PageSize] /\ last \in Ids /\ Place(last, S) = PageSize
      BY <3>1, <1>2, <1>10, <1>12
    <3>3. ~Ahead(i, last) /\ i # last
      BY <3>1, <3>2, <2>2, <1>2, <1>3, <1>6, PlacesGrow
    <3>4. Ahead(last, i)
      BY <3>2, <3>3, <1>6
    <3> QED BY <3>1, <3>2, <3>4, <1>2, <1>4, <1>9 DEF Ahead, Below, Key
  <2> QED BY <2>1, <2>2
<1>17. Complete(s, ClosedTickets, q, from, k)
  BY <1>5, <1>16 DEF Complete, Matching
<1>18. ASSUME NEW m \in 1..Len(s) PROVE closedAt[s[m]] > 0 /\ Below(Key(s[m]), from)
  BY <1>2, <1>10
<1>19. r.items = s /\ r.next = k
  BY <1>1
<1> QED BY <1>1, <1>19, <1>11, <1>13, <1>14, <1>15, <1>17, <1>18 DEF ListedTo

\* The page as it is opened, its first search on the way.
LEMMA LookupInvInit == LookupInit => LookupInv
<1> SUFFICES ASSUME LookupInit PROVE LookupInv
  OBVIOUS
<1>1. LookupTypes
  <2>1. instant \in 1..LastInstant /\ closedAt \in [Ids -> Nat]
        /\ \A i \in Ids : closedAt[i] <= instant
    BY LookupAssumption DEF LookupInit
  <2>2. <<>> \in Seq(Ids) /\ Top \in Keys /\ Bottom \in Keys
    BY EmptySeq, LookupAssumption DEF Top, Bottom, Keys
  <2>3. Call("default", "all", Top) \in CallSet
    BY <2>2 DEF Call, CallSet, NoPage, LookupKinds, Query
  <2> QED BY <2>1, <2>2, <2>3 DEF LookupInit, LookupTypes, Query
<1>2. RowsSound
  <2>1. ListedTo(rows, cursor)
    BY EmptySeq DEF LookupInit, ListedTo, Once
  <2>2. Complete(rows, steady, activeQ, Top, cursor)
    BY DEF LookupInit, Complete
  <2> QED BY <2>1, <2>2 DEF RowsSound
<1>3. CallsSound
  BY DEF LookupInit, CallsSound, FirstPage, Call
<1>4. OneMore
  BY DEF LookupInit, OneMore, Call
<1> QED BY <1>1, <1>2, <1>3, <1>4 DEF LookupInv

\* What a step may do to the clock and the tickets: one is closed now or reopened.
TicketsMove == /\ instant' \in 1..LastInstant /\ instant' >= instant
               /\ closedAt' \in [Ids -> Nat]
               /\ \A i \in Ids : closedAt'[i] \in {closedAt[i], 0, instant'}

\* A list stays one as tickets are closed and reopened: a ticket closed again is
\* closed now, and so above the cursor.
LEMMA ListsStay ==
  ASSUME LookupTypes, TicketsMove, NEW s \in Seq(Ids), NEW k \in Keys, ListedTo(s, k)
  PROVE  ListedTo(s, k)'
<1>1. ASSUME NEW i \in Ids, AtOrAbove(i, k) PROVE AtOrAbove(i, k)'
  <2>1. i \in Nat /\ k[1] \in Nat /\ k[2] \in Nat /\ instant \in Nat /\ instant' \in Nat
        /\ closedAt[i] \in Nat /\ instant' >= instant
    BY LookupAssumption DEF LookupTypes, TicketsMove, Keys
  <2>2. closedAt'[i] \in {closedAt[i], 0, instant'}
    BY DEF TicketsMove
  <2>3. ~(instant < k[1]) /\ ~(instant = k[1] /\ i < k[2])
    BY <1>1 DEF AtOrAbove, Below
  <2>4. closedAt[i] > 0 => ~(closedAt[i] < k[1]) /\ ~(closedAt[i] = k[1] /\ i < k[2])
    BY <1>1 DEF AtOrAbove, Below, Key
  <2>5. ~(instant' < k[1]) /\ ~(instant' = k[1] /\ i < k[2])
    BY <2>1, <2>3
  <2>6. closedAt'[i] > 0 => ~(closedAt'[i] < k[1]) /\ ~(closedAt'[i] = k[1] /\ i < k[2])
    BY <2>1, <2>2, <2>4, <2>5
  <2> QED BY <2>5, <2>6 DEF AtOrAbove, Below, Key
<1>2. \A m \in 1..Len(s) : s[m] \in Ids
  BY ElementOfSeq
<1> QED BY <1>1, <1>2 DEF ListedTo, Once

\* Nothing comes to be missing of the tickets that stay closed.
LEMMA CompleteStays ==
  ASSUME NEW s, NEW T, NEW U, U \subseteq T, NEW q, NEW from, NEW k,
         \A i \in U : closedAt'[i] = closedAt[i], Complete(s, T, q, from, k)
  PROVE  Complete(s, U, q, from, k)'
<1> SUFFICES ASSUME NEW i \in U, i \in Found(q), <<closedAt'[i], i>>[1] = closedAt[i],
                    Below(<<closedAt[i], i>>, from)
             PROVE  Below(<<closedAt[i], i>>, k) \/ Holds(s, i)
  BY DEF Complete, Key, Below, Holds, Found
<1> QED BY DEF Complete, Key

\* A call under way stays sound as tickets are closed and reopened elsewhere.
LEMMA CallsStay ==
  ASSUME LookupInv, TicketsMove, UNCHANGED <<rows, cursor, activeQ, mixed>>,
         steady' \subseteq steady, \A i \in steady' : closedAt'[i] = closedAt[i],
         NEW c \in calls, NEW d, d \in CallSet,
         d.kind = c.kind, d.q = c.q, d.from = c.from, d.read = c.read, d.page = c.page,
         d.late = c.late, d.steady \subseteq c.steady,
         c.read /\ c.kind # "more" => /\ \A i \in d.steady : closedAt'[i] = closedAt[i]
                                      /\ d.steady \subseteq ClosedTickets'
  PROVE  IF d.kind = "more" THEN ~mixed' /\ ~d.late => NextPage(d)' ELSE FirstPage(d)'
<1>1. c \in CallSet /\ c.page.items \in Seq(Ids) /\ c.page.next \in Keys
  BY DEF LookupInv, LookupTypes, CallSet
<1>2. ListedTo(c.page.items, c.page.next) => ListedTo(c.page.items, c.page.next)'
  BY <1>1, ListsStay DEF LookupInv
<1>3. CASE d.kind = "more"
  <2> SUFFICES ASSUME ~mixed', ~d.late PROVE NextPage(d)'
    BY <1>3
  <2>1. NextPage(c)
    BY <1>3 DEF LookupInv, CallsSound
  <2>2. ASSUME c.read PROVE Complete(c.page.items, steady, c.q, cursor, c.page.next)'
    <3>1. PICK T \in SUBSET Ids : T = steady
      BY DEF LookupInv, LookupTypes, ClosedTickets
    <3>2. PICK U : U = steady'
      OBVIOUS
    <3>3. PICK k : k = cursor
      OBVIOUS
    <3>4. Complete(c.page.items, U, c.q, k, c.page.next)'
      BY <2>1, <2>2, <3>1, <3>2, <3>3, CompleteStays DEF NextPage
    <3>5. k = cursor'
      BY <3>3
    <3> QED BY <3>2, <3>5, <3>4 DEF Complete, Key, Below, Holds
  <2> QED BY <1>2, <2>1, <2>2 DEF NextPage, Holds, Below
<1>4. CASE d.kind # "more"
  <2>1. FirstPage(c)
    BY <1>4 DEF LookupInv, CallsSound
  <2>2. ASSUME c.read PROVE Complete(c.page.items, d.steady, c.q, Top, c.page.next)'
    <3>1. \A i \in d.steady : closedAt'[i] = closedAt[i]
      BY <1>4, <2>2
    <3>2. Complete(c.page.items, c.steady, c.q, Top, c.page.next)
      BY <2>1, <2>2 DEF FirstPage
    <3> HIDE DEF Top
    <3> QED BY <3>1, <3>2, CompleteStays
  <2> QED BY <1>2, <1>4, <2>1, <2>2 DEF FirstPage
<1> QED BY <1>3, <1>4

\* The rows stay sound as tickets are closed and reopened.
LEMMA RowsStay ==
  ASSUME LookupInv, TicketsMove, UNCHANGED <<rows, cursor, activeQ, mixed>>,
         steady' \subseteq steady, \A i \in steady' : closedAt'[i] = closedAt[i]
  PROVE  RowsSound'
<1> SUFFICES ASSUME ~mixed 
             PROVE  ListedTo(rows, cursor)' /\ Complete(rows, steady, activeQ, Top, cursor)'
  BY DEF RowsSound
<1>1. ListedTo(rows, cursor) /\ Complete(rows, steady, activeQ, Top, cursor)
  BY DEF LookupInv, RowsSound
<1>2. PICK s \in Seq(Ids) : s = rows
  BY DEF LookupInv, LookupTypes
<1>3. PICK k \in Keys : k = cursor
  BY DEF LookupInv, LookupTypes
<1>4. PICK q : q = activeQ
  OBVIOUS
<1>5. PICK T : T = steady
  OBVIOUS
<1>6. PICK U : U = steady'
  OBVIOUS
<1>7. ListedTo(s, k)'
  BY <1>1, <1>2, <1>3, ListsStay DEF LookupInv
<1>8. Complete(s, U, q, Top, k)'
  BY <1>1, <1>2, <1>3, <1>4, <1>5, <1>6, CompleteStays
<1> QED BY <1>2, <1>3, <1>4, <1>6, <1>7, <1>8
       DEF ListedTo, Once, AtOrAbove, Below, Key, Complete, Holds

\* Call d is call c, at most without some of the tickets that were closed.
SameCall(d, c) ==
  /\ d \in CallSet /\ d.kind = c.kind /\ d.q = c.q /\ d.from = c.from
  /\ d.read = c.read /\ d.page = c.page /\ d.late = c.late /\ d.steady \subseteq c.steady
  /\ c.read /\ c.kind # "more" => /\ \A i \in d.steady : closedAt'[i] = closedAt[i]
                                  /\ d.steady \subseteq ClosedTickets'

\* A step that leaves the list alone keeps it sound, and with it the calls under way.
LEMMA ListKept ==
  ASSUME LookupInv, TicketsMove, UNCHANGED <<rows, cursor, activeQ, mixed>>,
         busy' \in BOOLEAN, more' \in BOOLEAN,
         steady' \subseteq steady, \A i \in steady' : closedAt'[i] = closedAt[i],
         \A d \in calls' : \/ \E c \in calls : SameCall(d, c)
                           \/ /\ d \in CallSet
                              /\ IF d.kind = "more" THEN ~mixed' /\ ~d.late => NextPage(d)'
                                                    ELSE FirstPage(d)'
  PROVE  LookupTypes' /\ RowsSound' /\ CallsSound'
<1>1. RowsSound'
  BY RowsStay
<1>2. ASSUME NEW d \in calls'
      PROVE  /\ d \in CallSet
             /\ IF d.kind = "more" THEN ~mixed' /\ ~d.late => NextPage(d)' ELSE FirstPage(d)'
  <2>1. CASE \E c \in calls : SameCall(d, c)
    <3>1. PICK c \in calls : SameCall(d, c)
      BY <2>1
    <3> QED BY <3>1, CallsStay DEF SameCall
  <2>2. CASE ~ \E c \in calls : SameCall(d, c)
    BY <2>2
  <2> QED BY <2>1, <2>2
<1>3. CallsSound'
  BY <1>2 DEF CallsSound
<1>4. calls' \subseteq CallSet
  BY <1>2
<1>5. steady' \subseteq ClosedTickets'
  BY DEF LookupInv, LookupTypes, ClosedTickets
<1>6. \A i \in Ids : closedAt'[i] <= instant'
  BY DEF LookupInv, LookupTypes, TicketsMove
<1>7. instant' \in 1..LastInstant /\ closedAt' \in [Ids -> Nat]
  BY DEF TicketsMove
<1> QED BY <1>1, <1>3, <1>4, <1>5, <1>6, <1>7 DEF LookupInv, LookupTypes

\* A call as it is is the same call, when the tickets stay as they are.
LEMMA CallUnmoved ==
  ASSUME LookupInv, NEW c \in calls, closedAt' = closedAt
  PROVE  SameCall(c, c)
<1>1. c \in CallSet
  BY DEF LookupInv, LookupTypes
<1>2. c.read /\ c.kind # "more" => c.steady \subseteq ClosedTickets
  BY DEF LookupInv, CallsSound, FirstPage
<1>3. ClosedTickets' = ClosedTickets
  BY DEF ClosedTickets
<1> QED BY <1>1, <1>2, <1>3 DEF SameCall

\* Closing a ticket touches no call: it was not among those that stayed closed.
LEMMA CallClosedUnder ==
  ASSUME LookupInv, NEW c \in calls, NEW i \in Ids, CloseTicket(i)
  PROVE  SameCall(c, c)
<1>1. c \in CallSet
  BY DEF LookupInv, LookupTypes
<1>2. c.read /\ c.kind # "more" => c.steady \subseteq ClosedTickets
  BY DEF LookupInv, CallsSound, FirstPage
<1>3. \A j \in ClosedTickets : closedAt'[j] = closedAt[j] /\ j \in ClosedTickets'
  BY DEF CloseTicket, ClosedTickets, LookupInv, LookupTypes
<1> QED BY <1>1, <1>2, <1>3 DEF SameCall

\* Reopening a ticket takes it out of what a call remembers as closed.
LEMMA CallReopenedUnder ==
  ASSUME LookupInv, NEW c \in calls, NEW i \in Ids, Reopened(i)
  PROVE  SameCall([c EXCEPT !.steady = @ \ {i}], c)
<1>1. c \in CallSet
  BY DEF LookupInv, LookupTypes
<1>2. c.read /\ c.kind # "more" => c.steady \subseteq ClosedTickets
  BY DEF LookupInv, CallsSound, FirstPage
<1>3. \A j \in ClosedTickets \ {i} : closedAt'[j] = closedAt[j] /\ j \in ClosedTickets'
  BY DEF Reopened, ClosedTickets, LookupInv, LookupTypes
<1> DEFINE d == [c EXCEPT !.steady = @ \ {i}]
<1>4. /\ d \in CallSet /\ d.kind = c.kind /\ d.q = c.q /\ d.from = c.from
      /\ d.read = c.read /\ d.page = c.page /\ d.late = c.late /\ d.steady = c.steady \ {i}
  BY <1>1 DEF CallSet
<1>5. SameCall(d, c)
  <2> HIDE DEF d
  <2> QED BY <1>2, <1>3, <1>4 DEF SameCall
<1> QED BY <1>5

\* A new first page call.
LEMMA NewFirstPage ==
  ASSUME NEW kind \in LookupKinds \ {"more"}, NEW q \in Query, NEW d, d = Call(kind, q, Top)
  PROVE  d \in CallSet /\ d.kind # "more" /\ FirstPage(d)'
<1>1. <<>> \in Seq(Ids) /\ Top \in Keys
  BY EmptySeq, LookupAssumption DEF Top, Keys
<1>2. d \in CallSet /\ ~d.read /\ d.from = Top /\ d.kind = kind
  BY <1>1 DEF Call, CallSet, NoPage
<1> QED BY <1>2 DEF FirstPage

\* At most one "load more" is under way after a step that issues none.
LEMMA OneMoreKept ==
  ASSUME OneMore, NEW f, more' = more, 
         \A d \in calls' : d.kind = "more" => \E c \in calls : c.kind = "more" /\ d = f[c]
  PROVE  OneMore'
<1> SUFFICES ASSUME NEW d \in calls', d.kind = "more"
             PROVE  more' /\ \A e \in calls' : e.kind = "more" => d = e
  BY DEF OneMore
<1>1. PICK c \in calls : c.kind = "more" /\ d = f[c]
  OBVIOUS
<1> QED BY <1>1 DEF OneMore

-----------------------------------------------------------------------------
(***************************************************************************)
(* The steps.                                                              *)
(***************************************************************************)
\* Time passes.
LEMMA TickKeeps == ASSUME LookupInv, Tick PROVE LookupInv'
<1>1. TicketsMove
  <2>1. instant \in 1..LastInstant /\ closedAt \in [Ids -> Nat]
    BY DEF LookupInv, LookupTypes
  <2>2. instant' \in 1..LastInstant /\ instant' >= instant /\ closedAt' = closedAt
    BY <2>1, LookupAssumption DEF Tick
  <2> QED BY <2>1, <2>2 DEF TicketsMove
<1>2. \A d \in calls' : SameCall(d, d) /\ d \in calls
  BY CallUnmoved DEF Tick
<1>3. LookupTypes' /\ RowsSound' /\ CallsSound'
  BY <1>1, <1>2, ListKept DEF Tick, List, LookupInv, LookupTypes
<1>4. OneMore'
  BY DEF Tick, OneMore, LookupInv
<1> QED BY <1>3, <1>4 DEF LookupInv

\* A ticket is closed: now, so above every cursor there is.
LEMMA CloseKeeps == ASSUME LookupInv, NEW i \in Ids, CloseTicket(i) PROVE LookupInv'
<1>1. TicketsMove
  BY DEF LookupInv, LookupTypes, TicketsMove, CloseTicket
<1>2. \A d \in calls' : SameCall(d, d) /\ d \in calls
  BY CallClosedUnder DEF CloseTicket
<1>3. \A j \in steady' : closedAt'[j] = closedAt[j]
  BY DEF CloseTicket, LookupInv, LookupTypes, ClosedTickets
<1>4. LookupTypes' /\ RowsSound' /\ CallsSound'
  BY <1>1, <1>2, <1>3, ListKept DEF CloseTicket, List, LookupInv, LookupTypes
<1>5. OneMore'
  BY DEF CloseTicket, OneMore, LookupInv
<1> QED BY <1>4, <1>5 DEF LookupInv

\* What a reopening does to the tickets.
LEMMA ReopenedMoves ==
  ASSUME LookupInv, NEW i \in Ids, Reopened(i), instant' = instant
  PROVE  /\ TicketsMove /\ steady' \subseteq steady
         /\ \A j \in steady' : closedAt'[j] = closedAt[j]
BY DEF Reopened, TicketsMove, LookupInv, LookupTypes, ClosedTickets

\* Someone else reopens a ticket.
LEMMA ReopenElsewhereKeeps ==
  ASSUME LookupInv, NEW i \in Ids, ReopenElsewhere(i) PROVE LookupInv'
<1> DEFINE f == [c \in calls |-> [c EXCEPT !.steady = @ \ {i}]]
<1>1. Reopened(i) /\ UNCHANGED <<instant, rows, cursor, activeQ, mixed, busy, more>>
  BY DEF ReopenElsewhere, List
<1>2. ASSUME NEW d \in calls' PROVE \E c \in calls : SameCall(d, c) /\ d = f[c]
  <2>1. PICK c \in calls : d = [c EXCEPT !.steady = @ \ {i}]
    BY DEF ReopenElsewhere
  <2> QED BY <1>1, <2>1, CallReopenedUnder
<1>3. LookupTypes' /\ RowsSound' /\ CallsSound'
  <2> HIDE DEF f
  <2> QED BY <1>1, <1>2, ReopenedMoves, ListKept DEF LookupInv, LookupTypes
<1>4. OneMore'
  <2> HIDE DEF f
  <2>1. \A d \in calls' : d.kind = "more" => \E c \in calls : c.kind = "more" /\ d = f[c]
    BY <1>1, <1>2 DEF SameCall
  <2> QED BY <1>1, <2>1, OneMoreKept DEF LookupInv
<1> QED BY <1>3, <1>4 DEF LookupInv

\* The user reopens a ticket of the rows, and the search is run again.
LEMMA DoReopenKeeps ==
  ASSUME LookupInv, NEW i \in Ids, DoReopen(i) PROVE LookupInv'
<1> DEFINE f == [c \in calls |-> [c EXCEPT !.steady = @ \ {i}]]
<1>1. Reopened(i) /\ UNCHANGED <<instant, rows, cursor, activeQ, mixed, busy, more>>
  BY DEF DoReopen, List
<1>2. PICK n : n = Call("refresh", activeQ, Top)
  OBVIOUS
<1>3. n \in CallSet /\ n.kind # "more" /\ FirstPage(n)'
  BY <1>2, NewFirstPage DEF LookupInv, LookupTypes, LookupKinds
<1>4. ASSUME NEW d \in calls', d # n PROVE \E c \in calls : SameCall(d, c) /\ d = f[c]
  <2>1. PICK c \in calls : d = [c EXCEPT !.steady = @ \ {i}]
    BY <1>2, <1>4 DEF DoReopen
  <2> QED BY <1>1, <2>1, CallReopenedUnder
<1>5. LookupTypes' /\ RowsSound' /\ CallsSound'
  <2> HIDE DEF f
  <2> QED BY <1>1, <1>3, <1>4, ReopenedMoves, ListKept DEF LookupInv, LookupTypes
<1>6. OneMore'
  <2> HIDE DEF f
  <2>1. \A d \in calls' : d.kind = "more" => \E c \in calls : c.kind = "more" /\ d = f[c]
    BY <1>1, <1>3, <1>4 DEF SameCall
  <2> QED BY <1>1, <2>1, OneMoreKept DEF LookupInv
<1> QED BY <1>5, <1>6 DEF LookupInv

\* A search is submitted.
LEMMA RunKeeps == ASSUME LookupInv, NEW q \in Query, Run(q) PROVE LookupInv'
<1>1. TicketsMove /\ UNCHANGED <<closedAt, rows, cursor, activeQ, mixed, more, steady>>
  BY DEF LookupInv, LookupTypes, TicketsMove, Run, List
<1>2. PICK n : n = Call("run", q, Top)
  OBVIOUS
<1>3. n \in CallSet /\ n.kind # "more" /\ FirstPage(n)'
  BY <1>2, NewFirstPage DEF LookupKinds
<1>4. \A d \in calls' : d # n => d \in calls /\ SameCall(d, d)
  BY <1>1, <1>2, CallUnmoved DEF Run, Issue
<1>5. LookupTypes' /\ RowsSound' /\ CallsSound'
  BY <1>1, <1>3, <1>4, ListKept DEF LookupInv, LookupTypes, Run
<1>6. OneMore'
  BY <1>1, <1>3, <1>4 DEF OneMore, LookupInv
<1> QED BY <1>5, <1>6 DEF LookupInv

\* The next page is asked for.
LEMMA LoadMoreKeeps == ASSUME LookupInv, LoadMore PROVE LookupInv'
<1>1. TicketsMove /\ UNCHANGED <<closedAt, rows, cursor, activeQ, mixed, steady>>
  BY DEF LookupInv, LookupTypes, TicketsMove, LoadMore, List
<1>2. PICK n : n = Call("more", activeQ, cursor)
  OBVIOUS
<1>3. n \in CallSet /\ n.kind = "more" /\ ~n.read /\ n.q = activeQ /\ n.from = cursor
  <2>1. <<>> \in Seq(Ids) /\ Top \in Keys
    BY EmptySeq, LookupAssumption DEF Top, Keys
  <2> QED BY <1>2, <2>1 DEF Call, CallSet, NoPage, LookupKinds, LookupInv, LookupTypes
<1>4. NextPage(n)'
  BY <1>1, <1>3 DEF NextPage, LoadMore, Bottom
<1>5. \A d \in calls' : d # n => d \in calls /\ SameCall(d, d)
  BY <1>1, <1>2, CallUnmoved DEF LoadMore, Issue
<1>6. LookupTypes' /\ RowsSound' /\ CallsSound'
  BY <1>1, <1>3, <1>4, <1>5, ListKept DEF LookupInv, LookupTypes, LoadMore
<1>7. OneMore'
  <2>1. \A c \in calls : c.kind # "more"
    BY DEF OneMore, LookupInv, LoadMore
  <2> QED BY <1>3, <1>5, <2>1 DEF OneMore, LoadMore
<1> QED BY <1>6, <1>7 DEF LookupInv

\* A call answered: its page is sound as it is read.
LEMMA AnsweredKeeps == ASSUME LookupInv, NEW c \in calls, Answered(c) PROVE LookupInv'
<1>1. /\ TicketsMove
      /\ UNCHANGED <<instant, closedAt, rows, cursor, activeQ, mixed, busy, more, steady>>
  BY DEF LookupInv, LookupTypes, TicketsMove, Answered, List
<1>2. PICK r : r = SearchClosed(c.q, c.from)
  OBVIOUS
<1>3. PICK n : n = [c EXCEPT !.read = TRUE, !.page = r, !.steady = ClosedTickets]
  OBVIOUS
<1>4. c \in CallSet /\ c.q \in Query /\ c.from \in Keys
  BY DEF LookupInv, LookupTypes, CallSet
<1>5. /\ r \in [items : Seq(Ids), next : Keys] /\ ListedTo(r.items, r.next)
      /\ Complete(r.items, ClosedTickets, c.q, c.from, r.next)
      /\ \A m \in 1..Len(r.items) : closedAt[r.items[m]] > 0 /\ Below(Key(r.items[m]), c.from)
      /\ r.next = Bottom \/ Below(r.next, c.from)
  BY <1>2, <1>4, PageIsSound DEF LookupInv
<1>6. /\ n \in CallSet /\ n.kind = c.kind /\ n.q = c.q /\ n.from = c.from /\ n.late = c.late
      /\ n.page = r /\ n.steady = ClosedTickets
  BY <1>3, <1>4, <1>5 DEF CallSet, ClosedTickets
<1>7. ASSUME n.kind # "more" PROVE FirstPage(n)'
  <2>1. n.from = Top
    BY <1>6, <1>7 DEF LookupInv, CallsSound, FirstPage
  <2>2. FirstPage(n)
    BY <1>5, <1>6, <2>1 DEF FirstPage
  <2> QED BY <1>1, <2>2 DEF FirstPage, ListedTo, AtOrAbove, Complete, Below, Key, ClosedTickets
<1>8. ASSUME n.kind = "more", ~mixed, ~n.late PROVE NextPage(n)'
  <2>1. c.q = activeQ /\ c.from = cursor /\ cursor # Bottom
    BY <1>6, <1>8 DEF LookupInv, CallsSound, NextPage
  <2>2. Complete(r.items, steady, c.q, cursor, r.next)
    BY <1>5, <2>1 DEF Complete, LookupInv, LookupTypes
  <2>3. Below(r.next, cursor)
    BY <1>5, <2>1 DEF Below, Bottom, LookupInv, LookupTypes, Keys
  <2>4. ASSUME NEW m \in 1..Len(r.items) PROVE ~Holds(rows, r.items[m])
    <3>1. closedAt[r.items[m]] > 0 /\ Below(Key(r.items[m]), cursor)
      BY <1>5, <2>1
    <3>2. \A p \in 1..Len(rows) : AtOrAbove(rows[p], cursor)
      BY <1>8 DEF LookupInv, RowsSound, ListedTo
    <3> QED BY <3>1, <3>2 DEF Holds, AtOrAbove
  <2>5. NextPage(n)
    BY <1>5, <1>6, <2>1, <2>2, <2>3, <2>4 DEF NextPage
  <2> QED BY <1>1, <2>5 DEF NextPage, ListedTo, AtOrAbove, Complete, Below, Key, Holds, Bottom
<1>9. \A d \in calls' : d # n => d \in calls /\ d # c /\ SameCall(d, d)
  BY <1>1, <1>2, <1>3, CallUnmoved DEF Answered
<1>10. LookupTypes' /\ RowsSound' /\ CallsSound'
  BY <1>1, <1>6, <1>7, <1>8, <1>9, ListKept DEF LookupInv, LookupTypes
<1>11. OneMore'
  BY <1>1, <1>6, <1>9 DEF OneMore, LookupInv
<1> QED BY <1>10, <1>11 DEF LookupInv

\* Two lists, the second below the first, make one down to the second's key.
LEMMA ListsJoin ==
  ASSUME LookupTypes, NEW s \in Seq(Ids), NEW t \in Seq(Ids), NEW k \in Keys, NEW l \in Keys,
         ListedTo(s, k), ListedTo(t, l), Below(l, k), \A m \in 1..Len(t) : ~Holds(s, t[m])
  PROVE  /\ s \o t \in Seq(Ids) /\ ListedTo(s \o t, l)
         /\ \A i : Holds(s \o t, i) <=> Holds(s, i) \/ Holds(t, i)
<1> DEFINE u == s \o t
<1>1. /\ u \in Seq(Ids) /\ Len(u) = Len(s) + Len(t) /\ Len(s) \in Nat /\ Len(t) \in Nat
      /\ \A m \in 1..Len(s) + Len(t) : u[m] = IF m <= Len(s) THEN s[m] ELSE t[m - Len(s)]
  BY ConcatProperties, LenProperties
<1> HIDE DEF u
<1>2. \A m \in 1..Len(s) : m \in 1..Len(u) /\ u[m] = s[m]
  BY <1>1
<1>3. \A m \in 1..Len(t) : m + Len(s) \in 1..Len(u) /\ u[m + Len(s)] = t[m]
  BY <1>1
<1>4. \A m \in 1..Len(u) : \/ m \in 1..Len(s) /\ u[m] = s[m]
                           \/ m - Len(s) \in 1..Len(t) /\ u[m] = t[m - Len(s)]
  BY <1>1
<1>5. ASSUME NEW i PROVE Holds(u, i) <=> Holds(s, i) \/ Holds(t, i)
  BY <1>2, <1>3, <1>4 DEF Holds
<1>6. ASSUME NEW m \in 1..Len(u), NEW n \in 1..Len(u), u[m] = u[n] PROVE m = n
  <2>1. CASE m \in 1..Len(s) /\ n \in 1..Len(s)
    BY <1>2, <1>6, <2>1 DEF ListedTo, Once
  <2>2. CASE m \notin 1..Len(s) /\ n \notin 1..Len(s)
    <3>1. m - Len(s) = n - Len(s)
      BY <1>4, <1>6, <2>2 DEF ListedTo, Once
    <3> QED BY <1>1, <3>1
  <2>3. CASE m \in 1..Len(s) /\ n \notin 1..Len(s)
    BY <1>2, <1>4, <1>6, <2>3 DEF Holds
  <2>4. CASE m \notin 1..Len(s) /\ n \in 1..Len(s)
    BY <1>2, <1>4, <1>6, <2>4 DEF Holds
  <2> QED BY <2>1, <2>2, <2>3, <2>4
<1>7. ASSUME NEW i \in Ids, AtOrAbove(i, k) PROVE AtOrAbove(i, l)
  <2>1. /\ i \in Nat /\ instant \in Nat /\ closedAt[i] \in Nat
        /\ k[1] \in Nat /\ k[2] \in Nat /\ l[1] \in Nat /\ l[2] \in Nat
    BY LookupAssumption DEF LookupTypes, Keys
  <2> QED BY <1>7, <2>1 DEF AtOrAbove, Below, Key
<1>8. ASSUME NEW m \in 1..Len(u) PROVE AtOrAbove(u[m], l)
  <2>1. CASE m \in 1..Len(s)
    <3>1. u[m] = s[m] /\ s[m] \in Ids /\ AtOrAbove(s[m], k)
      BY <1>2, <2>1, ElementOfSeq DEF ListedTo
    <3> QED BY <1>7, <3>1
  <2>2. CASE m \notin 1..Len(s)
    BY <1>4, <2>2 DEF ListedTo
  <2> QED BY <2>1, <2>2
<1>9. u = s \o t
  BY DEF u
<1> QED BY <1>1, <1>5, <1>6, <1>8, <1>9 DEF ListedTo, Once

\* A page is appended.
LEMMA AppendKeeps == ASSUME LookupInv, NEW c \in calls, AppendPage(c) PROVE LookupInv'
<1>1. /\ c.kind = "more" /\ c.read /\ rows' = rows \o c.page.items /\ cursor' = c.page.next
      /\ more' = FALSE /\ mixed' = (mixed \/ c.late) /\ calls' = calls \ {c}
      /\ UNCHANGED <<instant, closedAt, activeQ, busy, steady>>
  BY DEF AppendPage
<1>2. c \in CallSet /\ c.page.items \in Seq(Ids) /\ c.page.next \in Keys /\ c.late \in BOOLEAN
  BY DEF LookupInv, LookupTypes, CallSet
<1>3. \A d \in calls' : d \in calls /\ d.kind # "more"
  BY <1>1 DEF LookupInv, OneMore
<1>4. rows' \in Seq(Ids)
  BY <1>1, <1>2, ConcatProperties DEF LookupInv, LookupTypes
<1>5. LookupTypes'
  BY <1>1, <1>2, <1>3, <1>4 DEF LookupInv, LookupTypes, ClosedTickets
<1>6. ASSUME ~mixed' PROVE ListedTo(rows, cursor)' /\ Complete(rows, steady, activeQ, Top, cursor)'
  <2>1. ~mixed /\ ~c.late
    BY <1>1, <1>2, <1>6 DEF LookupInv, LookupTypes
  <2>2. NextPage(c)
    BY <1>1, <2>1 DEF LookupInv, CallsSound
  <2>3. ListedTo(rows, cursor) /\ Complete(rows, steady, activeQ, Top, cursor)
    BY <2>1 DEF LookupInv, RowsSound
  <2>4. PICK s \in Seq(Ids) : s = rows
    BY DEF LookupInv, LookupTypes
  <2>5. PICK t \in Seq(Ids) : t = c.page.items
    BY <1>2
  <2>6. PICK u : u = s \o t
    OBVIOUS
  <2>7. PICK l \in Keys : l = c.page.next
    BY <1>2
  <2>8. cursor \in Keys /\ LookupTypes
    BY DEF LookupInv, LookupTypes
  <2>9. ListedTo(u, l) /\ \A i : Holds(u, i) <=> Holds(s, i) \/ Holds(t, i)
    <3>1. ListedTo(s, cursor) /\ ListedTo(t, l) /\ Below(l, cursor)
          /\ \A m \in 1..Len(t) : ~Holds(s, t[m])
      BY <1>1, <2>2, <2>3, <2>4, <2>5, <2>7 DEF NextPage
    <3> QED BY <2>6, <2>8, <3>1, ListsJoin
  <2>10. Complete(u, steady, activeQ, Top, l)
    <3>1. Complete(s, steady, activeQ, Top, cursor) /\ Complete(t, steady, activeQ, cursor, l)
      BY <1>1, <2>2, <2>3, <2>4, <2>5, <2>7 DEF NextPage
    <3> HIDE DEF Top
    <3> QED BY <2>9, <3>1 DEF Complete
  <2>11. rows' = u /\ cursor' = l
    BY <1>1, <2>4, <2>5, <2>6, <2>7
  <2> QED BY <1>1, <2>9, <2>10, <2>11 DEF ListedTo, Once, AtOrAbove, Below, Key, Complete, Holds
<1>7. RowsSound'
  BY <1>6 DEF RowsSound
<1>8. ASSUME NEW d \in calls' PROVE FirstPage(d)'
  <2>1. FirstPage(d)
    BY <1>3 DEF LookupInv, CallsSound
  <2> QED BY <1>1, <2>1 DEF FirstPage, ListedTo, AtOrAbove, Complete, Below, Key, ClosedTickets
<1>9. CallsSound'
  BY <1>3, <1>8 DEF CallsSound
<1>10. OneMore'
  BY <1>3 DEF OneMore
<1> QED BY <1>5, <1>7, <1>9, <1>10 DEF LookupInv

\* A first page replaces the rows; what "load more" still brings is late.
LEMMA ReplaceKeeps == ASSUME LookupInv, NEW c \in calls, Replace(c) PROVE LookupInv'
<1> DEFINE late(d) == IF d.kind = "more" THEN [d EXCEPT !.late = TRUE] ELSE d
           f == [d \in calls |-> late(d)]
<1>1. /\ c.kind # "more" /\ c.read /\ rows' = c.page.items /\ cursor' = c.page.next
      /\ activeQ' = (IF c.kind = "refresh" THEN activeQ ELSE c.q)
      /\ busy' = (IF c.kind = "run" THEN FALSE ELSE busy)
      /\ steady' = c.steady /\ mixed' = (c.q # activeQ')
      /\ calls' = {late(d) : d \in calls \ {c}}
      /\ UNCHANGED <<instant, closedAt, more>>
  BY DEF Replace
<1>2. c \in CallSet /\ c.page.items \in Seq(Ids) /\ c.page.next \in Keys /\ c.q \in Query
  BY DEF LookupInv, LookupTypes, CallSet
<1>3. /\ c.steady \subseteq ClosedTickets /\ ListedTo(c.page.items, c.page.next)
      /\ Complete(c.page.items, c.steady, c.q, Top, c.page.next)
  BY <1>1 DEF LookupInv, CallsSound, FirstPage
<1>4. ASSUME NEW d \in calls'
      PROVE  /\ d \in CallSet
             /\ \/ d.kind = "more" /\ d.late
                \/ d.kind # "more" /\ d \in calls
             /\ \E e \in calls : d = f[e] /\ e.kind = d.kind
  <2>1. PICK e \in calls : d = late(e)
    BY <1>1
  <2>2. e \in CallSet
    BY DEF LookupInv, LookupTypes
  <2> QED BY <2>1, <2>2 DEF CallSet
<1>5. LookupTypes'
  <2>1. activeQ' \in Query /\ mixed' \in BOOLEAN
    BY <1>1, <1>2 DEF LookupInv, LookupTypes
  <2>2. busy' \in BOOLEAN
    BY <1>1 DEF LookupInv, LookupTypes
  <2> QED BY <1>1, <1>2, <1>3, <1>4, <2>1, <2>2 DEF LookupInv, LookupTypes, ClosedTickets
<1>6. RowsSound'
  <2> SUFFICES ASSUME ~mixed'
               PROVE  ListedTo(rows, cursor)' /\ Complete(rows, steady, activeQ, Top, cursor)'
    BY DEF RowsSound
  <2>1. activeQ' = c.q
    BY <1>1
  <2> QED BY <1>1, <1>3, <2>1 DEF ListedTo, Once, AtOrAbove, Below, Key, Complete, Holds
<1>7. ASSUME NEW d \in calls', d.kind # "more" PROVE FirstPage(d)'
  <2>1. FirstPage(d)
    BY <1>4, <1>7 DEF LookupInv, CallsSound
  <2> QED BY <1>1, <2>1 DEF FirstPage, ListedTo, AtOrAbove, Complete, Below, Key, ClosedTickets
<1>8. CallsSound'
  BY <1>4, <1>7 DEF CallsSound
<1>9. OneMore'
  <2> HIDE DEF f
  <2>1. \A d \in calls' : d.kind = "more" => \E e \in calls : e.kind = "more" /\ d = f[e]
    BY <1>4
  <2> QED BY <1>1, <2>1, OneMoreKept DEF LookupInv
<1> QED BY <1>5, <1>6, <1>8, <1>9 DEF LookupInv

\* A call fails.
LEMMA FailsKeeps == ASSUME LookupInv, NEW c \in calls, Fails(c) PROVE LookupInv'
<1>1. /\ TicketsMove /\ UNCHANGED <<instant, closedAt, rows, cursor, activeQ, mixed, steady>>
      /\ busy' = (IF c.kind = "run" THEN FALSE ELSE busy)
      /\ more' = (IF c.kind = "more" THEN FALSE ELSE more)
  BY DEF LookupInv, LookupTypes, TicketsMove, Fails, List
<1>2. busy' \in BOOLEAN /\ more' \in BOOLEAN
  BY <1>1 DEF LookupInv, LookupTypes
<1>3. PICK n : n = Call("default", "all", Top)
  OBVIOUS
<1>4. n \in CallSet /\ n.kind # "more" /\ FirstPage(n)'
  BY <1>3, NewFirstPage DEF LookupKinds, Query
<1>5. \A d \in calls' : d # n => d \in calls /\ d # c /\ SameCall(d, d)
  BY <1>1, <1>3, CallUnmoved DEF Fails
<1>6. LookupTypes' /\ RowsSound' /\ CallsSound'
  BY <1>1, <1>2, <1>4, <1>5, ListKept DEF LookupInv, LookupTypes
<1>7. OneMore'
  BY <1>1, <1>4, <1>5 DEF OneMore, LookupInv
<1> QED BY <1>6, <1>7 DEF LookupInv

\* Every step keeps the lookup in order.
LEMMA LookupInvStep == LookupInv /\ [LookupNext]_lookupVars => LookupInv'
<1> SUFFICES ASSUME LookupInv, [LookupNext]_lookupVars PROVE LookupInv'
  OBVIOUS
<1>1. CASE UNCHANGED lookupVars
  BY <1>1 DEF lookupVars, LookupInv, LookupTypes, RowsSound, CallsSound, OneMore, ListedTo,
     AtOrAbove, Complete, Below, Key, FirstPage, NextPage, ClosedTickets, Holds
<1>2. CASE Tick
  BY <1>2, TickKeeps
<1>3. CASE LoadMore
  BY <1>3, LoadMoreKeeps
<1>4. CASE \E i \in Ids : CloseTicket(i) \/ ReopenElsewhere(i) \/ DoReopen(i)
  BY <1>4, CloseKeeps, ReopenElsewhereKeeps, DoReopenKeeps
<1>5. CASE \E q \in Query : Run(q)
  BY <1>5, RunKeeps
<1>6. CASE \E c \in calls : Answered(c) \/ AppendPage(c) \/ Replace(c) \/ Fails(c)
  BY <1>6, AnsweredKeeps, AppendKeeps, ReplaceKeeps, FailsKeeps
<1> QED BY <1>1, <1>2, <1>3, <1>4, <1>5, <1>6 DEF LookupNext

\* A sequence without repetition has as many tickets as rows.
LEMMA OnceCounts ==
  ASSUME NEW s \in Seq(Ids), Once(s) PROVE Cardinality(ToSet(s)) = Len(s)
<1>1. Len(s) \in Nat /\ s \in [1..Len(s) -> Ids] /\ DOMAIN s = 1..Len(s)
  BY LenProperties
<1>2. ToSet(s) = {s[m] : m \in 1..Len(s)}
  BY <1>1 DEF ToSet
<1>3. s \in Bijection(1..Len(s), ToSet(s))
  BY <1>1, <1>2 DEF Once, Bijection, Injection, Surjection, IsInjective
<1> QED BY <1>1, <1>3, FS_CountingElements DEF ExistsBijection

\* Of a list in order nothing was skipped.
LEMMA LookupInvSound == LookupInv => NothingSkipped
<1> SUFFICES ASSUME LookupInv, ~mixed
             PROVE  /\ Cardinality(ToSet(rows)) = Len(rows)
                    /\ \A i \in steady \cap Found(activeQ) :
                         Below(Key(i), cursor) \/ i \in ToSet(rows)
  BY DEF NothingSkipped
<1>1. /\ Once(rows) /\ rows \in Seq(Ids)
      /\ Complete(rows, steady, activeQ, Top, cursor)
  BY DEF LookupInv, RowsSound, ListedTo, LookupTypes
<1>2. \A i \in steady : Below(Key(i), Top)
  BY LookupAssumption DEF LookupInv, LookupTypes, ClosedTickets, Below, Key, Top
<1>3. \A i : Holds(rows, i) => i \in ToSet(rows)
  BY <1>1, LenProperties DEF Holds, ToSet
<1> QED BY <1>1, <1>2, <1>3, OnceCounts DEF Complete

\* Paging the lookup shows every match once: the rows never repeat a ticket and
\* none that stayed closed is missing above the cursor (searchClosed's keyset).
THEOREM LookupSkipsNothing == LookupSpec => []NothingSkipped
BY LookupInvInit, LookupInvStep, LookupInvSound, PTL DEF LookupSpec
=============================================================================
