---------------------------- MODULE ClockProofs -----------------------------
(***************************************************************************)
(* The SLA clock and the reports made of it, for any calendar, any flow    *)
(* and any bounds.  A station is charged the working days since it was     *)
(* entered but those a pause covers; an undo hands back a clock of the     *)
(* visit it undoes, although both are read long before the undo is         *)
(* written; and the reports agree with what happened to the ticket.        *)
(*                                                                         *)
(* Sums, counts and merges over finite sets are reasoned about by          *)
(* induction on the set (SetInduction), stated without an operator         *)
(* parameter: that its subsets are well-founded (WFMin) is first-order.    *)
(***************************************************************************)
EXTENDS Reports, FiniteSetTheorems, WellFoundedInduction, TLAPS

-----------------------------------------------------------------------------
(***************************************************************************)
(* Induction and sums over finite sets.                                    *)
(***************************************************************************)
\* Induction up to a bound: the sets 0..n-1 are well-founded.
LEMMA UpTo ==
  ASSUME NEW N \in Nat, NEW G, 0 \in G, \A n \in 0..N : n \in G /\ n < N => n+1 \in G
  PROVE  \A n \in 0..N : n \in G
<1> DEFINE Below(n) == {m \in 0..N : m < n}
           T == {Below(n) : n \in (0..N) \ G}
<1> SUFFICES ASSUME (0..N) \ G # {} PROVE FALSE
  OBVIOUS
<1>1. IsFiniteSet(0..N)
  BY FS_Interval
<1>2. T \subseteq FiniteSubsetsOf(0..N) /\ T # {}
  <2>1. \A n : Below(n) \in FiniteSubsetsOf(0..N)
    BY <1>1, FS_Subset DEF FiniteSubsetsOf
  <2> QED
    BY <2>1
<1>3. PICK x \in T : \A y \in T : ~ (<<y, x>> \in StrictSubsetOrdering(0..N))
  BY <1>2, FS_StrictSubsetOrderingWellFounded, WFMin
<1>4. PICK n \in (0..N) \ G : x = Below(n)
  OBVIOUS
<1>5. n # 0 /\ n - 1 \in (0..N) \ G
  OBVIOUS
<1>6. n - 1 \in Below(n) /\ n - 1 \notin Below(n - 1) /\ Below(n - 1) \subseteq Below(n)
  BY <1>5
<1>7. Below(n - 1) \subseteq 0..N /\ Below(n) \subseteq 0..N /\ Below(n - 1) \in T
  BY <1>5
<1> HIDE DEF Below, T
<1>8. <<Below(n - 1), Below(n)>> \in StrictSubsetOrdering(0..N)
  BY <1>6, <1>7 DEF StrictSubsetOrdering
<1> QED
  BY <1>3, <1>4, <1>7, <1>8

\* Induction on the subsets of a finite set: each follows from those with one element less.
LEMMA SetInduction ==
  ASSUME NEW A, IsFiniteSet(A), NEW Z, {} \in Z,
         \A s \in SUBSET A : s # {} /\ (\A x \in s : s \ {x} \in Z) => s \in Z
  PROVE  \A s \in SUBSET A : s \in Z
<1> DEFINE T == (SUBSET A) \ Z
<1> SUFFICES ASSUME T # {} PROVE FALSE
  OBVIOUS
<1>1. T \subseteq FiniteSubsetsOf(A)
  BY FS_FiniteSubsetsOfFinite
<1>2. PICK s \in T : \A y \in T : ~ (<<y, s>> \in StrictSubsetOrdering(A))
  BY <1>1, FS_StrictSubsetOrderingWellFounded, WFMin
<1>3. ASSUME NEW x \in s, s \ {x} \notin Z PROVE FALSE
  <2>1. s \ {x} \in T /\ s \ {x} # s /\ s \ {x} \subseteq s /\ s \in SUBSET A
    BY <1>3
  <2>2. <<s \ {x}, s>> \in StrictSubsetOrdering(A)
    BY <2>1 DEF StrictSubsetOrdering
  <2> QED
    BY <1>2, <2>1, <2>2
<1> QED
  BY <1>3

Recurs(g, A, base, pick, step) ==
  \A s \in SUBSET A : g[s] = IF s = {} THEN base ELSE step[<<pick[s], g[s \ {pick[s]}]>>]

\* A recursion that takes one element at a time from a finite set defines a function:
\* what it defines on the sets of up to n elements, it defines on those of n+1.
LEMMA SetRecursion ==
  ASSUME NEW A, IsFiniteSet(A), NEW B, NEW base \in B,
         NEW pick, \A s \in SUBSET A : s # {} => pick[s] \in s,
         NEW step, \A x \in A, b \in B : step[<<x, b>>] \in B
  PROVE  \E g \in [SUBSET A -> B] : Recurs(g, A, base, pick, step)
<1> DEFINE N == Cardinality(A)
           Good(n, g) == \A s \in SUBSET A : Cardinality(s) <= n =>
                           g[s] = IF s = {} THEN base ELSE step[<<pick[s], g[s \ {pick[s]}]>>]
           G == {n \in Nat : \E g \in [SUBSET A -> B] : Good(n, g)}
<1>1. /\ N \in Nat
      /\ \A s \in SUBSET A : IsFiniteSet(s) /\ Cardinality(s) \in Nat /\ Cardinality(s) <= N
  BY FS_CardinalityType, FS_Subset
<1>2. \A s \in SUBSET A : s # {} =>
        /\ pick[s] \in A /\ s \ {pick[s]} \in SUBSET A
        /\ Cardinality(s \ {pick[s]}) = Cardinality(s) - 1
  BY <1>1, FS_RemoveElement
<1>3. \A s \in SUBSET A : Cardinality(s) = 0 <=> s = {}
  BY <1>1, FS_EmptySet
<1>4. 0 \in G
  <2> DEFINE g == [s \in SUBSET A |-> base]
  <2>1. g \in [SUBSET A -> B]
    OBVIOUS
  <2>2. Good(0, g)
    BY <1>1, <1>3
  <2> QED
    BY <2>1, <2>2
<1>5. ASSUME NEW n \in Nat, n \in G PROVE n + 1 \in G
  <2>1. PICK g \in [SUBSET A -> B] : Good(n, g)
    BY <1>5
  <2> DEFINE h == [s \in SUBSET A |-> IF s = {} THEN base ELSE step[<<pick[s], g[s \ {pick[s]}]>>]]
  <2>2. h \in [SUBSET A -> B]
    BY <1>2
  <2>3. \A s \in SUBSET A : Cardinality(s) <= n => h[s] = g[s]
    BY <2>1
  <2>4. Good(n + 1, h)
    <3> SUFFICES ASSUME NEW s \in SUBSET A, Cardinality(s) <= n + 1, s # {}
                 PROVE  h[s] = step[<<pick[s], h[s \ {pick[s]}]>>]
      OBVIOUS
    <3>1. s \ {pick[s]} \in SUBSET A /\ Cardinality(s \ {pick[s]}) <= n
      BY <1>1, <1>2
    <3> QED
      BY <2>3, <3>1
  <2> HIDE DEF h, Good
  <2> QED
    BY <2>2, <2>4
<1> HIDE DEF G
<1>6. N \in G
  BY <1>1, <1>4, <1>5, UpTo
<1> USE DEF G
<1>7. PICK g \in [SUBSET A -> B] : Good(N, g)
  BY <1>6
<1> QED
  BY <1>1, <1>7 DEF Recurs

\* The sum over a finite set, taken one element at a time.
SumFrom(f, S) == CHOOSE sum : sum = [s \in SUBSET S |->
                   IF s = {} THEN 0 ELSE f[CHOOSE x \in s : TRUE] + sum[s \ {CHOOSE x \in s : TRUE}]]

Sums(sum, f, S) ==
  \A s \in SUBSET S : sum[s] = IF s = {} THEN 0
     ELSE f[CHOOSE x \in s : TRUE] + sum[s \ {CHOOSE x \in s : TRUE}]

\* The sum over a set adds one element at a time, the one CHOOSE picks of it.
LEMMA SumRecursion ==
  ASSUME NEW S, IsFiniteSet(S), NEW f, \A x \in S : f[x] \in Nat
  PROVE  Sums(SumFrom(f, S), f, S)
<1> DEFINE pick == [s \in SUBSET S |-> CHOOSE x \in s : TRUE]
           step == [p \in S \X Nat |-> f[p[1]] + p[2]]
<1>1. \A s \in SUBSET S : pick[s] = CHOOSE x \in s : TRUE
  OBVIOUS
<1>2. \A s \in SUBSET S : s # {} => pick[s] \in s
  OBVIOUS
<1>3. \A x \in S, b \in Nat : step[<<x, b>>] = f[x] + b /\ step[<<x, b>>] \in Nat
  OBVIOUS
<1> HIDE DEF pick, step
<1>4. 0 \in Nat /\ \A x \in S, b \in Nat : step[<<x, b>>] \in Nat
  BY <1>3
<1>5. PICK g \in [SUBSET S -> Nat] : Recurs(g, S, 0, pick, step)
  BY <1>2, <1>4, SetRecursion, Zenon
<1>6. ASSUME NEW s \in SUBSET S
      PROVE  g[s] = IF s = {} THEN 0
               ELSE f[CHOOSE x \in s : TRUE] + g[s \ {CHOOSE x \in s : TRUE}]
  <2>1. CASE s = {}
    BY <1>5, <2>1 DEF Recurs
  <2>2. CASE s # {}
    <3>1. PICK x : x = pick[s]
      OBVIOUS
    <3>2. x \in S /\ s \ {x} \in SUBSET S /\ x = CHOOSE y \in s : TRUE
      BY <1>1, <1>2, <2>2, <3>1
    <3>3. g[s] = step[<<x, g[s \ {x}]>>]
      BY <1>5, <2>2, <3>1 DEF Recurs
    <3>4. g[s] = f[x] + g[s \ {x}]
      BY <1>3, <1>5, <3>2, <3>3
    <3> QED
      BY <2>2, <3>2, <3>4
  <2> QED
    BY <2>1, <2>2
<1>7. g = [s \in SUBSET S |-> IF s = {} THEN 0
             ELSE f[CHOOSE x \in s : TRUE] + g[s \ {CHOOSE x \in s : TRUE}]]
  BY <1>5, <1>6
<1>8. SumFrom(f, S) = [s \in SUBSET S |-> IF s = {} THEN 0
             ELSE f[CHOOSE x \in s : TRUE] + SumFrom(f, S)[s \ {CHOOSE x \in s : TRUE}]]
  BY <1>7, Zenon DEF SumFrom
<1> QED
  BY <1>8 DEF Sums

\* A set falls into finite parts, one for each x in S, and f gives their sizes.
Parts(A, S, I, f) ==
  /\ \A x \in S : IsFiniteSet(I[x]) /\ f[x] = Cardinality(I[x]) /\ I[x] \subseteq A
  /\ \A x, y \in S : x # y => I[x] \cap I[y] = {}
  /\ \A e \in A : \E x \in S : e \in I[x]

\* The sizes of the parts add up to the size of the set.
LEMMA SumOfSizes ==
  ASSUME NEW S, IsFiniteSet(S), NEW A, NEW I, NEW f, Parts(A, S, I, f)
  PROVE  SumFrom(f, S)[S] = Cardinality(A)
<1> DEFINE U(s) == UNION {I[x] : x \in s}
           Z == {s \in SUBSET S : IsFiniteSet(U(s)) /\ SumFrom(f, S)[s] = Cardinality(U(s))}
<1>1. \A x \in S : f[x] \in Nat
  BY FS_CardinalityType DEF Parts
<1>2. Sums(SumFrom(f, S), f, S)
  BY <1>1, SumRecursion, Zenon
<1>3. {} \in Z
  <2>1. U({}) = {}
    OBVIOUS
  <2> QED
    BY <1>2, <2>1, FS_EmptySet DEF Sums
<1>4. ASSUME NEW s \in SUBSET S, s # {}, \A x \in s : s \ {x} \in Z PROVE s \in Z
  <2>1. PICK x \in s : x = CHOOSE y \in s : TRUE
    BY <1>4
  <2>2. SumFrom(f, S)[s] = f[x] + SumFrom(f, S)[s \ {x}]
    BY <1>2, <1>4, <2>1 DEF Sums
  <2>3. /\ IsFiniteSet(U(s \ {x})) /\ SumFrom(f, S)[s \ {x}] = Cardinality(U(s \ {x}))
        /\ IsFiniteSet(I[x]) /\ f[x] = Cardinality(I[x])
    BY <1>4 DEF Parts
  <2>4. U(s) = I[x] \cup U(s \ {x}) /\ I[x] \cap U(s \ {x}) = {}
    BY DEF Parts
  <2> HIDE DEF U
  <2>5. IsFiniteSet(U(s)) /\ Cardinality(U(s)) = Cardinality(I[x]) + Cardinality(U(s \ {x}))
    <3>1. /\ IsFiniteSet(I[x] \cup U(s \ {x}))
          /\ Cardinality(I[x] \cup U(s \ {x})) =
               Cardinality(I[x]) + Cardinality(U(s \ {x}))
                 - Cardinality(I[x] \cap U(s \ {x}))
      BY <2>3, FS_Union
    <3>2. Cardinality(I[x]) \in Nat /\ Cardinality(U(s \ {x})) \in Nat /\ Cardinality({}) = 0
      BY <2>3, FS_CardinalityType, FS_EmptySet
    <3>3. Cardinality(I[x] \cap U(s \ {x})) = 0
      BY <2>4, <3>2
    <3> QED
      BY <2>4, <3>1, <3>2, <3>3
  <2> QED
    BY <2>2, <2>3, <2>5
<1> HIDE DEF Z
<1>5. S \in Z
  BY <1>3, <1>4, SetInduction
<1>6. U(S) = A
  BY DEF Parts
<1> HIDE DEF U
<1> QED
  BY <1>5, <1>6 DEF Z

\* The sum of a function's values is taken that way.
LEMMA SumIsFold ==
  ASSUME NEW S, NEW f, DOMAIN f = S
  PROVE  SumFunction(f) = SumFrom(f, S)[S]
BY DEF SumFunction, SumFunctionOnSet, FoldFunctionOnSet, MapThenFoldSet, SumFrom

-----------------------------------------------------------------------------
(***************************************************************************)
(* Working days.                                                           *)
(***************************************************************************)
WorkDays(a, b) == {d \in a+1 .. b : Working(d)}

\* The working days before day d, of which each week has five.
WorkedBefore(d) == 5 * (d \div 7) + (IF d % 7 < 5 THEN d % 7 ELSE 5)

\* One day more adds one working day, unless it is of a weekend.
LEMMA WorkedNext ==
  ASSUME NEW d \in Nat
  PROVE  /\ WorkedBefore(d) \in Nat
         /\ WorkedBefore(d + 1) = WorkedBefore(d) + (IF Working(d) THEN 1 ELSE 0)
BY DEF WorkedBefore, Working

\* Working days are counted by weeks.
LEMMA CountDays ==
  ASSUME NEW a \in Nat, NEW b \in Nat, a <= b
  PROVE  /\ IsFiniteSet(WorkDays(a, b)) /\ Cardinality(WorkDays(a, b)) \in Nat
         /\ Cardinality(WorkDays(a, b)) = WorkedBefore(b + 1) - WorkedBefore(a + 1)
<1> DEFINE G == {n \in Nat : Cardinality(WorkDays(a, a + n)) = WorkedBefore(a + n + 1) - WorkedBefore(a + 1)}
<1>1. \A c \in Nat : IsFiniteSet(WorkDays(a, c)) /\ Cardinality(WorkDays(a, c)) \in Nat
  <2>1. ASSUME NEW c \in Nat PROVE IsFiniteSet(WorkDays(a, c))
    <3>1. IsFiniteSet(a+1 .. c) /\ WorkDays(a, c) \subseteq a+1 .. c
      BY FS_Interval DEF WorkDays
    <3> QED
      BY <3>1, FS_Subset
  <2> QED
    BY <2>1, FS_CardinalityType
<1>2. 0 \in G
  <2>1. WorkDays(a, a + 0) = {}
    BY DEF WorkDays
  <2>2. Cardinality({}) = 0 /\ WorkedBefore(a + 1) \in Nat
    BY FS_EmptySet, WorkedNext
  <2> QED
    BY <2>1, <2>2
<1>3. ASSUME NEW n \in Nat, n \in G PROVE n + 1 \in G
  <2> DEFINE d == a + n + 1
  <2>1. d \in Nat /\ d \notin WorkDays(a, a + n)
    BY DEF WorkDays
  <2>2. WorkDays(a, d) = IF Working(d) THEN WorkDays(a, a + n) \cup {d} ELSE WorkDays(a, a + n)
    BY DEF WorkDays
  <2>3. /\ a + n \in Nat /\ IsFiniteSet(WorkDays(a, a + n)) /\ Cardinality(WorkDays(a, a + n)) \in Nat
        /\ Cardinality(WorkDays(a, a + n) \cup {d}) = Cardinality(WorkDays(a, a + n)) + 1
    <3>1. a + n \in Nat /\ IsFiniteSet(WorkDays(a, a + n)) /\ Cardinality(WorkDays(a, a + n)) \in Nat
      BY <1>1
    <3> HIDE DEF d
    <3> QED
      BY <2>1, <3>1, FS_AddElement
  <2>4. /\ WorkedBefore(d) \in Nat /\ WorkedBefore(a + 1) \in Nat
        /\ WorkedBefore(d + 1) = WorkedBefore(d) + (IF Working(d) THEN 1 ELSE 0)
    BY <2>1, WorkedNext
  <2>5. Cardinality(WorkDays(a, a + n)) = WorkedBefore(d) - WorkedBefore(a + 1)
    BY <1>3
  <2>6. Cardinality(WorkDays(a, d)) = WorkedBefore(d + 1) - WorkedBefore(a + 1)
    BY <2>2, <2>3, <2>4, <2>5
  <2>7. a + (n + 1) = d
    OBVIOUS
  <2> HIDE DEF d
  <2> QED
    BY <2>6, <2>7
<1> HIDE DEF G
<1>4. b - a \in Nat /\ b - a \in G
  <2>1. b - a \in Nat
    OBVIOUS
  <2> QED
    BY <1>2, <1>3, <2>1, UpTo
<1>5. a + (b - a) = b
  OBVIOUS
<1> QED
  BY <1>1, <1>4, <1>5 DEF G

\* Days of two stretches one after the other.
LEMMA DaysSplit ==
  ASSUME NEW a \in Nat, NEW b \in Nat, NEW c \in Nat, a <= b, b <= c
  PROVE  /\ Cardinality(WorkDays(a, c)) = Cardinality(WorkDays(a, b)) + Cardinality(WorkDays(b, c))
         /\ Cardinality(WorkDays(a, b)) \in Nat /\ Cardinality(WorkDays(b, c)) \in Nat
         /\ WorkDays(a, c) = WorkDays(a, b) \cup WorkDays(b, c)
         /\ WorkDays(a, b) \cap WorkDays(b, c) = {}
<1>1. \A d \in Nat : WorkedBefore(d + 1) \in Nat
  BY WorkedNext
<1> a <= c
  OBVIOUS
<1>2. /\ Cardinality(WorkDays(a, c)) = WorkedBefore(c + 1) - WorkedBefore(a + 1)
      /\ Cardinality(WorkDays(a, b)) = WorkedBefore(b + 1) - WorkedBefore(a + 1)
      /\ Cardinality(WorkDays(b, c)) = WorkedBefore(c + 1) - WorkedBefore(b + 1)
      /\ Cardinality(WorkDays(a, b)) \in Nat /\ Cardinality(WorkDays(b, c)) \in Nat
  BY CountDays
<1>3. /\ WorkDays(a, c) = WorkDays(a, b) \cup WorkDays(b, c)
      /\ WorkDays(a, b) \cap WorkDays(b, c) = {}
  BY DEF WorkDays
<1> QED
  BY <1>1, <1>2, <1>3

\* There is a working day that is the n-th after day a, within 2n+2 days.
LEMMA NthWorkDay ==
  ASSUME NEW a \in Nat, NEW n \in Nat
  PROVE  \E k \in 0 .. 2*n + 2 : /\ Cardinality(WorkDays(a, a + k)) = n
                                 /\ k = 0 \/ Working(a + k)
<1>1. CASE n = 0
  <2>1. WorkDays(a, a + 0) = {} /\ Cardinality({}) = 0
    BY FS_EmptySet DEF WorkDays
  <2> QED
    BY <1>1, <2>1
<1>2. CASE n > 0
  <2> DEFINE t == WorkedBefore(a + 1) + n - 1
             e == 7 * (t \div 5) + (t % 5)
  <2>1. t \in Nat /\ e \in Nat
    <3>1. WorkedBefore(a + 1) \in Nat
      BY WorkedNext
    <3>2. t \in Nat
      BY <1>2, <3>1
    <3> HIDE DEF t
    <3> QED
      BY <3>2
  <2>2. Working(e) /\ WorkedBefore(e) = t
    <3>1. e % 7 = t % 5 /\ e \div 7 = t \div 5 /\ t % 5 < 5 /\ t = 5 * (t \div 5) + (t % 5)
      BY <2>1
    <3> QED
      BY <2>1, <3>1 DEF Working, WorkedBefore
  <2>3. a < e /\ e <= a + 2*n + 2
    <3>1. PICK q \in Nat, r \in 0..6 : q = (a + 1) \div 7 /\ r = (a + 1) % 7 /\ a + 1 = 7 * q + r
      OBVIOUS
    <3>2. WorkedBefore(a + 1) = 5 * q + (IF r < 5 THEN r ELSE 5)
      BY <3>1 DEF WorkedBefore
    <3>3. PICK w \in Nat, s \in 0..4 : w = t \div 5 /\ s = t % 5 /\ t = 5 * w + s
      BY <2>1
    <3> QED
      BY <1>2, <3>1, <3>2, <3>3
  <2>4. WorkedBefore(e + 1) - WorkedBefore(a + 1) = n
    <3>1. WorkedBefore(e + 1) = WorkedBefore(e) + 1 /\ WorkedBefore(a + 1) \in Nat
      BY <2>1, <2>2, WorkedNext
    <3> QED
      BY <2>2, <3>1
  <2> HIDE DEF e
  <2>5. Cardinality(WorkDays(a, e)) = n
    BY <2>1, <2>3, <2>4, CountDays
  <2>6. PICK k \in Nat : k = e - a /\ a + k = e
    BY <2>1, <2>3
  <2>7. k \in 0 .. 2*n + 2
    BY <2>3, <2>6
  <2> QED
    BY <2>2, <2>5, <2>6, <2>7
<1> QED
  BY <1>1, <1>2

\* Moving an instant by whole days moves its day.
LEMMA DayAdds ==
  ASSUME NEW t \in Nat, NEW k \in Nat
  PROVE  /\ civilDay(t) \in Nat /\ t + k * PerDay \in Nat
         /\ civilDay(t + k * PerDay) = civilDay(t) + k
<1>1. PerDay \in Nat /\ PerDay > 0
  BY PerDayAssumption
<1> DEFINE q == t \div PerDay
<1>2. q \in Nat /\ q * PerDay <= t /\ t < q * PerDay + PerDay
  BY <1>1
<1>3. t + k * PerDay \in Nat
  BY <1>1
<1>4. (q + k) * PerDay = q * PerDay + k * PerDay
  BY <1>1, <1>2
<1>5. (t + k * PerDay) \div PerDay = q + k
  <2>1. PICK u \in Nat, p \in Nat : u = t + k * PerDay /\ p = q + k
    BY <1>2, <1>3
  <2>2. p * PerDay <= u /\ u < p * PerDay + PerDay
    BY <1>1, <1>2, <1>4, <2>1
  <2>3. u \div PerDay = p
    BY <1>1, <2>2
  <2> QED
    BY <2>1, <2>3
<1> QED
  BY <1>2, <1>3, <1>5 DEF civilDay

\* Days pass as instants do.
LEMMA DayGrows ==
  ASSUME NEW t \in Nat, NEW u \in Nat, t <= u
  PROVE  civilDay(t) \in Nat /\ civilDay(u) \in Nat /\ civilDay(t) <= civilDay(u)
<1>1. PerDay \in Nat /\ PerDay > 0
  BY PerDayAssumption
<1> QED
  BY <1>1 DEF civilDay

\* A clock that starts n working days later has run n working days less.
LEMMA LaterStart ==
  ASSUME NEW t \in Nat, NEW n \in Nat, NEW u \in Nat, n <= businessDaysBetween(t, u)
  PROVE  /\ addBusinessDays(t, n) \in Nat
         /\ businessDaysBetween(addBusinessDays(t, n), u) = businessDaysBetween(t, u) - n
<1> DEFINE day == civilDay(t)
           Nth(k) == /\ Cardinality({d \in day+1 .. day+k : Working(d)}) = n
                     /\ k = 0 \/ Working(day + k)
           k == CHOOSE k \in 0 .. 2*n + 2 : Nth(k)
<1>1. day \in Nat /\ civilDay(u) \in Nat
  BY DayAdds, DayGrows
<1>2. k \in 0 .. 2*n + 2 /\ Nth(k)
  <2>1. \E i \in 0 .. 2*n + 2 : Nth(i)
    BY <1>1, NthWorkDay DEF WorkDays
  <2> HIDE DEF Nth
  <2> QED
    BY <2>1
<1>3. addBusinessDays(t, n) = t + k * PerDay
  BY DEF addBusinessDays
<1>4. /\ Cardinality(WorkDays(day, day + k)) = n
      /\ k = 0 \/ Working(day + k)
      /\ k \in Nat
  BY <1>2 DEF WorkDays
<1> HIDE DEF k
<1>5. civilDay(t + k * PerDay) = day + k /\ t + k * PerDay \in Nat
  BY <1>4, DayAdds
<1>6. /\ businessDaysBetween(t, u) = Cardinality(WorkDays(day, civilDay(u)))
      /\ businessDaysBetween(t + k * PerDay, u) = Cardinality(WorkDays(day + k, civilDay(u)))
  BY <1>5 DEF businessDaysBetween, WorkDays
<1> HIDE DEF day
<1>7. CASE day + k <= civilDay(u)
  <2>1. day + k \in Nat /\ day <= day + k
    BY <1>1, <1>4
  <2>2. /\ Cardinality(WorkDays(day, civilDay(u))) = n + Cardinality(WorkDays(day + k, civilDay(u)))
        /\ Cardinality(WorkDays(day + k, civilDay(u))) \in Nat
    BY <1>1, <1>4, <1>7, <2>1, DaysSplit
  <2> QED
    BY <1>3, <1>4, <1>5, <1>6, <2>2
<1>8. CASE civilDay(u) < day + k
  <2>1. WorkDays(day + k, civilDay(u)) = {}
    BY <1>1, <1>4, <1>8 DEF WorkDays
  <2>2. CASE k = 0
    <3>1. day + k = day /\ n = 0
      BY <1>1, <1>4, <2>2, FS_EmptySet DEF WorkDays
    <3>2. businessDaysBetween(t, u) = 0 /\ businessDaysBetween(t + k * PerDay, u) = 0
      BY <1>6, <2>1, <3>1, FS_EmptySet
    <3> QED
      BY <1>3, <1>5, <3>1, <3>2
  <2>3. CASE k > 0
    <3>1. CASE day <= civilDay(u)
      <4>1. /\ Cardinality(WorkDays(day, day + k)) =
                 Cardinality(WorkDays(day, civilDay(u))) + Cardinality(WorkDays(civilDay(u), day + k))
            /\ Cardinality(WorkDays(day, civilDay(u))) \in Nat
            /\ IsFiniteSet(WorkDays(civilDay(u), day + k))
        BY <1>1, <1>4, <1>8, <3>1, DaysSplit, CountDays
      <4>2. day + k \in WorkDays(civilDay(u), day + k)
        BY <1>1, <1>4, <1>8, <2>3 DEF WorkDays
      <4>3. Cardinality(WorkDays(civilDay(u), day + k)) \in Nat \ {0}
        BY <4>1, <4>2, FS_CardinalityType, FS_EmptySet
      <4> QED
        BY <1>4, <1>6, <4>1, <4>3
    <3>2. CASE civilDay(u) < day
      <4>1. WorkDays(day, civilDay(u)) = {}
        BY <1>1, <3>2 DEF WorkDays
      <4>2. n = 0
        BY <1>6, <4>1, FS_EmptySet
      <4>3. day + k \in WorkDays(day, day + k) /\ IsFiniteSet(WorkDays(day, day + k))
        BY <1>1, <1>4, <2>3, CountDays DEF WorkDays
      <4> QED
        BY <1>4, <4>2, <4>3, FS_EmptySet
    <3> QED
      BY <1>1, <3>1, <3>2
  <2> QED
    BY <1>4, <2>2, <2>3
<1> QED
  BY <1>1, <1>4, <1>7, <1>8

-----------------------------------------------------------------------------
(***************************************************************************)
(* The days that pauses forgive.                                           *)
(***************************************************************************)
Block == [any : BOOLEAN, from : Nat, end : Nat, total : Nat]
NoBlock == [any |-> FALSE, from |-> 0, end |-> 0, total |-> 0]

IsSpan(s) == s.from \in Nat /\ s.end \in Nat /\ s.from < s.end

MergedFrom(A) == CHOOSE m : m = [s \in SUBSET A |->
  IF s = {} THEN NoBlock ELSE mergeSpan(lastSpan(s), m[s \ {lastSpan(s)}])]

\* What merging s into m computes.
Merges(m, A) == \A s \in SUBSET A :
  m[s] = IF s = {} THEN NoBlock ELSE mergeSpan(lastSpan(s), m[s \ {lastSpan(s)}])

\* Of finitely many spans one begins last.
LEMMA LastSpanIn ==
  ASSUME NEW A, IsFiniteSet(A), \A x \in A : IsSpan(x), NEW s \in SUBSET A, s # {}
  PROVE  lastSpan(s) \in s /\ \A o \in s : o.from <= lastSpan(s).from
<1> DEFINE Z == {z \in SUBSET A : z # {} => \E x \in z : \A o \in z : o.from <= x.from}
<1>1. {} \in Z
  OBVIOUS
<1>2. ASSUME NEW z \in SUBSET A, z # {}, \A x \in z : z \ {x} \in Z PROVE z \in Z
  <2>1. PICK x \in z : TRUE
    BY <1>2
  <2>2. CASE z \ {x} = {}
    <3>1. \A o \in z : o.from <= x.from
      BY <2>2 DEF IsSpan
    <3> QED
      BY <3>1
  <2>3. CASE z \ {x} # {}
    <3>1. PICK y \in z \ {x} : \A o \in z \ {x} : o.from <= y.from
      BY <1>2, <2>3
    <3>2. (\A o \in z : o.from <= y.from) \/ (\A o \in z : o.from <= x.from)
      BY <3>1 DEF IsSpan
    <3> QED
      BY <3>2
  <2> QED
    BY <2>2, <2>3
<1> HIDE DEF Z
<1>3. s \in Z
  BY <1>1, <1>2, SetInduction
<1>4. \E x \in s : \A o \in s : o.from <= x.from
  BY <1>3 DEF Z
<1> QED
  BY <1>4 DEF lastSpan

\* Business days are counted by finite sets of working days.
LEMMA DaysType ==
  ASSUME NEW t \in Nat, NEW u \in Nat
  PROVE  /\ businessDaysBetween(t, u) = Cardinality(WorkDays(civilDay(t), civilDay(u)))
         /\ businessDaysBetween(t, u) \in Nat /\ IsFiniteSet(WorkDays(civilDay(t), civilDay(u)))
<1>1. civilDay(t) \in Nat /\ civilDay(u) \in Nat
  BY DayGrows
<1>2. IsFiniteSet(civilDay(t)+1 .. civilDay(u)) 
  BY <1>1, FS_Interval
<1>3. WorkDays(civilDay(t), civilDay(u)) \in SUBSET (civilDay(t)+1 .. civilDay(u))
  BY DEF WorkDays
<1>4. IsFiniteSet(WorkDays(civilDay(t), civilDay(u)))
  BY <1>2, <1>3, FS_Subset
<1> QED
  BY <1>4, FS_CardinalityType DEF WorkDays, businessDaysBetween

\* The spans are merged one at a time, in the order they begin.
LEMMA MergeRecursion ==
  ASSUME NEW A, IsFiniteSet(A), \A x \in A : IsSpan(x)
  PROVE  Merges(MergedFrom(A), A)
<1> DEFINE pick == [s \in SUBSET A |-> lastSpan(s)]
           step == [p \in A \X Block |-> mergeSpan(p[1], p[2])]
<1>1. \A s \in SUBSET A : pick[s] = lastSpan(s)
  OBVIOUS
<1>2. \A s \in SUBSET A : s # {} => pick[s] \in s
  BY <1>1, LastSpanIn
<1>3. \A x \in A, b \in Block : mergeSpan(x, b) \in Block
  <2> SUFFICES ASSUME NEW x \in A, NEW b \in Block PROVE mergeSpan(x, b) \in Block
    OBVIOUS
  <2>1. businessDaysBetween(b.from, b.end) \in Nat /\ x.from \in Nat /\ x.end \in Nat
    BY DaysType DEF IsSpan, Block
  <2> QED
    BY <2>1 DEF mergeSpan, Block
<1>4. \A x \in A, b \in Block : step[<<x, b>>] = mergeSpan(x, b)
  OBVIOUS
<1> HIDE DEF pick, step
<1>5. NoBlock \in Block /\ \A x \in A, b \in Block : step[<<x, b>>] \in Block
  BY <1>3, <1>4 DEF NoBlock, Block
<1>6. PICK g \in [SUBSET A -> Block] : Recurs(g, A, NoBlock, pick, step)
  BY <1>2, <1>5, SetRecursion, Zenon
<1>7. ASSUME NEW s \in SUBSET A
      PROVE  g[s] = IF s = {} THEN NoBlock ELSE mergeSpan(lastSpan(s), g[s \ {lastSpan(s)}])
  <2>1. CASE s = {}
    BY <1>6, <2>1 DEF Recurs
  <2>2. CASE s # {}
    <3>1. PICK x : x = lastSpan(s)
      OBVIOUS
    <3>2. x \in A /\ s \ {x} \in SUBSET A /\ x = pick[s]
      BY <1>1, <1>2, <2>2, <3>1
    <3>3. g[s] = step[<<x, g[s \ {x}]>>] /\ g[s \ {x}] \in Block
      BY <1>6, <2>2, <3>2 DEF Recurs
    <3> QED
      BY <1>4, <2>2, <3>1, <3>2, <3>3
  <2> QED
    BY <2>1, <2>2
<1>8. g = [s \in SUBSET A |-> IF s = {} THEN NoBlock ELSE mergeSpan(lastSpan(s), g[s \ {lastSpan(s)}])]
  BY <1>7
<1>9. MergedFrom(A) = [s \in SUBSET A |->
        IF s = {} THEN NoBlock ELSE mergeSpan(lastSpan(s), MergedFrom(A)[s \ {lastSpan(s)}])]
  BY <1>8, Zenon DEF MergedFrom
<1> QED
  BY <1>9 DEF Merges

\* The working days some span of s covers.
CoveredDays(s) == {d \in Nat : Working(d) /\ \E x \in s : civilDay(x.from) < d /\ d <= civilDay(x.end)}

\* A merged block is the last of its spans' days; the days before it are in the total.
MergedOK(s, m) ==
  /\ m \in Block
  /\ m.from <= m.end
  /\ m.any <=> s # {}
  /\ s = {} => m = NoBlock
  /\ s # {} => \E x \in s : x.from = m.from
  /\ \E P : /\ IsFiniteSet(P) /\ Cardinality(P) = m.total
            /\ \A d \in P : d \in Nat /\ d <= civilDay(m.from)
            /\ CoveredDays(s) = P \cup WorkDays(civilDay(m.from), civilDay(m.end))

\* A span that begins last either joins the block that is open or closes it.
LEMMA MergeStep ==
  ASSUME NEW s, NEW m, MergedOK(s, m), NEW x, IsSpan(x), \A o \in s : o.from <= x.from
  PROVE  MergedOK(s \cup {x}, mergeSpan(x, m))
<1>1. PICK P : /\ IsFiniteSet(P) /\ Cardinality(P) = m.total
               /\ \A d \in P : d \in Nat /\ d <= civilDay(m.from)
               /\ CoveredDays(s) = P \cup WorkDays(civilDay(m.from), civilDay(m.end))
  BY DEF MergedOK
<1>2. /\ m \in Block /\ m.from \in Nat /\ m.end \in Nat /\ m.total \in Nat /\ m.from <= m.end
      /\ x.from \in Nat /\ x.end \in Nat /\ x.from < x.end
  BY DEF MergedOK, Block, IsSpan
<1>3. /\ civilDay(m.from) \in Nat /\ civilDay(m.end) \in Nat /\ civilDay(m.from) <= civilDay(m.end)
      /\ civilDay(x.from) \in Nat /\ civilDay(x.end) \in Nat /\ civilDay(x.from) <= civilDay(x.end)
  BY <1>2, DayGrows
<1>4. CoveredDays(s \cup {x}) = CoveredDays(s) \cup WorkDays(civilDay(x.from), civilDay(x.end))
  BY <1>3 DEF CoveredDays, WorkDays
<1>5. CASE m.any /\ x.from <= m.end
  <2> DEFINE e == IF x.end > m.end THEN x.end ELSE m.end
             n == mergeSpan(x, m)
  <2>1. n = [m EXCEPT !.end = e]
    BY <1>5 DEF mergeSpan
  <2>2. /\ e \in Nat /\ n \in Block /\ n.from = m.from /\ n.end = e /\ n.total = m.total /\ n.any = TRUE
        /\ m.from <= e
    BY <1>2, <1>5, <2>1 DEF Block
  <2>3. m.from <= x.from
    BY <1>2, <1>5 DEF MergedOK
  <2>4. WorkDays(civilDay(m.from), civilDay(e)) =
          WorkDays(civilDay(m.from), civilDay(m.end)) \cup WorkDays(civilDay(x.from), civilDay(x.end))
    <3>1. civilDay(m.from) <= civilDay(x.from) /\ civilDay(x.from) <= civilDay(m.end)
      BY <1>2, <1>5, <2>3, DayGrows
    <3>2. x.end > m.end => civilDay(m.end) <= civilDay(x.end)
      BY <1>2, DayGrows
    <3>3. ~ (x.end > m.end) => civilDay(x.end) <= civilDay(m.end)
      BY <1>2, DayGrows
    <3> QED
      BY <1>3, <3>1, <3>2, <3>3 DEF WorkDays
  <2>5. CoveredDays(s \cup {x}) = P \cup WorkDays(civilDay(m.from), civilDay(e))
    BY <1>1, <1>4, <2>4
  <2>6. \E y \in s \cup {x} : y.from = n.from
    BY <1>5, <2>2 DEF MergedOK
  <2> HIDE DEF n, e
  <2>7. MergedOK(s \cup {x}, n)
    BY <1>1, <2>2, <2>5, <2>6 DEF MergedOK
  <2> QED
    BY <2>7 DEF n
<1>6. CASE ~ (m.any /\ x.from <= m.end)
  <2> DEFINE n == mergeSpan(x, m)
             Q == P \cup WorkDays(civilDay(m.from), civilDay(m.end))
  <2>1. n = [any |-> TRUE, from |-> x.from, end |-> x.end,
             total |-> m.total + businessDaysBetween(m.from, m.end)]
    BY <1>6 DEF mergeSpan
  <2>2. /\ businessDaysBetween(m.from, m.end) = Cardinality(WorkDays(civilDay(m.from), civilDay(m.end)))
        /\ businessDaysBetween(m.from, m.end) \in Nat
        /\ IsFiniteSet(WorkDays(civilDay(m.from), civilDay(m.end)))
    BY <1>2, DaysType
  <2>3. P \cap WorkDays(civilDay(m.from), civilDay(m.end)) = {}
    BY <1>1, <1>3 DEF WorkDays
  <2>4. IsFiniteSet(Q) /\ Cardinality(Q) = m.total + businessDaysBetween(m.from, m.end)
    BY <1>1, <1>2, <2>2, <2>3, FS_Union, FS_EmptySet
  <2>5. civilDay(m.end) <= civilDay(x.from)
    <3>1. m.any => m.end <= x.from
      BY <1>2, <1>6
    <3>2. ~m.any => m.end = 0
      BY DEF MergedOK, NoBlock
    <3> QED
      BY <1>2, <3>1, <3>2, DayGrows
  <2>6. \A d \in Q : d \in Nat /\ d <= civilDay(x.from)
    BY <1>1, <1>3, <2>5 DEF WorkDays
  <2>7. CoveredDays(s \cup {x}) = Q \cup WorkDays(civilDay(x.from), civilDay(x.end))
    BY <1>1, <1>4
  <2>8. /\ n \in Block /\ n.from = x.from /\ n.end = x.end /\ n.any = TRUE
        /\ n.total = m.total + businessDaysBetween(m.from, m.end) /\ n.from <= n.end
    BY <1>2, <2>1, <2>2 DEF Block
  <2> HIDE DEF n, Q
  <2>9. MergedOK(s \cup {x}, n)
    BY <2>4, <2>6, <2>7, <2>8 DEF MergedOK
  <2> QED
    BY <2>9 DEF n
<1> QED
  BY <1>5, <1>6

\* Merging the spans of a finite set counts the days they cover, each once.
LEMMA MergedCovers ==
  ASSUME NEW A, IsFiniteSet(A), \A x \in A : IsSpan(x)
  PROVE  MergedOK(A, MergedFrom(A)[A])
<1> DEFINE m == MergedFrom(A)
           Z == {s \in SUBSET A : MergedOK(s, m[s])}
<1>1. Merges(m, A)
  BY MergeRecursion
<1>2. {} \in Z
  <2>1. m[{}] = NoBlock /\ NoBlock \in Block /\ NoBlock.from = 0 /\ NoBlock.end = 0
        /\ NoBlock.total = 0 /\ NoBlock.any = FALSE
    BY <1>1 DEF Merges, NoBlock, Block
  <2>2. CoveredDays({}) = {} /\ WorkDays(civilDay(0), civilDay(0)) = {}
    BY DayGrows DEF CoveredDays, WorkDays
  <2>3. IsFiniteSet({}) /\ Cardinality({}) = 0
    BY FS_EmptySet
  <2> HIDE DEF m
  <2>4. MergedOK({}, m[{}])
    BY <2>1, <2>2, <2>3 DEF MergedOK
  <2> QED
    BY <2>4
<1>3. ASSUME NEW s \in SUBSET A, s # {}, \A x \in s : s \ {x} \in Z PROVE s \in Z
  <2>1. PICK x : x = lastSpan(s)
    OBVIOUS
  <2>2. x \in s /\ \A o \in s : o.from <= x.from
    BY <1>3, <2>1, LastSpanIn
  <2>3. m[s] = mergeSpan(x, m[s \ {x}]) /\ MergedOK(s \ {x}, m[s \ {x}])
    BY <1>1, <1>3, <2>1, <2>2 DEF Merges
  <2>4. s = (s \ {x}) \cup {x} /\ IsSpan(x)
    BY <2>2
  <2> HIDE DEF m
  <2>5. MergedOK((s \ {x}) \cup {x}, mergeSpan(x, m[s \ {x}]))
    BY <2>2, <2>3, <2>4, MergeStep
  <2> QED
    BY <2>3, <2>4, <2>5
<1> HIDE DEF Z
<1>4. A \in Z
  BY <1>2, <1>3, SetInduction
<1> QED
  BY <1>4 DEF Z

IsWindow(w) == w.from \in Nat /\ (w.to = Open \/ w.to \in Nat)

\* The working days some window covers before t.
PausedDays(windows, t) ==
  {d \in Nat : Working(d) /\ \E w \in windows : civilDay(w.from) < d /\ d <= civilDay(EndOf(w, t))}

\* The time a clock forgives is the working days that some pause covers, each once,
\* whatever the windows overlap.
THEOREM PausesForgiveDays ==
  ASSUME NEW windows, IsFiniteSet(windows), NEW t \in Nat, \A w \in windows : IsWindow(w)
  PROVE  /\ IsFiniteSet(PausedDays(windows, t))
         /\ pausedBusinessDays(windows, t) = Cardinality(PausedDays(windows, t))
<1> DEFINE A == spansOf(windows, t)
           m == MergedFrom(A)[A]
<1>1. \A w \in windows : EndOf(w, t) \in Nat /\ EndOf(w, t) <= t
  BY DEF EndOf, IsWindow
<1>2. \A x \in A : IsSpan(x)
  BY <1>1 DEF spansOf, IsSpan, IsWindow
<1>3. IsFiniteSet(A)
  <2> DEFINE W == {x \in windows : EndOf(x, t) > x.from}
             f == [w \in W |-> [from |-> w.from, end |-> EndOf(w, t)]]
  <2>1. IsFiniteSet(W)
    BY FS_Subset
  <2>2. A = {f[w] : w \in W}
    BY DEF spansOf
  <2>3. f \in Surjection(W, A)
    BY <2>2 DEF Surjection
  <2> QED
    BY <2>1, <2>3, FS_Surjection
<1>4. pausedBusinessDays(windows, t) = m.total + businessDaysBetween(m.from, m.end)
  BY DEF pausedBusinessDays, MapThenFoldSet, MergedFrom, NoBlock
<1>5. MergedOK(A, m)
  BY <1>2, <1>3, MergedCovers
<1> HIDE DEF m
<1>6. PICK P : /\ IsFiniteSet(P) /\ Cardinality(P) = m.total
               /\ \A d \in P : d \in Nat /\ d <= civilDay(m.from)
               /\ CoveredDays(A) = P \cup WorkDays(civilDay(m.from), civilDay(m.end))
  BY <1>5 DEF MergedOK
<1>7. m.from \in Nat /\ m.end \in Nat /\ m.total \in Nat
  BY <1>5 DEF MergedOK, Block
<1>8. civilDay(m.from) \in Nat
  BY <1>7, DayGrows
<1>9. /\ IsFiniteSet(CoveredDays(A))
      /\ Cardinality(CoveredDays(A)) = m.total + businessDaysBetween(m.from, m.end)
  <2>1. P \cap WorkDays(civilDay(m.from), civilDay(m.end)) = {}
    BY <1>6, <1>8 DEF WorkDays
  <2>2. /\ businessDaysBetween(m.from, m.end) = Cardinality(WorkDays(civilDay(m.from), civilDay(m.end)))
        /\ businessDaysBetween(m.from, m.end) \in Nat
        /\ IsFiniteSet(WorkDays(civilDay(m.from), civilDay(m.end)))
    BY <1>7, DaysType
  <2> QED
    BY <1>6, <1>7, <2>1, <2>2, FS_Union, FS_EmptySet
<1>10. PausedDays(windows, t) = CoveredDays(A)
  <2>1. ASSUME NEW w \in windows, NEW d \in Nat, civilDay(w.from) < d, d <= civilDay(EndOf(w, t))
        PROVE  EndOf(w, t) > w.from
    <3>1. SUFFICES ASSUME EndOf(w, t) <= w.from PROVE FALSE
      BY <1>1 DEF IsWindow
    <3>2. /\ w.from \in Nat /\ EndOf(w, t) \in Nat /\ civilDay(EndOf(w, t)) <= civilDay(w.from)
          /\ civilDay(EndOf(w, t)) \in Nat /\ civilDay(w.from) \in Nat
      BY <1>1, <3>1, DayGrows DEF IsWindow
    <3> QED
      BY <2>1, <3>2
  <2>2. CoveredDays(A) \subseteq PausedDays(windows, t)
    BY DEF CoveredDays, PausedDays, spansOf
  <2>3. ASSUME NEW d \in PausedDays(windows, t) PROVE d \in CoveredDays(A)
    <3>1. PICK w \in windows : civilDay(w.from) < d /\ d <= civilDay(EndOf(w, t))
      BY DEF PausedDays
    <3>2. d \in Nat /\ Working(d)
      BY DEF PausedDays
    <3>3. [from |-> w.from, end |-> EndOf(w, t)] \in A
      BY <2>1, <3>1, <3>2 DEF spansOf
    <3> QED
      BY <3>1, <3>2, <3>3 DEF CoveredDays
  <2> QED
    BY <2>2, <2>3
<1> QED
  BY <1>4, <1>9, <1>10

-----------------------------------------------------------------------------
IsPause(p) == p \in [from : {p.from}, to : {p.to}, station : {p.station}]

\* The clock that every reader starts from has run the working days since the station
\* was entered but those that a pause opened there covers.
LEMMA ClockRuns ==
  ASSUME NEW entered \in Nat, NEW t \in Nat, NEW ps, IsFiniteSet(ps),
         \A p \in ps : IsPause(p) /\ IsWindow(p)
  PROVE  /\ clockStart(entered, ps, t) \in Nat
         /\ dwellDays(clockStart(entered, ps, t), t) =
              Cardinality(WorkDays(civilDay(entered), civilDay(t))
                            \ PausedDays(windowsFor(ps, entered), t))
         /\ IsFiniteSet(WorkDays(civilDay(entered), civilDay(t)))
<1> DEFINE W == windowsFor(ps, entered)
           all == WorkDays(civilDay(entered), civilDay(t))
           stopped == PausedDays(W, t)
<1>1. IsFiniteSet(W) /\ \A w \in W : IsPause(w) /\ IsWindow(w) /\ entered <= w.from
  <2>1. W \in SUBSET ps /\ \A w \in W : w.from >= entered
    BY DEF windowsFor
  <2> QED
    BY <2>1, FS_Subset DEF IsWindow
<1>2. {[w EXCEPT !.from = IF @ < entered THEN entered ELSE @] : w \in W} = W
  <2>1. \A w \in W : [w EXCEPT !.from = IF @ < entered THEN entered ELSE @] = w
    BY <1>1 DEF IsPause, IsWindow
  <2> QED
    BY <2>1
<1>3. clockStart(entered, ps, t) = addBusinessDays(entered, pausedBusinessDays(W, t))
  BY <1>2 DEF clockStart, effectiveEnteredAt
<1>4. IsFiniteSet(stopped) /\ pausedBusinessDays(W, t) = Cardinality(stopped)
  BY <1>1, PausesForgiveDays
<1>5. stopped \subseteq all
  <2> SUFFICES ASSUME NEW d \in stopped PROVE d \in all
    OBVIOUS
  <2>1. PICK w \in W : civilDay(w.from) < d /\ d <= civilDay(EndOf(w, t))
    BY DEF PausedDays
  <2>2. d \in Nat /\ Working(d)
    BY DEF PausedDays
  <2>3. EndOf(w, t) \in Nat /\ EndOf(w, t) <= t /\ w.from \in Nat /\ entered <= w.from
    BY <1>1 DEF EndOf, IsWindow
  <2>4. /\ civilDay(EndOf(w, t)) <= civilDay(t) /\ civilDay(entered) <= civilDay(w.from)
        /\ civilDay(EndOf(w, t)) \in Nat /\ civilDay(entered) \in Nat /\ civilDay(w.from) \in Nat
        /\ civilDay(t) \in Nat
    BY <2>3, DayGrows
  <2> QED
    BY <2>1, <2>2, <2>4 DEF WorkDays
<1>6. IsFiniteSet(all) /\ businessDaysBetween(entered, t) = Cardinality(all) /\ Cardinality(all) \in Nat
  BY DaysType, FS_CardinalityType
<1>7. all \cap stopped = stopped /\ (all \ stopped) \cap stopped = {} /\ all = (all \ stopped) \cup stopped
  BY <1>5
<1> HIDE DEF all, stopped, W
<1>8. Cardinality(stopped) \in Nat /\ Cardinality(all \ stopped) = Cardinality(all) - Cardinality(stopped)
      /\ Cardinality(stopped) <= Cardinality(all)
  <2>1. IsFiniteSet(all \ stopped) /\ all \ stopped \in SUBSET all /\ stopped \in SUBSET all
    BY <1>5, <1>6, FS_Subset
  <2>2. Cardinality(all \ stopped) \in Nat /\ Cardinality(stopped) \in Nat
    BY <1>4, <2>1, FS_CardinalityType
  <2>3. Cardinality((all \ stopped) \cup stopped) =
          Cardinality(all \ stopped) + Cardinality(stopped) - Cardinality((all \ stopped) \cap stopped)
    BY <1>4, <2>1, FS_Union
  <2>4. Cardinality((all \ stopped) \cap stopped) = 0
    BY <1>7, FS_EmptySet
  <2> QED
    BY <1>6, <1>7, <2>2, <2>3, <2>4
<1>9. PICK n \in Nat : n = Cardinality(stopped) /\ n <= businessDaysBetween(entered, t)
  BY <1>6, <1>8
<1>10. /\ addBusinessDays(entered, n) \in Nat
       /\ businessDaysBetween(addBusinessDays(entered, n), t) = businessDaysBetween(entered, t) - n
  BY <1>9, LaterStart
<1> QED
  BY <1>3, <1>4, <1>6, <1>8, <1>9, <1>10 DEF dwellDays, all, stopped, W

\* A clock that stands still has run as long as when it was stopped.
THEOREM ClockStands ==
  ASSUME NEW entered \in Nat, NEW t \in Nat, NEW ps, IsFiniteSet(ps),
         \A p \in ps : IsPause(p) /\ IsWindow(p),
         NEW p \in ps, p.to = Open, entered <= p.from, p.from <= t
  PROVE  /\ dwellDays(clockStart(entered, ps, t), t) <= dwellDays(clockStart(entered, ps, p.from), p.from)
         /\ dwellDays(clockStart(entered, ps, t), t) \in Nat
         /\ dwellDays(clockStart(entered, ps, p.from), p.from) \in Nat
<1> DEFINE u == p.from
           W == windowsFor(ps, entered)
           now1 == WorkDays(civilDay(entered), civilDay(t)) \ PausedDays(W, t)
           then == WorkDays(civilDay(entered), civilDay(u)) \ PausedDays(W, u)
<1>1. u \in Nat /\ p \in W /\ EndOf(p, t) = t
  BY DEF IsWindow, windowsFor, EndOf
<1>2. /\ dwellDays(clockStart(entered, ps, t), t) = Cardinality(now1)
      /\ IsFiniteSet(WorkDays(civilDay(entered), civilDay(t)))
  BY ClockRuns
<1>3. /\ dwellDays(clockStart(entered, ps, u), u) = Cardinality(then)
      /\ IsFiniteSet(WorkDays(civilDay(entered), civilDay(u)))
  BY <1>1, ClockRuns
<1>4. now1 \subseteq then
  <2> SUFFICES ASSUME NEW d \in now1 PROVE d \in then
    OBVIOUS
  <2>1. /\ d \in WorkDays(civilDay(entered), civilDay(t)) /\ d \notin PausedDays(W, t)
        /\ civilDay(entered) \in Nat /\ civilDay(t) \in Nat /\ civilDay(u) \in Nat
    BY <1>1, DayGrows
  <2>2. d \in Nat /\ Working(d) /\ civilDay(entered) < d /\ d <= civilDay(t)
    BY <2>1 DEF WorkDays
  <2>3. d <= civilDay(u)
    <3>1. ~ (civilDay(p.from) < d /\ d <= civilDay(EndOf(p, t)))
      BY <1>1, <2>1, <2>2 DEF PausedDays
    <3> QED
      BY <1>1, <2>1, <2>2, <3>1
  <2>4. ASSUME NEW w \in W, civilDay(w.from) < d, d <= civilDay(EndOf(w, u)) PROVE FALSE
    <3>1. w \in ps /\ IsWindow(w)
      BY DEF windowsFor
    <3>2. EndOf(w, u) \in Nat /\ EndOf(w, t) \in Nat /\ EndOf(w, u) <= EndOf(w, t)
      BY <1>1, <3>1 DEF EndOf, IsWindow
    <3>3. /\ civilDay(EndOf(w, u)) <= civilDay(EndOf(w, t))
          /\ civilDay(EndOf(w, u)) \in Nat /\ civilDay(EndOf(w, t)) \in Nat
      BY <3>2, DayGrows
    <3>4. d <= civilDay(EndOf(w, t))
      BY <2>2, <2>4, <3>3
    <3> QED
      BY <2>1, <2>2, <2>4, <3>4 DEF PausedDays
  <2> QED
    BY <2>1, <2>2, <2>3, <2>4 DEF WorkDays, PausedDays
<1> HIDE DEF now1, then
<1>5. IsFiniteSet(then) /\ IsFiniteSet(now1) /\ Cardinality(now1) <= Cardinality(then)
  <2>1. IsFiniteSet(then)
    BY <1>3, FS_Subset DEF then
  <2> QED
    BY <1>4, <2>1, FS_Subset
<1> QED
  BY <1>2, <1>3, <1>5, FS_CardinalityType DEF u

-----------------------------------------------------------------------------
(***************************************************************************)
(* The inductive invariant.                                                *)
(***************************************************************************)
Undoable(event, from) == \E x \in Edges : x.reversible /\ x.event = event /\ x.from = from

\* Some entry brought the ticket to `status', not before `since' and before `t'.
Arrived(entries, status, since, t) ==
  \E l \in entries : l.to = status /\ since <= l.at /\ l.at < t

IsRow(x) == x \in [status : {x.status}, flow : {x.flow}, applicant : {x.applicant},
                   holder : {x.holder}, round : {x.round}, enteredAt : Nat, last : {x.last}]
IsEntry(e) == e \in [at : Nat, event : {e.event}, from : {e.from}, to : {e.to}, since : Nat]

ClockTypes == /\ now \in Nat /\ IsRow(row) /\ IsFiniteSet(trail)
              /\ \A e \in trail : IsEntry(e) /\ e.at < now

\* The ticket came to its status by some entry, not before the clock that runs.
ClockOfARow == Arrived(trail, row.status, row.enteredAt, now)

\* So did it to the status each undoable move left.
MoveHasClock(e) == Undoable(e.event, e.from) => Arrived(trail, e.from, e.since, e.at)
ClocksOfMoves == \A e \in trail : MoveHasClock(e)

\* An undo under way holds a clock of the visit that the move ended; what is under way
\* was read before now.
RequestOK(r) ==
  /\ r.kind \in {"undo", "scan"} => r.at \in Nat /\ r.at < now
  /\ r.kind = "undo" =>
       /\ r.since \in Nat /\ r.prior \in Nat /\ r.moved \in Nat
       /\ Undoable(r.target.event, r.target.from) =>
            r.since <= r.prior /\ r.prior <= r.moved /\ r.moved < r.at
ClocksHeld == \A r \in requests : RequestOK(r)

ClockInv == ClockTypes /\ ClockOfARow /\ ClocksOfMoves /\ ClocksHeld

-----------------------------------------------------------------------------
\* Only forward moves of the users are undoable.
LEMMA NeverUndoable ==
  ASSUME NEW from, NEW event \in {"created", "note", "undo", "auto_return", "reopen", "sendBack"}
  PROVE  ~Undoable(event, from)
BY DEF Undoable, Edges, SharedEdges, GeneralEdges, ContractEdges, PaymentEdges, Plain, Reversible,
   HeavyReturn, EdgeOf

\* The clock of a calendar day goes on.
LEMMA NextDayLater ==
  ASSUME now \in Nat
  PROVE  (civilDay(now) + 1) * PerDay \in Nat /\ now < (civilDay(now) + 1) * PerDay
<1>1. PerDay \in Nat /\ PerDay > 0
  BY PerDayAssumption
<1>2. QED
  BY <1>1 DEF civilDay

\* A finite set of entries has a latest one: the sets of those later than one of
\* them are well-founded.
LEMMA LatestExists ==
  ASSUME NEW entries, IsFiniteSet(entries), entries # {}, \A e \in entries : e.at \in Nat
  PROVE  Latest(entries) \in entries /\ \A o \in entries : o.at <= Latest(entries).at
<1> DEFINE Later(e) == {o \in entries : o.at > e.at}
           T == {Later(e) : e \in entries}
<1>1. T \subseteq FiniteSubsetsOf(entries) /\ T # {}
  <2>1. \A e \in entries : Later(e) \in FiniteSubsetsOf(entries)
    BY FS_Subset DEF FiniteSubsetsOf
  <2> QED
    BY <2>1
<1>2. PICK x \in T : \A y \in T : ~ (<<y, x>> \in StrictSubsetOrdering(entries))
  BY <1>1, FS_StrictSubsetOrderingWellFounded, WFMin
<1>3. PICK e \in entries : x = Later(e)
  OBVIOUS
<1>4. ASSUME NEW o \in entries, o.at > e.at PROVE FALSE
  <2>1. o \in x /\ o \notin Later(o)
    BY <1>3, <1>4
  <2>2. \A k \in entries : k.at > o.at => k.at > e.at
    BY <1>4
  <2>3. <<Later(o), x>> \in StrictSubsetOrdering(entries)
    <3>1. Later(o) \subseteq x
      BY <2>2, <1>3
    <3>2. Later(o) \subseteq entries /\ x \subseteq entries
      BY <1>3
    <3> HIDE DEF Later
    <3> QED
      BY <2>1, <3>1, <3>2 DEF StrictSubsetOrdering
  <2> QED
    BY <1>2, <2>3
<1>5. \A o \in entries : o.at <= e.at
  BY <1>4
<1> QED
  BY <1>5 DEF Latest

\* Later entries do not undo an arrival.
LEMMA ArrivedStays ==
  ASSUME NEW old, NEW new, old \subseteq new, NEW status, NEW since, NEW t
  PROVE  Arrived(old, status, since, t) => Arrived(new, status, since, t)
BY DEF Arrived

\* Time goes on, entries are added and requests come and go.
LEMMA StepKeeps ==
  ASSUME ClockInv, now' \in Nat, now <= now',
         IsRow(row'), Arrived(trail', row'.status, row'.enteredAt, now'),
         NEW new, IsFiniteSet(new), trail' = trail \cup new,
         \A e \in new : IsEntry(e) /\ e.at < now' /\ MoveHasClock(e)',
         \A r \in requests' : r \in requests \/ RequestOK(r)'
  PROVE  ClockInv'
<1>1. ClockTypes'
  <2>1. IsFiniteSet(trail')
    BY FS_Union DEF ClockInv, ClockTypes
  <2>2. \A e \in trail : IsEntry(e) /\ e.at < now'
    BY DEF ClockInv, ClockTypes, IsEntry
  <2> QED
    BY <2>1, <2>2 DEF ClockTypes
<1>2. \A e \in trail : MoveHasClock(e)'
  BY ArrivedStays DEF ClockInv, ClocksOfMoves, MoveHasClock
<1>3. ClocksOfMoves'
  BY <1>2 DEF ClocksOfMoves
<1>4. \A r \in requests : RequestOK(r)'
  BY DEF ClockInv, ClocksHeld, RequestOK, ClockTypes
<1>5. ClocksHeld'
  BY <1>4 DEF ClocksHeld
<1> QED
  BY <1>1, <1>3, <1>5 DEF ClockInv, ClockOfARow

\* Nothing but time and requests.
LEMMA RestKeeps ==
  ASSUME ClockInv, now' \in Nat, now <= now', UNCHANGED <<row, trail>>,
         \A r \in requests' : r \in requests \/ RequestOK(r)'
  PROVE  ClockInv'
<1>1. Arrived(trail', row'.status, row'.enteredAt, now')
  BY DEF ClockInv, ClockOfARow, ClockTypes, Arrived, IsEntry
<1>2. IsFiniteSet({}) /\ trail' = trail \cup {}
  BY FS_EmptySet
<1> QED
  BY <1>1, <1>2, StepKeeps DEF ClockInv, ClockTypes

-----------------------------------------------------------------------------
(***************************************************************************)
(* Moves: the row enters its status with an instant not after the one its  *)
(* entry is stamped with.                                                  *)
(***************************************************************************)
\* What a transition makes of a row is a row.
LEMMA TransitionMoves ==
  ASSUME ClockInv, NEW x, IsRow(x), NEW event, NEW u, NEW role,
         NEW next \in Transition(x, event, u, role)
  PROVE  IsRow(next)
BY DEF Transition, IsRow

\* So is what an undo makes of it; and it undoes what can be undone.
LEMMA UndoMoves ==
  ASSUME ClockInv, NEW target, NEW u, NEW role, NEW next \in UndoTransition(row, target, u, role)
  PROVE  /\ IsRow(next) /\ next.status = target.from
         /\ Undoable(target.event, target.from)
<1>1. IsRow(row)
  BY DEF ClockInv, ClockTypes
<1>2. PICK e \in FindEdge(target.from, target.event, row.flow) :
        /\ e.reversible
        /\ next = [row EXCEPT !.status = target.from,
                              !.holder = DeriveHolder(target.from, row.applicant, u, role),
                              !.last   = [event |-> "undo", from |-> row.status]]
  BY DEF UndoTransition
<1>3. e \in Edges /\ e.event = target.event /\ e.from = target.from
  BY <1>2 DEF FindEdge
<1> QED
  BY <1>1, <1>2, <1>3 DEF IsRow, Undoable

\* What a move stores.
LEMMA MoveKeeps ==
  ASSUME ClockInv, NEW next, NEW event, NEW entered \in Nat, NEW at \in Nat, entered <= at,
         MoveTo(next, event, entered, at), IsRow(next),
         \/ at = now /\ now' = now + 1
         \/ at < now /\ now' = now /\ ~Undoable(event, row.status),
         requests' \subseteq requests
  PROVE  ClockInv'
<1>0. PICK e : e = Entry(at, event, row.status, next.status, row.enteredAt)
  OBVIOUS
<1>1. now \in Nat /\ now' \in Nat /\ now <= now' /\ at < now' /\ row.enteredAt \in Nat
  BY DEF ClockInv, ClockTypes, IsRow
<1>2. row' = [next EXCEPT !.enteredAt = entered] /\ trail' = trail \cup {e}
  BY <1>0 DEF MoveTo
<1>3. /\ e.at = at /\ e.event = event /\ e.from = row.status /\ e.to = next.status
      /\ e.since = row.enteredAt /\ IsEntry(e)
  BY <1>0, <1>1 DEF Entry, IsEntry
<1>4. IsRow(row') /\ row'.status = next.status /\ row'.enteredAt = entered
  BY <1>2 DEF IsRow
<1>5. Arrived(trail', row'.status, row'.enteredAt, now')
  BY <1>1, <1>2, <1>3, <1>4 DEF Arrived
<1>6. MoveHasClock(e)'
  <2>1. Arrived(trail', row.status, row.enteredAt, now)
    BY <1>2, ArrivedStays DEF ClockInv, ClockOfARow
  <2> QED
    BY <1>3, <2>1 DEF MoveHasClock
<1>7. IsFiniteSet({e})
  BY FS_Singleton, Zenon
<1> QED
  BY <1>1, <1>2, <1>3, <1>4, <1>5, <1>6, <1>7, StepKeeps

-----------------------------------------------------------------------------
(***************************************************************************)
(* Each step of the clock.                                                 *)
(***************************************************************************)
\* A user moves the ticket: clock and entry are of this instant.
LEMMA ActKeeps ==
  ASSUME ClockInv, NEW event, Act(event)
  PROVE  ClockInv'
<1>1. PICK role \in Role : \E next \in Transition(row, event, UserOf(role), role) :
        MoveTo(next, event, now, now)
  BY DEF Act
<1>2. PICK next \in Transition(row, event, UserOf(role), role) : MoveTo(next, event, now, now)
  BY <1>1
<1>3. IsRow(next) /\ now \in Nat
  BY <1>2, TransitionMoves DEF ClockInv, ClockTypes
<1>4. now' = now + 1 /\ requests' \subseteq requests
  BY DEF Act, Stamp
<1> QED
  BY <1>2, <1>3, <1>4, MoveKeeps

\* A reopening leaves two entries of this instant, neither of which can be undone.
LEMMA ReopenKeeps ==
  ASSUME ClockInv, Reopen
  PROVE  ClockInv'
<1>1. PICK mid \in Transition(row, "reopen", Dana, "DCC1") :
        \E next \in Transition(mid, "sendBack", Dana, "DCC1") :
          /\ row' = [next EXCEPT !.enteredAt = now]
          /\ trail' = trail \cup {Entry(now, "reopen", row.status, mid.status, row.enteredAt),
                                  Entry(now, "sendBack", mid.status, next.status, now)}
  BY DEF Reopen
<1>2. PICK next \in Transition(mid, "sendBack", Dana, "DCC1") :
          /\ row' = [next EXCEPT !.enteredAt = now]
          /\ trail' = trail \cup {Entry(now, "reopen", row.status, mid.status, row.enteredAt),
                                  Entry(now, "sendBack", mid.status, next.status, now)}
  BY <1>1
<1>3. PICK e, f : /\ e = Entry(now, "reopen", row.status, mid.status, row.enteredAt)
                  /\ f = Entry(now, "sendBack", mid.status, next.status, now)
  OBVIOUS
<1>4. /\ now \in Nat /\ now' = now + 1 /\ row.enteredAt \in Nat
      /\ UNCHANGED requests
  BY DEF ClockInv, ClockTypes, IsRow, Reopen, Stamp
<1>5. /\ IsEntry(e) /\ IsEntry(f) /\ e.event = "reopen" /\ f.event = "sendBack"
      /\ f.at = now /\ f.to = next.status /\ e.at = now
  BY <1>3, <1>4 DEF Entry, IsEntry
<1>6. IsRow(next)
  BY TransitionMoves DEF ClockInv, ClockTypes
<1>7. IsRow(row') /\ row'.status = next.status /\ row'.enteredAt = now
  BY <1>2, <1>4, <1>6 DEF IsRow
<1>8. trail' = trail \cup {e, f}
  BY <1>2, <1>3
<1>9. Arrived(trail', row'.status, row'.enteredAt, now')
  BY <1>4, <1>5, <1>7, <1>8 DEF Arrived
<1>10. MoveHasClock(e)' /\ MoveHasClock(f)'
  BY <1>5, NeverUndoable DEF MoveHasClock
<1>11. IsFiniteSet({e, f})
  <2>1. IsFiniteSet({e}) /\ IsFiniteSet({f}) /\ {e, f} = {e} \cup {f}
    BY FS_Singleton, Zenon
  <2> QED
    BY <2>1, FS_Union
<1> QED
  BY <1>4, <1>5, <1>7, <1>8, <1>9, <1>10, <1>11, StepKeeps

\* A note may come late, but moves nothing.
LEMMA NoteKeeps ==
  ASSUME ClockInv, NEW r \in requests, NoteCommit(r)
  PROVE  ClockInv'
<1>1. PICK e : e = Entry(now, "note", r.status, r.status, row.enteredAt)
  OBVIOUS
<1>2. /\ trail' = trail \cup {e} /\ now' = now + 1 /\ UNCHANGED row /\ requests' \subseteq requests
  BY <1>1 DEF NoteCommit, Stamp, Finish
<1>3. now \in Nat /\ IsRow(row) /\ IsEntry(e) /\ e.event = "note" /\ e.at = now
  BY <1>1 DEF ClockInv, ClockTypes, IsRow, Entry, IsEntry
<1>4. Arrived(trail', row'.status, row'.enteredAt, now')
  BY <1>2, <1>3 DEF ClockInv, ClockOfARow, ClockTypes, Arrived, IsEntry
<1>5. MoveHasClock(e)'
  BY <1>3, NeverUndoable DEF MoveHasClock
<1>6. IsFiniteSet({e})
  BY FS_Singleton, Zenon
<1> QED
  BY <1>2, <1>3, <1>4, <1>5, <1>6, StepKeeps

\* An undo reads a clock of the visit the move ended: some entry of the trail lies
\* between the clock that ran then and the move.
LEMMA UndoBeginKeeps ==
  ASSUME ClockInv, UndoBegin
  PROVE  ClockInv'
<1> DEFINE moves == {e \in trail : e.event \notin NotAMove}
           last == lastTransitionEvent
           landed == {e \in trail : e.to = last.from /\ e.at < last.at}
<1>0. PICK r : r = [kind |-> "undo", at |-> now, moved |-> last.at,
                    target |-> [event |-> last.event, from |-> last.from],
                    since |-> last.since, prior |-> priorStatusEnteredAt(last)]
  OBVIOUS
<1>1. /\ moves # {} /\ requests' = requests \cup {r} /\ now' = now + 1
      /\ UNCHANGED <<row, trail>>
  BY <1>0 DEF UndoBegin, Begin, Stamp
<1>2. /\ IsFiniteSet(trail) /\ now \in Nat /\ \A e \in trail : IsEntry(e) /\ e.at \in Nat /\ e.since \in Nat
  BY DEF ClockInv, ClockTypes, IsEntry
<1>3. Latest(moves) \in moves
  <2>1. IsFiniteSet(moves)
    BY <1>2, FS_Subset
  <2> QED
    BY <1>1, <1>2, <2>1, LatestExists
<1>4. last \in trail /\ last.at < now /\ IsEntry(last) /\ MoveHasClock(last)
  BY <1>2, <1>3 DEF lastTransitionEvent, ClockInv, ClockTypes, ClocksOfMoves
<1>5. priorStatusEnteredAt(last) = IF landed = {} THEN now ELSE Latest(landed).at
  BY DEF priorStatusEnteredAt
<1>6. landed # {} => Latest(landed) \in landed /\ \A o \in landed : o.at <= Latest(landed).at
  <2>1. IsFiniteSet(landed)
    BY <1>2, FS_Subset
  <2> QED
    BY <1>2, <2>1, LatestExists
<1>7. Undoable(last.event, last.from) => \E l \in landed : last.since <= l.at
  BY <1>2, <1>4 DEF MoveHasClock, Arrived
<1>8. PICK p \in Nat : p = priorStatusEnteredAt(last)
  BY <1>2, <1>5, <1>6
<1> HIDE DEF last
<1>9. Undoable(last.event, last.from) => last.since <= p /\ p <= last.at
  BY <1>2, <1>4, <1>5, <1>6, <1>7, <1>8 DEF IsEntry
<1>10. /\ r.kind = "undo" /\ r.at = now /\ r.moved = last.at /\ r.since = last.since /\ r.prior = p
       /\ r.target.event = last.event /\ r.target.from = last.from
  BY <1>0, <1>8
<1>11. RequestOK(r)'
  BY <1>1, <1>2, <1>4, <1>8, <1>9, <1>10 DEF RequestOK, IsEntry
<1> QED
  BY <1>1, <1>2, <1>11, RestKeeps

\* The undo is written: its clock is of the visit it ended, and its entry of the
\* instant it was read.
LEMMA UndoCommitKeeps ==
  ASSUME ClockInv, NEW r \in requests, UndoCommit(r)
  PROVE  /\ ClockInv'
         /\ row'.enteredAt = r.prior /\ r.since <= r.prior /\ r.prior <= r.moved
         /\ r.since \in Nat /\ r.prior \in Nat /\ r.moved \in Nat
<1>1. PICK next \in UndoTransition(row, r.target, Dana, "DCC1") : MoveTo(next, "undo", r.prior, r.at)
  BY DEF UndoCommit
<1>2. r.kind = "undo" /\ now' = now /\ requests' \subseteq requests
  BY DEF UndoCommit, Finish
<1>3. IsRow(next) /\ Undoable(r.target.event, r.target.from)
  BY <1>1, UndoMoves
<1>4. /\ r.at \in Nat /\ r.at < now /\ r.since \in Nat /\ r.prior \in Nat /\ r.moved \in Nat
      /\ r.since <= r.prior /\ r.prior <= r.moved /\ r.moved < r.at
  BY <1>2, <1>3 DEF ClockInv, ClocksHeld, RequestOK
<1>5. ~Undoable("undo", row.status)
  BY NeverUndoable
<1>6. ClockInv'
  BY <1>1, <1>2, <1>3, <1>4, <1>5, MoveKeeps
<1>7. row'.enteredAt = r.prior
  BY <1>1, <1>3 DEF MoveTo, IsRow
<1> QED
  BY <1>4, <1>6, <1>7

\* The ticket goes back to its applicant with the instant of the scan.
LEMMA AutoReturnKeeps ==
  ASSUME ClockInv, NEW r \in requests, AutoReturn(r)
  PROVE  ClockInv'
<1>1. PICK next \in Transition(row, "auto_return", System, "DCC1") :
        MoveTo(next, "auto_return", r.at, r.at)
  BY DEF AutoReturn
<1>2. r.kind = "scan" /\ now' = now /\ requests' \subseteq requests
  BY DEF AutoReturn, Finish
<1>3. IsRow(next)
  BY <1>1, TransitionMoves DEF ClockInv, ClockTypes
<1>4. r.at \in Nat /\ r.at < now
  BY <1>2 DEF ClockInv, ClocksHeld, RequestOK
<1>5. ~Undoable("auto_return", row.status)
  BY NeverUndoable
<1> QED
  BY <1>1, <1>2, <1>3, <1>4, <1>5, MoveKeeps

\* Time, pauses, scans and requests leave row and trail alone.
LEMMA OthersKeep ==
  ASSUME ClockInv,
         \/ NextDay \/ NoteBegin \/ PauseBegin \/ Resume \/ Scans \/ UNCHANGED vars
         \/ \E r \in requests : PauseCommit(r) \/ Refused(r)
  PROVE  ClockInv'
<1>1. now \in Nat
  BY DEF ClockInv, ClockTypes
<1>2. CASE NextDay
  BY <1>1, <1>2, NextDayLater, RestKeeps DEF NextDay
<1>3. CASE NoteBegin
  <2>1. PICK r : r = [kind |-> "note", status |-> row.status]
    OBVIOUS
  <2>2. requests' = requests \cup {r} /\ UNCHANGED <<now, row, trail>> /\ r.kind = "note"
    BY <1>3, <2>1 DEF NoteBegin, Begin
  <2> QED
    BY <1>1, <2>2, RestKeeps DEF RequestOK
<1>4. CASE PauseBegin
  <2>1. PICK r : r = [kind |-> "pause", station |-> row.status]
    OBVIOUS
  <2>2. requests' = requests \cup {r} /\ UNCHANGED <<now, row, trail>> /\ r.kind = "pause"
    BY <1>4, <2>1 DEF PauseBegin, Begin
  <2> QED
    BY <1>1, <2>2, RestKeeps DEF RequestOK
<1>5. CASE PoolScan
  <2>1. PICK r : r = [kind |-> "scan", at |-> now]
    OBVIOUS
  <2>2. /\ requests' = requests \cup {r} /\ now' = now + 1 /\ UNCHANGED <<row, trail>>
        /\ r.kind = "scan" /\ r.at = now
    BY <1>5, <2>1 DEF PoolScan, Begin, Stamp
  <2> QED
    BY <1>1, <2>2, RestKeeps DEF RequestOK
<1>6. CASE \/ Resume \/ EscalationScan \/ ReminderScan \/ UNCHANGED vars
           \/ \E r \in requests : PauseCommit(r) \/ Refused(r)
  <2>1. /\ now' = now \/ now' = now + 1
        /\ UNCHANGED <<row, trail>> /\ requests' \subseteq requests
    BY <1>6 DEF Resume, EscalationScan, ReminderScan, vars, PauseCommit, Refused, Finish, Stamp
  <2> QED
    BY <1>1, <2>1, RestKeeps
<1> QED
  BY <1>2, <1>3, <1>4, <1>5, <1>6 DEF Scans

-----------------------------------------------------------------------------
(***************************************************************************)
(* The theorem.                                                            *)
(***************************************************************************)
\* The invariant holds of a ticket just submitted.
LEMMA ClockInvInit == SlaInit => ClockInv
<1> SUFFICES ASSUME SlaInit PROVE ClockInv
  OBVIOUS
<1>1. PICK e : e = Entry(now - 1, "created", "Submitted", "Submitted", now - 1)
  OBVIOUS
<1>2. FirstDay * PerDay \in Nat
  BY SlaBoundAssumption, PerDayAssumption
<1>3. /\ now \in Nat /\ now - 1 \in Nat /\ row.enteredAt = now - 1 /\ row.status = "Submitted"
      /\ trail = {e} /\ requests = {} /\ IsRow(row)
  BY <1>1, <1>2 DEF SlaInit, IsRow
<1>4. IsEntry(e) /\ e.at = now - 1 /\ e.event = "created" /\ e.to = "Submitted"
  BY <1>1, <1>3 DEF Entry, IsEntry
<1>5. IsFiniteSet(trail)
  BY <1>3, FS_Singleton, Zenon
<1>6. MoveHasClock(e)
  BY <1>4, NeverUndoable DEF MoveHasClock
<1> QED
  BY <1>3, <1>4, <1>5, <1>6
     DEF ClockInv, ClockTypes, ClockOfARow, ClocksOfMoves, ClocksHeld, Arrived

\* Every step keeps it.
LEMMA ClockInvStep == ClockInv /\ [Next]_vars => ClockInv'
<1> SUFFICES ASSUME ClockInv, [Next]_vars PROVE ClockInv'
  OBVIOUS
<1>1. CASE User
  BY <1>1, ActKeeps, ReopenKeeps, UndoBeginKeeps, OthersKeep DEF User
<1>2. CASE \E r \in requests : Serve(r)
  BY <1>2, NoteKeeps, UndoCommitKeeps, AutoReturnKeeps, OthersKeep DEF Serve
<1>3. CASE NextDay \/ Scans \/ UNCHANGED vars
  BY <1>3, OthersKeep
<1> QED
  BY <1>1, <1>2, <1>3 DEF Next

\* An undo hands back a clock that started between the entry the undone move had
\* left and that move, however much happened between its read and its write.
THEOREM UndosKeepTheClock == Spec => UndoKeepsClock
<1>1. ClockInv => \A r \in requests : UndoCommit(r) => row'.enteredAt \in r.since .. r.moved
  <2> SUFFICES ASSUME ClockInv, NEW r \in requests, UndoCommit(r)
               PROVE  row'.enteredAt \in r.since .. r.moved
    OBVIOUS
  <2> QED
    BY UndoCommitKeeps
<1>2. Spec => []ClockInv
  BY ClockInvInit, ClockInvStep, PTL DEF Spec
<1> QED
  BY <1>1, <1>2, PTL DEF UndoKeepsClock

-----------------------------------------------------------------------------
(***************************************************************************)
(* The stations that pauses name.                                          *)
(***************************************************************************)
\* The ticket is at station s, or a move of the trail left it.
StationKnown(s) == s = row.status \/ \E e \in trail : e.event \notin NotAMove /\ e.from = s

StationInv == /\ \A p \in pauses : IsPause(p) /\ StationKnown(p.station)
              /\ \A r \in requests : r.kind = "pause" => StationKnown(r.station)

\* A station stays known while the trail grows, when what leaves it is a move.
LEMMA StationsStay ==
  ASSUME StationInv, trail \subseteq trail',
         \/ row'.status = row.status
         \/ \E e \in trail' : e.event \notin NotAMove /\ e.from = row.status,
         \A p \in pauses' : IsPause(p) /\ \E q \in pauses : q.station = p.station,
         \A r \in requests' : r \in requests
                              \/ (r.kind = "pause" => r.station = row.status /\ row' = row)
  PROVE  StationInv'
<1>1. ASSUME NEW s, StationKnown(s) PROVE StationKnown(s)'
  BY <1>1 DEF StationKnown
<1>2. \A p \in pauses' : IsPause(p) /\ StationKnown(p.station)'
  BY <1>1 DEF StationInv
<1>3. \A r \in requests' : r.kind = "pause" => StationKnown(r.station)'
  <2>1. \A r \in requests : r.kind = "pause" => StationKnown(r.station)'
    BY <1>1 DEF StationInv
  <2>2. \A s : s = row'.status => StationKnown(s)'
    BY DEF StationKnown
  <2> QED BY <2>1, <2>2
<1> QED BY <1>2, <1>3 DEF StationInv, IsPause

\* The pause that is open is closed, at the station it names.
LEMMA ClosedPauses ==
  ASSUME StationInv, NEW at
  PROVE  \A p \in ClosePause(pauses, at) : IsPause(p) /\ \E q \in pauses : q.station = p.station
<1> SUFFICES ASSUME NEW q \in pauses, NEW p, p = IF q.to = Open THEN [q EXCEPT !.to = at] ELSE q
             PROVE  IsPause(p) /\ q.station = p.station
  BY DEF ClosePause
<1>1. IsPause(q)
  BY DEF StationInv
<1> QED BY <1>1 DEF IsPause

\* The moves of the state machine are moves of the trail.
LEMMA EdgesMove ==
  ASSUME NEW some, NEW event, NEW user, NEW role, Transition(some, event, user, role) # {}
  PROVE  event \notin NotAMove
<1>1. PICK x \in FindEdge(some.status, event, some.flow) : TRUE
  BY DEF Transition
<1>2. x \in Edges /\ x.event = event
  BY <1>1 DEF FindEdge
<1>3. \A y \in Edges : y.event \notin {"created", "note"}
  BY DEF Edges, SharedEdges, GeneralEdges, ContractEdges, PaymentEdges, Plain, Reversible,
     HeavyReturn, EdgeOf
<1> QED BY <1>2, <1>3 DEF NotAMove

\* A move keeps them.
LEMMA StationsAtMove ==
  ASSUME StationInv, NEW next, NEW event, event \notin NotAMove, NEW entered, NEW at,
         MoveTo(next, event, entered, at), requests' \subseteq requests
  PROVE  StationInv'
<1>1. PICK e : e = Entry(at, event, row.status, next.status, row.enteredAt)
  OBVIOUS
<1>2. trail' = trail \cup {e} /\ e.event = event /\ e.from = row.status
  BY <1>1 DEF MoveTo, Entry
<1>3. \A p \in pauses' : IsPause(p) /\ \E q \in pauses : q.station = p.station
  BY ClosedPauses DEF MoveTo
<1> QED BY <1>2, <1>3, StationsStay

\* Every step keeps them.
LEMMA StationInvStep == StationInv /\ [Next]_vars => StationInv'
<1> SUFFICES ASSUME StationInv, [Next]_vars PROVE StationInv'
  OBVIOUS
<1>0. \A p \in pauses : IsPause(p) /\ \E q \in pauses : q.station = p.station
  BY DEF StationInv
<1>1. ASSUME NEW event, Act(event) PROVE StationInv'
  <2>1. PICK role \in Role : \E next \in Transition(row, event, UserOf(role), role) :
          MoveTo(next, event, now, now)
    BY <1>1 DEF Act
  <2>2. PICK next \in Transition(row, event, UserOf(role), role) : MoveTo(next, event, now, now)
    BY <2>1
  <2>3. event \notin NotAMove /\ requests' \subseteq requests
    BY <1>1, <2>2, EdgesMove DEF Act
  <2> QED BY <2>2, <2>3, StationsAtMove
<1>2. CASE Reopen
  <2>1. PICK mid \in Transition(row, "reopen", Dana, "DCC1") :
          \E next \in Transition(mid, "sendBack", Dana, "DCC1") :
            /\ row' = [next EXCEPT !.enteredAt = now]
            /\ trail' = trail \cup {Entry(now, "reopen", row.status, mid.status, row.enteredAt),
                                    Entry(now, "sendBack", mid.status, next.status, now)}
    BY <1>2 DEF Reopen
  <2>2. PICK e : e = Entry(now, "reopen", row.status, mid.status, row.enteredAt)
    OBVIOUS
  <2>3. e \in trail' /\ trail \subseteq trail' /\ e.event = "reopen" /\ e.from = row.status
    BY <2>1, <2>2 DEF Entry
  <2>4. e.event \notin NotAMove
    BY <2>3 DEF NotAMove
  <2>5. \A p \in pauses' : IsPause(p) /\ \E q \in pauses : q.station = p.station
    BY <1>2, ClosedPauses DEF Reopen
  <2> QED BY <1>2, <2>3, <2>4, <2>5, StationsStay DEF Reopen
<1>3. ASSUME NEW r \in requests, UndoCommit(r) PROVE StationInv'
  <2>1. PICK next \in UndoTransition(row, r.target, Dana, "DCC1") :
          MoveTo(next, "undo", r.prior, r.at)
    BY <1>3 DEF UndoCommit
  <2>2. "undo" \notin NotAMove /\ requests' \subseteq requests
    BY <1>3 DEF NotAMove, UndoCommit, Finish
  <2> QED BY <2>1, <2>2, StationsAtMove
<1>4. ASSUME NEW r \in requests, AutoReturn(r) PROVE StationInv'
  <2>1. PICK next \in Transition(row, "auto_return", System, "DCC1") :
          MoveTo(next, "auto_return", r.at, r.at)
    BY <1>4 DEF AutoReturn
  <2>2. "auto_return" \notin NotAMove /\ requests' \subseteq requests
    BY <1>4 DEF NotAMove, AutoReturn, Finish
  <2> QED BY <2>1, <2>2, StationsAtMove
<1>5. ASSUME NEW r \in requests, NoteCommit(r) \/ Refused(r) PROVE StationInv'
  BY <1>0, <1>5, StationsStay DEF NoteCommit, Refused, Finish
<1>6. ASSUME NEW r \in requests, PauseCommit(r) PROVE StationInv'
  <2>1. PICK n : n = [from |-> now, to |-> Open, station |-> r.station]
    OBVIOUS
  <2>2. /\ pauses' = pauses \cup {n} /\ requests' \subseteq requests
        /\ UNCHANGED <<row, trail>> /\ r.kind = "pause"
    BY <1>6, <2>1 DEF PauseCommit, Finish
  <2>3. IsPause(n) /\ StationKnown(n.station)
    BY <2>1, <2>2 DEF IsPause, StationInv
  <2> QED BY <2>2, <2>3 DEF StationInv, StationKnown, IsPause
<1>7. CASE PauseBegin
  <2>1. PICK r : r = [kind |-> "pause", station |-> row.status]
    OBVIOUS
  <2>2. requests' = requests \cup {r} /\ r.station = row.status /\ UNCHANGED <<row, trail, pauses>>
    BY <1>7, <2>1 DEF PauseBegin, Begin
  <2> QED BY <1>0, <2>2, StationsStay
<1>8. CASE NoteBegin \/ UndoBegin \/ PoolScan
  <2>1. UNCHANGED <<row, trail, pauses>> /\ \A r \in requests' : r \in requests \/ r.kind # "pause"
    BY <1>8 DEF NoteBegin, UndoBegin, PoolScan, Begin
  <2> QED BY <1>0, <2>1, StationsStay
<1>9. CASE Resume
  <2>1. \A p \in pauses' : IsPause(p) /\ \E q \in pauses : q.station = p.station
    BY <1>9, ClosedPauses DEF Resume
  <2> QED BY <1>9, <2>1, StationsStay DEF Resume
<1>10. CASE NextDay \/ EscalationScan \/ ReminderScan \/ UNCHANGED vars
  BY <1>0, <1>10, StationsStay DEF NextDay, EscalationScan, ReminderScan, vars
<1> QED BY <1>1, <1>2, <1>3, <1>4, <1>5, <1>6, <1>7, <1>8, <1>9, <1>10
       DEF Next, User, Scans, Serve

\* A pause the console lists as open names the station the ticket is at, or one that
\* a move of its trail left.
THEOREM OpenPausesAreTold == Spec => []PausesTold
<1>1. SlaInit => StationInv
  BY DEF SlaInit, StationInv
<1>2. StationInv => PausesTold
  <2> SUFFICES ASSUME StationInv, NEW q \in OpenPause, NEW p,
                      p = [status |-> q.station, days |-> spanDays(q), stale |-> spanDays(q) >= StaleDays]
               PROVE  p.status = row.status
                      \/ \E e \in trail : e.event \notin NotAMove /\ e.from = p.status
    BY DEF PausesTold, openPauses
  <2>1. StationKnown(q.station) /\ p.status = q.station
    BY DEF StationInv, OpenPause
  <2> QED BY <2>1 DEF StationKnown
<1> QED BY <1>1, <1>2, StationInvStep, PTL DEF Spec

-----------------------------------------------------------------------------
(***************************************************************************)
(* The trail: every write has an instant of its own, the two rows of a     *)
(* reopening apart, and the moves lead from one status to the next.        *)
(***************************************************************************)
Submitted0 == FirstDay * PerDay
Timed(r) == r.kind \in {"undo", "scan"}

\* Rows are ordered; the ticket was created once, before anything else; what is under
\* way will be written with an instant that no row and no other request has.
TrailInv ==
  /\ Submitted0 < now
  /\ \E c \in trail : c.event = "created" /\ c.at = Submitted0
  /\ \A e \in trail : IF e.event = "created" THEN e.at = Submitted0 ELSE Submitted0 < e.at
  /\ \A e, o \in trail : e = o \/ Before(e, o) \/ Before(o, e)
  /\ \A r \in requests : Timed(r) =>
       /\ Submitted0 < r.at
       /\ \A e \in trail : e.at # r.at
       /\ \A q \in requests : Timed(q) => q = r \/ q.at # r.at

\* An entry is written with an instant that is no other's.
Fresh(e) == /\ e.at \in Nat /\ Submitted0 < e.at
            /\ \A o \in trail : o.at # e.at
            /\ \A r \in requests' : r \in requests /\ (Timed(r) => r.at # e.at)

\* What a step leaves in the trail.
NoEntry == /\ trail' = trail /\ row'.status = row.status
           /\ \/ requests' \subseteq requests
              \/ \E add : /\ requests' = requests \cup {add}
                          /\ Timed(add) => add.at = now
NoteEntry == \E e : trail' = trail \cup {e} /\ Fresh(e) /\ e.event = "note" /\ row' = row
MoveEntry == \E e : /\ trail' = trail \cup {e} /\ Fresh(e) /\ e.event \notin NotAMove
                    /\ e.from = row.status /\ e.to = row'.status
ReopenEntries == \E e, f : /\ trail' = trail \cup {e, f} /\ Fresh(e) /\ Fresh(f) /\ e.at = f.at
                           /\ e.event = "reopen" /\ f.event = "sendBack"
                           /\ e.from = row.status /\ e.to = f.from /\ f.to = row'.status

\* The present instant is no row's and no request's.
LEMMA NowIsFresh ==
  ASSUME ClockInv, TrailInv, requests' \subseteq requests, NEW e, e.at = now
  PROVE  Fresh(e)
BY DEF ClockInv, ClockTypes, ClocksHeld, RequestOK, TrailInv, Fresh, Timed, IsEntry

\* So is the instant a request has read, once the request is served.
LEMMA ReadIsFresh ==
  ASSUME ClockInv, TrailInv, NEW r \in requests, Timed(r), requests' = requests \ {r},
         NEW e, e.at = r.at
  PROVE  Fresh(e)
BY DEF ClockInv, ClocksHeld, RequestOK, TrailInv, Fresh, Timed

\* What MoveTo writes in the trail.
LEMMA MoveIsEntry ==
  ASSUME ClockInv, NEW next, IsRow(next), NEW event, event \notin NotAMove, NEW entered, NEW at,
         MoveTo(next, event, entered, at),
         \A e : e.at = at => Fresh(e)
  PROVE  MoveEntry
<1>1. PICK e : e = Entry(at, event, row.status, next.status, row.enteredAt)
  OBVIOUS
<1>2. /\ trail' = trail \cup {e} /\ e.at = at /\ e.event = event /\ e.from = row.status
      /\ e.to = next.status /\ row' = [next EXCEPT !.enteredAt = entered]
  BY <1>1 DEF MoveTo, Entry
<1>3. row'.status = next.status
  BY <1>2 DEF IsRow
<1> QED
  BY <1>2, <1>3 DEF MoveEntry

\* A step writes nothing, a note, a move, or the two rows of a reopening.
LEMMA StepEntries ==
  ASSUME ClockInv, TrailInv, [Next]_vars
  PROVE  NoEntry \/ NoteEntry \/ MoveEntry \/ ReopenEntries
<1>0. IsRow(row)
  BY DEF ClockInv, ClockTypes
<1>1. ASSUME NEW event, Act(event) PROVE MoveEntry
  <2>1. PICK role \in Role : \E next \in Transition(row, event, UserOf(role), role) :
          MoveTo(next, event, now, now)
    BY <1>1 DEF Act
  <2>2. PICK next \in Transition(row, event, UserOf(role), role) : MoveTo(next, event, now, now)
    BY <2>1
  <2>3. event \notin NotAMove /\ requests' \subseteq requests /\ IsRow(next)
    BY <1>0, <1>1, <2>2, EdgesMove, TransitionMoves DEF Act
  <2> QED
    BY <2>2, <2>3, NowIsFresh, MoveIsEntry
<1>2. CASE Reopen
  <2>1. PICK mid \in Transition(row, "reopen", Dana, "DCC1") :
          \E next \in Transition(mid, "sendBack", Dana, "DCC1") :
            /\ row' = [next EXCEPT !.enteredAt = now]
            /\ trail' = trail \cup {Entry(now, "reopen", row.status, mid.status, row.enteredAt),
                                    Entry(now, "sendBack", mid.status, next.status, now)}
    BY <1>2 DEF Reopen
  <2>2. PICK next \in Transition(mid, "sendBack", Dana, "DCC1") :
            /\ row' = [next EXCEPT !.enteredAt = now]
            /\ trail' = trail \cup {Entry(now, "reopen", row.status, mid.status, row.enteredAt),
                                    Entry(now, "sendBack", mid.status, next.status, now)}
    BY <2>1
  <2>3. IsRow(next)
    BY <1>0, TransitionMoves
  <2>4. row'.status = next.status /\ requests' \subseteq requests
    BY <1>2, <2>2, <2>3 DEF IsRow, Reopen
  <2>5. PICK e, f : /\ e = Entry(now, "reopen", row.status, mid.status, row.enteredAt)
                    /\ f = Entry(now, "sendBack", mid.status, next.status, now)
    OBVIOUS
  <2>6. /\ e.at = now /\ f.at = now /\ e.event = "reopen" /\ f.event = "sendBack"
        /\ e.from = row.status /\ e.to = mid.status /\ f.from = mid.status /\ f.to = next.status
    BY <2>5 DEF Entry
  <2>7. trail' = trail \cup {e, f} /\ Fresh(e) /\ Fresh(f)
    BY <2>2, <2>4, <2>5, <2>6, NowIsFresh
  <2> QED
    BY <2>4, <2>6, <2>7 DEF ReopenEntries
<1>3. ASSUME NEW r \in requests, NoteCommit(r) PROVE NoteEntry
  <2>1. PICK e : e = Entry(now, "note", r.status, r.status, row.enteredAt)
    OBVIOUS
  <2>2. /\ trail' = trail \cup {e} /\ UNCHANGED row /\ requests' \subseteq requests
        /\ e.event = "note" /\ e.at = now
    BY <1>3, <2>1 DEF NoteCommit, Finish, Entry
  <2> QED
    BY <2>2, NowIsFresh DEF NoteEntry
<1>4. ASSUME NEW r \in requests, UndoCommit(r) PROVE MoveEntry
  <2>1. PICK next \in UndoTransition(row, r.target, Dana, "DCC1") : MoveTo(next, "undo", r.prior, r.at)
    BY <1>4 DEF UndoCommit
  <2>2. Timed(r) /\ requests' = requests \ {r} /\ IsRow(next) /\ "undo" \notin NotAMove
    BY <1>4, <2>1, UndoMoves DEF UndoCommit, Finish, Timed, NotAMove
  <2> QED
    BY <2>1, <2>2, ReadIsFresh, MoveIsEntry
<1>5. ASSUME NEW r \in requests, AutoReturn(r) PROVE MoveEntry
  <2>1. PICK next \in Transition(row, "auto_return", System, "DCC1") :
          MoveTo(next, "auto_return", r.at, r.at)
    BY <1>5 DEF AutoReturn
  <2>2. Timed(r) /\ requests' = requests \ {r} /\ IsRow(next) /\ "auto_return" \notin NotAMove
    BY <1>0, <1>5, <2>1, TransitionMoves DEF AutoReturn, Finish, Timed, NotAMove
  <2> QED
    BY <2>1, <2>2, ReadIsFresh, MoveIsEntry
<1>6. ASSUME NEW r \in requests, PauseCommit(r) \/ Refused(r) PROVE NoEntry
  BY <1>6 DEF PauseCommit, Refused, Finish, NoEntry
<1>7. CASE NoteBegin
  <2>1. PICK add : add = [kind |-> "note", status |-> row.status]
    OBVIOUS
  <2>2. requests' = requests \cup {add} /\ ~Timed(add)
    BY <1>7, <2>1 DEF NoteBegin, Begin, Timed
  <2> QED
    BY <1>7, <2>2 DEF NoteBegin, NoEntry
<1>8. CASE PauseBegin
  <2>1. PICK add : add = [kind |-> "pause", station |-> row.status]
    OBVIOUS
  <2>2. requests' = requests \cup {add} /\ ~Timed(add)
    BY <1>8, <2>1 DEF PauseBegin, Begin, Timed
  <2> QED
    BY <1>8, <2>2 DEF PauseBegin, NoEntry
<1>9. CASE PoolScan
  <2>1. PICK add : add = [kind |-> "scan", at |-> now]
    OBVIOUS
  <2>2. requests' = requests \cup {add} /\ add.at = now
    BY <1>9, <2>1 DEF PoolScan, Begin
  <2> QED
    BY <1>9, <2>2 DEF PoolScan, NoEntry
<1>10. CASE UndoBegin
  <2> DEFINE last == lastTransitionEvent
  <2>1. PICK add : add = [kind |-> "undo", at |-> now, moved |-> last.at,
                          target |-> [event |-> last.event, from |-> last.from],
                          since |-> last.since, prior |-> priorStatusEnteredAt(last)]
    OBVIOUS
  <2>2. requests' = requests \cup {add} /\ UNCHANGED <<row, trail>>
    BY <1>10, <2>1 DEF UndoBegin, Begin
  <2>3. add.at = now
    BY <2>1
  <2> QED
    BY <2>2, <2>3 DEF NoEntry
<1>11. CASE NextDay \/ Resume \/ EscalationScan \/ ReminderScan \/ UNCHANGED vars
  BY <1>11 DEF NextDay, Resume, EscalationScan, ReminderScan, vars, NoEntry
<1> QED
  BY <1>1, <1>2, <1>3, <1>4, <1>5, <1>6, <1>7, <1>8, <1>9, <1>10, <1>11
     DEF Next, User, Scans, Serve

\* Time never goes back.
LEMMA TimeGoesOn ==
  ASSUME ClockInv, [Next]_vars
  PROVE  now \in Nat /\ now' \in Nat /\ now <= now'
<1>1. now \in Nat
  BY DEF ClockInv, ClockTypes
<1>2. CASE NextDay
  BY <1>1, <1>2, NextDayLater DEF NextDay
<1>3. CASE now' = now \/ now' = now + 1
  BY <1>1, <1>3
<1> QED
  BY <1>2, <1>3 DEF Next, User, Scans, Serve, Act, Reopen, NoteBegin, UndoBegin, PauseBegin, Resume,
     PoolScan, EscalationScan, ReminderScan, NoteCommit, UndoCommit, PauseCommit, AutoReturn, Refused,
     Stamp, vars

\* A ticket that was submitted has its first row.
LEMMA TrailInvInit == SlaInit => TrailInv
<1> SUFFICES ASSUME SlaInit PROVE TrailInv
  OBVIOUS
<1>1. PICK e : e = Entry(now - 1, "created", "Submitted", "Submitted", now - 1)
  OBVIOUS
<1>2. Submitted0 \in Nat
  BY SlaBoundAssumption, PerDayAssumption DEF Submitted0
<1>3. now = Submitted0 + 1 /\ trail = {e} /\ requests = {}
  BY <1>1 DEF SlaInit, Submitted0
<1>4. e.at = Submitted0 /\ e.event = "created"
  BY <1>1, <1>2, <1>3 DEF Entry
<1> QED
  BY <1>2, <1>3, <1>4 DEF TrailInv

\* New entries have an instant that no other has, and are ordered among themselves.
LEMMA EntriesAdd ==
  ASSUME ClockInv, TrailInv, now' \in Nat, now <= now', NEW new, trail' = trail \cup new,
         \A e \in new : Fresh(e) /\ e.event # "created",
         \A e, o \in new : e = o \/ Before(e, o) \/ Before(o, e),
         requests' \subseteq requests
  PROVE  TrailInv'
<1>1. /\ now \in Nat /\ Submitted0 \in Nat
      /\ \A e \in trail : e.at \in Nat
      /\ Submitted0' = Submitted0
  BY SlaBoundAssumption, PerDayAssumption DEF Submitted0, ClockInv, ClockTypes, IsEntry
<1>2. \A e \in trail, o \in new : Before(e, o) \/ Before(o, e)
  BY <1>1 DEF Fresh, Before
<1>3. \A e, o \in trail' : e = o \/ Before(e, o) \/ Before(o, e)
  BY <1>2 DEF TrailInv
<1>4. \A e \in trail' : IF e.event = "created" THEN e.at = Submitted0 ELSE Submitted0 < e.at
  BY DEF TrailInv, Fresh
<1>5. \A r \in requests' : Timed(r) =>
        /\ Submitted0 < r.at
        /\ \A e \in trail' : e.at # r.at
        /\ \A q \in requests' : Timed(q) => q = r \/ q.at # r.at
  BY DEF TrailInv, Fresh
<1>6. /\ Submitted0 < now'
      /\ \E c \in trail' : c.event = "created" /\ c.at = Submitted0
  BY <1>1 DEF TrailInv
<1> QED
  BY <1>1, <1>3, <1>4, <1>5, <1>6 DEF TrailInv, Timed, Before

\* Every step keeps the trail in order.
LEMMA TrailInvStep ==
  ASSUME ClockInv, TrailInv, [Next]_vars
  PROVE  TrailInv'
<1>0. now \in Nat /\ now' \in Nat /\ now <= now'
  BY TimeGoesOn
<1>1. CASE NoEntry
  <2>1. CASE requests' \subseteq requests
    <3>1. PICK new : new = {}
      OBVIOUS
    <3>2. /\ trail' = trail \cup new
          /\ \A e \in new : Fresh(e) /\ e.event # "created"
          /\ \A e, o \in new : e = o \/ Before(e, o) \/ Before(o, e)
      BY <1>1, <3>1 DEF NoEntry
    <3> QED
      BY <1>0, <2>1, <3>2, EntriesAdd
  <2>2. CASE \E add : requests' = requests \cup {add} /\ (Timed(add) => add.at = now)
    <3>1. PICK add : requests' = requests \cup {add} /\ (Timed(add) => add.at = now)
      BY <2>2
    <3>2. /\ Submitted0 \in Nat /\ Submitted0' = Submitted0 /\ trail' = trail
          /\ \A e \in trail : e.at \in Nat /\ e.at < now
          /\ \A r \in requests : Timed(r) => r.at \in Nat /\ r.at < now
      BY <1>1, SlaBoundAssumption, PerDayAssumption
         DEF NoEntry, Submitted0, ClockInv, ClockTypes, IsEntry, ClocksHeld, RequestOK, Timed
    <3>3. \A r \in requests' : Timed(r) =>
            /\ Submitted0 < r.at
            /\ \A e \in trail : e.at # r.at
            /\ \A q \in requests' : Timed(q) => q = r \/ q.at # r.at
      BY <1>0, <3>1, <3>2 DEF TrailInv
    <3> QED
      BY <1>0, <3>2, <3>3 DEF TrailInv, Timed, Before
  <2> QED
    BY <1>1, <2>1, <2>2 DEF NoEntry
<1>2. CASE NoteEntry \/ MoveEntry
  <2>1. PICK e : trail' = trail \cup {e} /\ Fresh(e) /\ e.event # "created"
    BY <1>2 DEF NoteEntry, MoveEntry, NotAMove
  <2>2. requests' \subseteq requests
    BY <2>1 DEF Fresh
  <2>3. PICK new : new = {e}
    OBVIOUS
  <2>4. /\ trail' = trail \cup new
        /\ \A o \in new : Fresh(o) /\ o.event # "created"
        /\ \A o, p \in new : o = p \/ Before(o, p) \/ Before(p, o)
    BY <2>1, <2>3
  <2> QED
    BY <1>0, <2>2, <2>4, EntriesAdd
<1>3. CASE ReopenEntries
  <2>1. PICK e, f : /\ trail' = trail \cup {e, f} /\ Fresh(e) /\ Fresh(f) /\ e.at = f.at
                    /\ e.event = "reopen" /\ f.event = "sendBack"
    BY <1>3 DEF ReopenEntries
  <2>2. Before(e, f)
    BY <2>1 DEF Before
  <2>3. requests' \subseteq requests
    BY <2>1 DEF Fresh
  <2>4. PICK new : new = {e, f}
    OBVIOUS
  <2>5. /\ trail' = trail \cup new
        /\ \A o \in new : Fresh(o) /\ o.event # "created"
        /\ \A o, p \in new : o = p \/ Before(o, p) \/ Before(p, o)
    BY <2>1, <2>2, <2>4
  <2> QED
    BY <1>0, <2>3, <2>5, EntriesAdd
<1> QED
  BY <1>1, <1>2, <1>3, StepEntries

-----------------------------------------------------------------------------
(***************************************************************************)
(* What was cleared adds up.                                               *)
(***************************************************************************)
ClearedRows == {e \in Moves : e.to \in DONE_STATUSES}
UndoneRows == {e \in Moves : e.from \in DONE_STATUSES}
One(status) == IF status \in DONE_STATUSES THEN 1 ELSE 0

\* The moves into the statuses that count as done exceed those out of them by the
\* ticket itself.
DoneInv == Cardinality(ClearedRows) = Cardinality(UndoneRows) + One(row.status)

\* One more move, that leads from `from' to e.to.
LEMMA MoveCounts ==
  ASSUME NEW C, NEW U, IsFiniteSet(C), IsFiniteSet(U), NEW e, e \notin C, e \notin U,
         NEW from, e.from = from, Cardinality(C) = Cardinality(U) + One(from),
         NEW C2, C2 = IF e.to \in DONE_STATUSES THEN C \cup {e} ELSE C,
         NEW U2, U2 = IF e.from \in DONE_STATUSES THEN U \cup {e} ELSE U
  PROVE  /\ IsFiniteSet(C2) /\ IsFiniteSet(U2)
         /\ Cardinality(C2) = Cardinality(U2) + One(e.to)
<1>1. /\ IsFiniteSet(C \cup {e}) /\ Cardinality(C \cup {e}) = Cardinality(C) + 1
      /\ IsFiniteSet(U \cup {e}) /\ Cardinality(U \cup {e}) = Cardinality(U) + 1
      /\ Cardinality(C) \in Nat /\ Cardinality(U) \in Nat
  BY FS_AddElement, FS_CardinalityType
<1> QED
  BY <1>1 DEF One

\* The moves into and out of the statuses that count as done are finitely many.
LEMMA RowsFinite ==
  ASSUME ClockInv
  PROVE  IsFiniteSet(ClearedRows) /\ IsFiniteSet(UndoneRows)
<1>1. IsFiniteSet(trail) /\ ClearedRows \in SUBSET trail /\ UndoneRows \in SUBSET trail
  BY DEF ClockInv, ClockTypes, ClearedRows, UndoneRows, Moves
<1> QED
  BY <1>1, FS_Subset

\* Every step keeps the count of what was cleared.
LEMMA DoneInvStep ==
  ASSUME ClockInv, TrailInv, DoneInv, [Next]_vars
  PROVE  DoneInv'
<1>1. CASE NoEntry
  BY <1>1 DEF NoEntry, DoneInv, ClearedRows, UndoneRows, Moves
<1>2. CASE NoteEntry
  BY <1>2 DEF NoteEntry, DoneInv, ClearedRows, UndoneRows, Moves
<1>3. CASE MoveEntry
  <2>1. PICK e : /\ trail' = trail \cup {e} /\ Fresh(e) /\ e.event \notin NotAMove
                 /\ e.from = row.status /\ e.to = row'.status
    BY <1>3 DEF MoveEntry
  <2>2. e \notin trail /\ e.event # "note"
    BY <2>1 DEF Fresh, NotAMove
  <2>3. /\ ClearedRows' = IF e.to \in DONE_STATUSES THEN ClearedRows \cup {e} ELSE ClearedRows
        /\ UndoneRows' = IF e.from \in DONE_STATUSES THEN UndoneRows \cup {e} ELSE UndoneRows
        /\ e \notin ClearedRows /\ e \notin UndoneRows
    BY <2>1, <2>2 DEF ClearedRows, UndoneRows, Moves
  <2> QED
    BY <2>1, <2>3, RowsFinite, MoveCounts DEF DoneInv
<1>4. CASE ReopenEntries
  <2>1. PICK e, f : /\ trail' = trail \cup {e, f} /\ Fresh(e) /\ Fresh(f)
                    /\ e.event = "reopen" /\ f.event = "sendBack"
                    /\ e.from = row.status /\ e.to = f.from /\ f.to = row'.status
    BY <1>4 DEF ReopenEntries
  <2>2. e \notin trail /\ f \notin trail /\ e # f
    BY <2>1 DEF Fresh
  <2> DEFINE C1 == IF e.to \in DONE_STATUSES THEN ClearedRows \cup {e} ELSE ClearedRows
             U1 == IF e.from \in DONE_STATUSES THEN UndoneRows \cup {e} ELSE UndoneRows
  <2>3. /\ ClearedRows' = IF f.to \in DONE_STATUSES THEN C1 \cup {f} ELSE C1
        /\ UndoneRows' = IF f.from \in DONE_STATUSES THEN U1 \cup {f} ELSE U1
        /\ e \notin ClearedRows /\ e \notin UndoneRows /\ f \notin C1 /\ f \notin U1
    BY <2>1, <2>2 DEF ClearedRows, UndoneRows, Moves
  <2>4. /\ IsFiniteSet(C1) /\ IsFiniteSet(U1)
        /\ Cardinality(C1) = Cardinality(U1) + One(e.to)
    BY <2>1, <2>3, RowsFinite, MoveCounts DEF DoneInv
  <2> HIDE DEF C1, U1
  <2> QED
    BY <2>1, <2>3, <2>4, MoveCounts DEF DoneInv
<1> QED
  BY <1>1, <1>2, <1>3, <1>4, StepEntries

\* A ticket that was submitted is not cleared.
LEMMA DoneInvInit == SlaInit => DoneInv
<1> SUFFICES ASSUME SlaInit PROVE DoneInv
  OBVIOUS
<1>1. PICK e : e = Entry(now - 1, "created", "Submitted", "Submitted", now - 1)
  OBVIOUS
<1>2. trail = {e} /\ e.to = "Submitted" /\ e.from = "Submitted" /\ row.status = "Submitted"
  BY <1>1 DEF SlaInit, Entry
<1>3. ClearedRows = {} /\ UndoneRows = {}
  BY <1>2 DEF ClearedRows, UndoneRows, Moves, DONE_STATUSES
<1> QED
  BY <1>2, <1>3, FS_EmptySet DEF DoneInv, One, DONE_STATUSES

\* Rows counted by week are all counted, once.
LEMMA BucketsAddUp ==
  ASSUME IsFiniteSet(trail), NEW rows \in SUBSET trail, NEW f,
         f = [week \in {periodKey(e.at) : e \in trail} |->
                Cardinality({e \in rows : periodKey(e.at) = week})]
  PROVE  SumFunction(f) = Cardinality(rows)
<1> DEFINE W == {periodKey(e.at) : e \in trail}
           I == [week \in W |-> {e \in rows : periodKey(e.at) = week}]
<1>1. IsFiniteSet(rows)
  BY FS_Subset
<1>2. IsFiniteSet(W)
  <2> DEFINE key == [e \in trail |-> periodKey(e.at)]
  <2>1. key \in Surjection(trail, W)
    BY DEF Surjection
  <2> QED
    BY <2>1, FS_Surjection
<1>3. \A w \in W : IsFiniteSet(I[w]) /\ f[w] = Cardinality(I[w])
  BY <1>1, FS_Subset
<1>4. \A w, v \in W : w # v => I[w] \cap I[v] = {}
  OBVIOUS
<1>5. /\ \A w \in W : I[w] \subseteq rows
      /\ \A e \in rows : \E w \in W : e \in I[w]
  <2>1. \A e \in rows : periodKey(e.at) \in W /\ e \in I[periodKey(e.at)]
    OBVIOUS
  <2> QED
    BY <2>1
<1>6. DOMAIN f = W
  OBVIOUS
<1> HIDE DEF W, I
<1>7. SumFrom(f, W)[W] = Cardinality(rows)
  <2>1. PICK J, V : J = I /\ V = W
    OBVIOUS
  <2>2. IsFiniteSet(V) /\ Parts(rows, V, J, f)
    BY <1>2, <1>3, <1>4, <1>5, <2>1 DEF Parts
  <2>3. SumFrom(f, V)[V] = Cardinality(rows)
    BY <2>2, SumOfSizes
  <2> QED
    BY <2>1, <2>3
<1> QED
  BY <1>6, <1>7, SumIsFold

\* What was cleared and opened again, and what is cleared still, adds up.
LEMMA ClearedAdds ==
  ASSUME ClockInv, TrailInv, DoneInv
  PROVE  ClearedAddsUp
<1> DEFINE weeks == throughputBuckets
           W == {periodKey(e.at) : e \in trail}
           f == [week \in DOMAIN weeks |-> weeks[week]["created"]]
           g == [week \in DOMAIN weeks |-> weeks[week]["completed"]]
           created == {e \in trail : e.event = "created"}
           completed == {e \in trail : e.to \in DONE_STATUSES}
<1>0. IsFiniteSet(trail)
  BY DEF ClockInv, ClockTypes
<1>1. /\ DOMAIN weeks = W
      /\ \A week \in W :
           /\ weeks[week]["created"] = Cardinality({e \in created : periodKey(e.at) = week})
           /\ weeks[week]["completed"] = Cardinality({e \in completed : periodKey(e.at) = week})
  <2>1. \A week \in W :
          /\ {e \in {e \in trail : periodKey(e.at) = week} : e.event = "created"}
               = {e \in created : periodKey(e.at) = week}
          /\ {e \in {e \in trail : periodKey(e.at) = week} : e.to \in DONE_STATUSES}
               = {e \in completed : periodKey(e.at) = week}
    OBVIOUS
  <2> QED
    BY <2>1 DEF throughputBuckets
<1> HIDE DEF weeks
<1>2. f = [week \in W |-> Cardinality({e \in created : periodKey(e.at) = week})]
  BY <1>1
<1>3. g = [week \in W |-> Cardinality({e \in completed : periodKey(e.at) = week})]
  BY <1>1
<1>4. SumFunction(f) = Cardinality(created) /\ SumFunction(g) = Cardinality(completed)
  <2>1. created \in SUBSET trail /\ completed \in SUBSET trail
    OBVIOUS
  <2> HIDE DEF f, g, created, completed
  <2> QED
    BY <1>0, <1>2, <1>3, <2>1, BucketsAddUp
<1>5. Cardinality(created) = 1
  <2>1. PICK c \in trail : c.event = "created" /\ c.at = Submitted0
    BY DEF TrailInv
  <2>2. created = {c}
    <3>1. ASSUME NEW e \in created, e # c PROVE FALSE
      <4>1. e.at = c.at /\ (Before(e, c) \/ Before(c, e))
        BY <2>1, <3>1 DEF TrailInv
      <4>2. c.at \in Nat
        BY DEF ClockInv, ClockTypes, IsEntry
      <4> QED
        BY <2>1, <4>1, <4>2 DEF Before
    <3> QED
      BY <2>1, <3>1
  <2> QED
    BY <2>2, FS_Singleton, Zenon
<1>6. ASSUME \A e \in trail : e.event = "note" => e.to \notin DONE_STATUSES
      PROVE  Cardinality(completed) - Cardinality(UndoneRows) = One(row.status)
  <2>1. completed = ClearedRows
    BY <1>6 DEF ClearedRows, Moves
  <2>2. Cardinality(UndoneRows) \in Nat
    BY RowsFinite, FS_CardinalityType
  <2>3. One(row.status) \in Nat
    BY DEF One
  <2> HIDE DEF completed
  <2> QED
    BY <2>1, <2>2, <2>3 DEF DoneInv
<1> HIDE DEF created, completed
<1> QED
  BY <1>4, <1>5, <1>6 DEF ClearedAddsUp, weeks, UndoneRows, One

-----------------------------------------------------------------------------
(***************************************************************************)
(* Pauses and the days that are charged.                                   *)
(***************************************************************************)
PauseInv == IsFiniteSet(pauses) /\ \A p \in pauses : IsPause(p) /\ IsWindow(p) /\ p.from < now

\* A step leaves the pauses, closes the open one, or opens one now.
LEMMA StepPauses ==
  ASSUME [Next]_vars
  PROVE  \/ pauses' = pauses
         \/ pauses' = ClosePause(pauses, now)
         \/ /\ now' = now + 1
            /\ \E s : pauses' = pauses \cup {[from |-> now, to |-> Open, station |-> s]}
BY DEF Next, User, Scans, Serve, NextDay, Act, Reopen, NoteBegin, UndoBegin, PauseBegin, Resume,
   PoolScan, EscalationScan, ReminderScan, NoteCommit, UndoCommit, PauseCommit, AutoReturn, Refused,
   MoveTo, Stamp, vars

\* Every step keeps the pauses finitely many, and begun before now.
LEMMA PauseInvStep ==
  ASSUME ClockInv, PauseInv, [Next]_vars
  PROVE  PauseInv'
<1>0. now \in Nat /\ now' \in Nat /\ now <= now'
  BY TimeGoesOn
<1>1. CASE pauses' = pauses
  BY <1>0, <1>1 DEF PauseInv, IsPause, IsWindow
<1>2. CASE pauses' = ClosePause(pauses, now)
  <2> DEFINE close == [p \in pauses |-> IF p.to = Open THEN [p EXCEPT !.to = now] ELSE p]
  <2>1. pauses' = {close[p] : p \in pauses}
    BY <1>2 DEF ClosePause
  <2>2. IsFiniteSet(pauses')
    <3>1. close \in Surjection(pauses, pauses')
      BY <2>1 DEF Surjection
    <3> QED
      BY <3>1, FS_Surjection DEF PauseInv
  <2>3. \A p \in pauses : IsPause(close[p]) /\ IsWindow(close[p]) /\ close[p].from < now'
    BY <1>0 DEF PauseInv, IsPause, IsWindow
  <2> HIDE DEF close
  <2> QED
    BY <2>1, <2>2, <2>3 DEF PauseInv, IsPause, IsWindow
<1>3. CASE /\ now' = now + 1
           /\ \E s : pauses' = pauses \cup {[from |-> now, to |-> Open, station |-> s]}
  <2>1. PICK s : pauses' = pauses \cup {[from |-> now, to |-> Open, station |-> s]}
    BY <1>3
  <2>2. PICK n : n = [from |-> now, to |-> Open, station |-> s]
    OBVIOUS
  <2>3. IsPause(n) /\ IsWindow(n) /\ n.from < now'
    BY <1>0, <1>3, <2>2 DEF IsPause, IsWindow
  <2>4. IsFiniteSet(pauses')
    BY <2>1, FS_AddElement DEF PauseInv
  <2> QED
    BY <1>0, <2>1, <2>2, <2>3, <2>4 DEF PauseInv, IsPause, IsWindow
<1> QED
  BY <1>1, <1>2, <1>3, StepPauses

\* There is no pause at first.
LEMMA PauseInvInit == SlaInit => PauseInv
BY FS_EmptySet DEF SlaInit, PauseInv

\* Thresholds are numbers of days.
LEMMA ThresholdType ==
  ASSUME NEW status, NEW flow, thresholdOf(status, flow) # NoOne
  PROVE  thresholdOf(status, flow) \in Nat
<1> DEFINE days(f) == {r.days : r \in {c \in SlaConfig : c.status = status /\ c.flow = f}}
<1>1. \A c \in SlaConfig : c.days \in Nat
  BY DEF SlaConfig, SlaRows
<1>2. days(flow) \subseteq Nat /\ days("*") \subseteq Nat
  BY <1>1
<1>3. thresholdOf(status, flow) = IF days(flow) # {} THEN CHOOSE d \in days(flow) : TRUE
                                  ELSE IF days("*") # {} THEN CHOOSE d \in days("*") : TRUE
                                  ELSE NoOne
  BY DEF thresholdOf
<1> HIDE DEF days
<1> QED
  BY <1>2, <1>3

\* The days that are charged, in any state the invariants allow.
LEMMA ChargedNow ==
  ASSUME ClockInv, PauseInv
  PROVE  ChargedDays
<1>1. now \in Nat /\ row.enteredAt \in Nat
  BY DEF ClockInv, ClockTypes, IsRow
<1> DEFINE days == {d \in civilDay(row.enteredAt)+1 .. civilDay(now) : Working(d)}
           stopped == {d \in days : \E p \in pauses : /\ p.from >= row.enteredAt
                                                      /\ civilDay(p.from) < d
                                                      /\ d <= civilDay(EndOf(p, now))}
<1>2. dwellDays(Since, now) = Cardinality(days \ PausedDays(windowsFor(pauses, row.enteredAt), now))
  BY <1>1, ClockRuns DEF PauseInv, Since, WorkDays
<1>3. civilDay(row.enteredAt) \in Nat /\ civilDay(now) \in Nat
  BY <1>1, DayGrows
<1>4. days \ PausedDays(windowsFor(pauses, row.enteredAt), now) = days \ stopped
  <2>1. \A d \in days : d \in Nat /\ Working(d)
    BY <1>3
  <2> QED
    BY <2>1 DEF PausedDays, windowsFor
<1> QED
  BY <1>2, <1>4 DEF ChargedDays

\* A ticket in time when it was paused is in time while the pause lasts.
LEMMA StoppedStays ==
  ASSUME ClockInv, PauseInv
  PROVE  StoppedNotLate
<1> SUFFICES ASSUME NEW p \in OpenPause, p.from >= row.enteredAt,
                    overdueDays(clockStart(row.enteredAt, pauses, p.from), Threshold, p.from) = 0
             PROVE  summarizeLines.overdue = 0
  BY DEF StoppedNotLate
<1>1. /\ now \in Nat /\ row.enteredAt \in Nat /\ p \in pauses /\ p.to = Open /\ p.from \in Nat
      /\ row.enteredAt <= p.from /\ p.from <= now
  BY DEF ClockInv, ClockTypes, IsRow, PauseInv, OpenPause, IsWindow
<1>2. /\ dwellDays(Since, now) <= dwellDays(clockStart(row.enteredAt, pauses, p.from), p.from)
      /\ dwellDays(Since, now) \in Nat
      /\ dwellDays(clockStart(row.enteredAt, pauses, p.from), p.from) \in Nat
  BY <1>1, ClockStands DEF PauseInv, Since
<1>3. Threshold # NoOne => Threshold \in Nat
  BY ThresholdType DEF Threshold
<1>4. Late = 0
  BY <1>2, <1>3 DEF Late, overdueDays, dwellDays
<1> QED
  BY <1>4 DEF summarizeLines

-----------------------------------------------------------------------------
(***************************************************************************)
(* What the dwell report tells.                                            *)
(***************************************************************************)
\* Rows that ORDER BY puts in a line.
InLine(rows) == /\ IsFiniteSet(rows)
                /\ \A e \in rows : e.at \in Nat
                /\ \A e, o \in rows : e = o \/ Before(e, o) \/ Before(o, e)

\* The order of the rows is strict.
LEMMA BeforeStrict ==
  ASSUME NEW a, NEW b, NEW c, a.at \in Nat, b.at \in Nat, c.at \in Nat
  PROVE  /\ ~Before(a, a)
         /\ Before(a, b) => ~Before(b, a) /\ a.at <= b.at
         /\ Before(a, b) /\ Before(b, c) => Before(a, c)
         /\ a.at < b.at => Before(a, b)
BY DEF Before

\* A line has a first and a last row.
LEMMA LineEnds ==
  ASSUME NEW rows, InLine(rows), rows # {}
  PROVE  /\ \E p \in rows : \A o \in rows : o = p \/ Before(o, p)
         /\ \E p \in rows : \A o \in rows : o = p \/ Before(p, o)
<1> DEFINE Ends(s) == /\ \E p \in s : \A o \in s : o = p \/ Before(o, p)
                      /\ \E p \in s : \A o \in s : o = p \/ Before(p, o)
           Z == {s \in SUBSET rows : s = {} \/ Ends(s)}
<1>1. {} \in Z
  OBVIOUS
<1>2. ASSUME NEW s \in SUBSET rows, s # {}, \A x \in s : s \ {x} \in Z PROVE s \in Z
  <2>1. PICK x \in s : TRUE
    BY <1>2
  <2>2. CASE s \ {x} = {}
    <3>1. s = {x}
      BY <2>1, <2>2
    <3> QED
      BY <3>1
  <2>3. CASE s \ {x} # {}
    <3>0. \A a, b, c \in s : /\ a = b \/ Before(a, b) \/ Before(b, a)
                             /\ Before(a, b) /\ Before(b, c) => Before(a, c)
      BY BeforeStrict DEF InLine
    <3>1. Ends(s \ {x})
      BY <1>2, <2>1, <2>3
    <3>2. PICK p \in s \ {x} : \A o \in s \ {x} : o = p \/ Before(o, p)
      BY <3>1
    <3>3. PICK q \in s \ {x} : \A o \in s \ {x} : o = q \/ Before(q, o)
      BY <3>1
    <3>4. \E l \in s : \A o \in s : o = l \/ Before(o, l)
      <4>1. CASE Before(x, p)
        BY <3>2, <4>1
      <4>2. CASE Before(p, x)
        <5>1. \A o \in s : o = x \/ Before(o, x)
          BY <3>0, <3>2, <4>2
        <5> QED
          BY <5>1
      <4> QED
        BY <3>0, <3>2, <4>1, <4>2
    <3>5. \E l \in s : \A o \in s : o = l \/ Before(l, o)
      <4>1. CASE Before(q, x)
        BY <3>3, <4>1
      <4>2. CASE Before(x, q)
        <5>1. \A o \in s : o = x \/ Before(x, o)
          BY <3>0, <3>3, <4>2
        <5> QED
          BY <5>1
      <4> QED
        BY <3>0, <3>3, <4>1, <4>2
    <3> QED
      BY <3>4, <3>5
  <2> QED
    BY <2>2, <2>3
<1> HIDE DEF Z
<1>3. rows \in Z
  <2>1. IsFiniteSet(rows)
    BY DEF InLine
  <2> QED
    BY <1>1, <1>2, <2>1, SetInduction
<1> QED
  BY <1>3 DEF Z

\* LastRow is the row that all the others precede, and the only one.
LEMMA LastRowIs ==
  ASSUME NEW rows, InLine(rows), rows # {}
  PROVE  /\ LastRow(rows) \in rows
         /\ \A o \in rows : o = LastRow(rows) \/ Before(o, LastRow(rows))
         /\ \A p \in rows : (\A o \in rows : o = p \/ Before(o, p)) => p = LastRow(rows)
<1>1. \E p \in rows : \A o \in rows : o = p \/ Before(o, p)
  BY LineEnds
<1>2. LastRow(rows) \in rows /\ \A o \in rows : o = LastRow(rows) \/ Before(o, LastRow(rows))
  BY <1>1 DEF LastRow
<1>3. \A a, b \in rows : ~(Before(a, b) /\ Before(b, a))
  BY BeforeStrict DEF InLine
<1> QED
  BY <1>2, <1>3

\* Any rows of the trail are in a line.
LEMMA TrailInLine ==
  ASSUME ClockInv, TrailInv
  PROVE  \A rows \in SUBSET trail : InLine(rows)
<1>1. IsFiniteSet(trail) /\ \A e \in trail : e.at \in Nat
  BY DEF ClockInv, ClockTypes, IsEntry
<1> QED
  BY <1>1, FS_Subset DEF InLine, TrailInv

\* Each row names the station until the next one is written.
LEMMA HeldBetween ==
  ASSUME ClockInv, TrailInv, \A n \in trail : n.event = "note" => n.to = heldAt(n.at),
         NEW e \in trail, Precede(e) # {}, NEW p, p = LastRow(Precede(e))
  PROVE  /\ p \in trail /\ Before(p, e)
         /\ \A o \in trail : Before(o, e) => o = p \/ Before(o, p)
         /\ \A t \in Nat : p.at <= t /\ t < e.at => heldAt(t) = p.to
<1> DEFINE Held(t) == {m \in Moves : m.at <= t}
<1>0. \A o \in trail : o.at \in Nat
  BY DEF ClockInv, ClockTypes, IsEntry
<1>1. Precede(e) \in SUBSET trail /\ \A rows \in SUBSET trail : InLine(rows)
  BY TrailInLine DEF Precede
<1>2. p \in Precede(e) /\ \A o \in Precede(e) : o = p \/ Before(o, p)
  BY <1>1, LastRowIs
<1>3. p \in trail /\ Before(p, e) /\ \A o \in trail : Before(o, e) => o = p \/ Before(o, p)
  BY <1>2 DEF Precede
<1>4. ASSUME NEW t \in Nat, p.at <= t, t < e.at
      PROVE  heldAt(t) = p.to
  <2>1. \A m \in Held(t) : m = p \/ Before(m, p)
    <3> SUFFICES ASSUME NEW m \in Held(t) PROVE m = p \/ Before(m, p)
      OBVIOUS
    <3>1. m \in trail /\ m.at \in Nat /\ e.at \in Nat /\ m.at < e.at
      BY <1>0, <1>4 DEF Moves
    <3> QED
      BY <1>3, <3>1, BeforeStrict
  <2>2. CASE p.event # "note"
    <3>1. p \in Held(t)
      BY <1>3, <1>4, <2>2 DEF Moves
    <3>2. InLine(Held(t))
      BY <1>1 DEF Moves
    <3> HIDE DEF Held
    <3>3. p = LastRow(Held(t))
      BY <2>1, <3>1, <3>2, LastRowIs
    <3> QED
      BY <3>3 DEF heldAt, Held
  <2>3. CASE p.event = "note"
    <3>1. \A m \in Held(t) : m \in trail /\ m # p /\ m.at <= p.at
      <4> SUFFICES ASSUME NEW m \in Held(t) PROVE m \in trail /\ m # p /\ m.at <= p.at
        OBVIOUS
      <4>1. m \in trail /\ m # p
        BY <2>3 DEF Moves
      <4> QED
        BY <1>0, <1>3, <2>1, <4>1, BeforeStrict
    <3>2. \A m \in Held(p.at) : m.at \in Nat /\ m.at <= t
      BY <1>0, <1>3, <1>4 DEF Moves
    <3>3. Held(t) = Held(p.at)
      BY <3>1, <3>2
    <3>4. heldAt(t) = heldAt(p.at)
      BY <3>3 DEF heldAt
    <3> QED
      BY <1>3, <2>3, <3>4
  <2> QED
    BY <2>2, <2>3
<1> QED
  BY <1>3, <1>4

\* The stretch of time that a segment stands for.
Stretch(s) == s.row.at - s.ms .. s.row.at - 1

\* What a segment is made of.
LEMMA SegmentIs ==
  ASSUME ClockInv, TrailInv, \A n \in trail : n.event = "note" => n.to = heldAt(n.at),
         NEW s \in dwellSegments
  PROVE  \E e \in trail, p \in trail :
           /\ s = Gap(p, e) /\ p = LastRow(Precede(e))
           /\ s.row = e /\ s.status = p.to /\ s.ms = e.at - p.at
           /\ p.at \in Nat /\ e.at \in Nat /\ p.at < e.at
           /\ Stretch(s) = p.at .. e.at - 1
           /\ \A t \in Nat : p.at <= t /\ t < e.at => heldAt(t) = p.to
           /\ \A o \in trail : Before(o, e) => o.at <= p.at
<1>1. PICK e \in trail : Precede(e) # {} /\ s = Gap(LastRow(Precede(e)), e) /\ s.ms > 0
  BY DEF dwellSegments
<1>2. PICK p : p = LastRow(Precede(e))
  OBVIOUS
<1>3. /\ p \in trail
      /\ \A o \in trail : Before(o, e) => o = p \/ Before(o, p)
      /\ \A t \in Nat : p.at <= t /\ t < e.at => heldAt(t) = p.to
  BY <1>1, <1>2, HeldBetween
<1>4. \A o \in trail : o.at \in Nat
  BY DEF ClockInv, ClockTypes, IsEntry
<1>5. \A o \in trail : Before(o, e) => o.at <= p.at
  BY <1>3, <1>4, BeforeStrict
<1>6. s.row = e /\ s.status = p.to /\ s.ms = e.at - p.at
  BY <1>1, <1>2 DEF Gap
<1>7. p.at < e.at /\ Stretch(s) = p.at .. e.at - 1
  BY <1>1, <1>3, <1>4, <1>6 DEF Stretch
<1> QED
  BY <1>1, <1>2, <1>3, <1>4, <1>5, <1>6, <1>7

\* The stretches of the segments of a status are the parts of the time spent there.
LEMMA SegmentsArePieces ==
  ASSUME ClockInv, TrailInv, \A n \in trail : n.event = "note" => n.to = heldAt(n.at),
         NEW status, NEW here, here = {s \in dwellSegments : s.status = status},
         NEW A, A = {t \in Submitted0 .. Latest(trail).at - 1 : heldAt(t) = status},
         NEW I, I = [s \in here |-> Stretch(s)],
         NEW f, f = [s \in here |-> s.ms]
  PROVE  Parts(A, here, I, f)
<1>0. /\ Submitted0 \in Nat
      /\ \A o \in trail : o.at \in Nat /\ Submitted0 <= o.at
  <2>1. \A o \in trail : o.at \in Nat /\ Submitted0 <= o.at
    <3>1. \E c \in trail : c.at = Submitted0 /\ c.at \in Nat
      BY DEF ClockInv, ClockTypes, IsEntry, TrailInv
    <3> QED
      BY <3>1 DEF ClockInv, ClockTypes, IsEntry, TrailInv
  <2>2. \E c \in trail : c.at = Submitted0
    BY DEF TrailInv
  <2> QED
    BY <2>1, <2>2
<1>1. Latest(trail) \in trail /\ \A o \in trail : o.at <= Latest(trail).at
  <2>1. IsFiniteSet(trail) /\ trail # {}
    BY DEF ClockInv, ClockTypes, TrailInv
  <2> QED
    BY <1>0, <2>1, LatestExists
<1>2. \A s \in here : IsFiniteSet(I[s]) /\ f[s] = Cardinality(I[s]) /\ I[s] \subseteq A
  <2> SUFFICES ASSUME NEW s \in here
               PROVE  IsFiniteSet(I[s]) /\ f[s] = Cardinality(I[s]) /\ I[s] \subseteq A
    OBVIOUS
  <2>1. PICK e \in trail, p \in trail :
           /\ s.status = p.to /\ s.ms = e.at - p.at
           /\ p.at \in Nat /\ e.at \in Nat /\ p.at < e.at
           /\ Stretch(s) = p.at .. e.at - 1
           /\ \A t \in Nat : p.at <= t /\ t < e.at => heldAt(t) = p.to
    BY SegmentIs
  <2>2. I[s] = p.at .. e.at - 1 /\ f[s] = e.at - p.at /\ p.to = status
    BY <2>1
  <2>3. IsFiniteSet(I[s]) /\ Cardinality(I[s]) = e.at - p.at
    <3>1. p.at \in Int /\ e.at - 1 \in Int /\ ~(p.at > e.at - 1)
      BY <2>1
    <3>2. Cardinality(p.at .. e.at - 1) = (e.at - 1) - p.at + 1 /\ IsFiniteSet(p.at .. e.at - 1)
      BY <3>1, FS_Interval
    <3> QED
      BY <2>1, <2>2, <3>2
  <2>4. \A t \in I[s] : t \in A
    <3> SUFFICES ASSUME NEW t \in I[s] PROVE t \in A
      OBVIOUS
    <3>1. t \in Nat /\ p.at <= t /\ t < e.at
      BY <2>1, <2>2
    <3>2. Submitted0 <= t /\ t <= Latest(trail).at - 1
      BY <1>0, <1>1, <2>1, <3>1
    <3> QED
      BY <1>0, <1>1, <2>1, <2>2, <3>1, <3>2
  <2> QED
    BY <2>2, <2>3, <2>4
<1>3. \A s, u \in here : s # u => I[s] \cap I[u] = {}
  <2> SUFFICES ASSUME NEW s \in here, NEW u \in here, s # u PROVE I[s] \cap I[u] = {}
    OBVIOUS
  <2>1. PICK e \in trail, p \in trail :
           /\ s = Gap(p, e) /\ p = LastRow(Precede(e))
           /\ p.at \in Nat /\ e.at \in Nat /\ p.at < e.at
           /\ Stretch(s) = p.at .. e.at - 1
           /\ \A o \in trail : Before(o, e) => o.at <= p.at
    BY SegmentIs
  <2>2. PICK g \in trail, q \in trail :
           /\ u = Gap(q, g) /\ q = LastRow(Precede(g))
           /\ q.at \in Nat /\ g.at \in Nat /\ q.at < g.at
           /\ Stretch(u) = q.at .. g.at - 1
           /\ \A o \in trail : Before(o, g) => o.at <= q.at
    BY SegmentIs
  <2>3. e # g
    BY <2>1, <2>2
  <2>4. e.at <= q.at \/ g.at <= p.at
    BY <2>1, <2>2, <2>3 DEF TrailInv
  <2>5. I[s] = p.at .. e.at - 1 /\ I[u] = q.at .. g.at - 1
    BY <2>1, <2>2
  <2> QED
    BY <2>1, <2>2, <2>4, <2>5
<1>4. \A t \in A : \E s \in here : t \in I[s]
  <2> SUFFICES ASSUME NEW t \in A PROVE \E s \in here : t \in I[s]
    OBVIOUS
  <2>1. t \in Nat /\ Submitted0 <= t /\ t < Latest(trail).at /\ heldAt(t) = status
    BY <1>0, <1>1
  <2>2. PICK after : after = {o \in trail : t < o.at}
    OBVIOUS
  <2>3. PICK e \in after : \A o \in after : o = e \/ Before(e, o)
    <3>1. after \in SUBSET trail /\ after # {}
      BY <1>1, <2>1, <2>2
    <3>2. InLine(after)
      BY <3>1, TrailInLine
    <3> QED
      BY <3>1, <3>2, LineEnds
  <2>4. e \in trail /\ t < e.at
    BY <2>2, <2>3
  <2>5. Precede(e) # {}
    <3>1. PICK c \in trail : c.at = Submitted0
      BY DEF TrailInv
    <3>2. Before(c, e)
      BY <1>0, <2>1, <2>4, <3>1, BeforeStrict
    <3> QED
      BY <3>2 DEF Precede
  <2>6. PICK p : p = LastRow(Precede(e))
    OBVIOUS
  <2>7. p \in trail /\ Before(p, e) /\ (\A v \in Nat : p.at <= v /\ v < e.at => heldAt(v) = p.to)
    BY <2>4, <2>5, <2>6, HeldBetween
  <2>8. p.at <= t
    <3>1. CASE t < p.at
      <4>1. p = e \/ Before(e, p)
        BY <2>2, <2>3, <2>7, <3>1
      <4> QED
        BY <1>0, <2>4, <2>7, <4>1, BeforeStrict
    <3> QED
      BY <1>0, <2>1, <2>7, <3>1
  <2>9. PICK s : s = Gap(p, e)
    OBVIOUS
  <2>10. s.row = e /\ s.status = p.to /\ s.ms = e.at - p.at
    BY <2>9 DEF Gap
  <2>11. s \in dwellSegments
    <3>1. s.ms > 0
      BY <1>0, <2>1, <2>4, <2>7, <2>8, <2>10
    <3> QED
      BY <2>4, <2>5, <2>6, <2>9, <3>1 DEF dwellSegments
  <2>12. s \in here
    BY <2>1, <2>4, <2>7, <2>8, <2>10, <2>11
  <2>13. t \in Stretch(s)
    BY <1>0, <2>1, <2>4, <2>7, <2>8, <2>10 DEF Stretch
  <2> QED
    BY <2>12, <2>13
<1> QED
  BY <1>2, <1>3, <1>4 DEF Parts

\* The dwell report gives each station the time the ticket stood there.
LEMMA DwellIsTold ==
  ASSUME ClockInv, TrailInv
  PROVE  DwellTold
<1> SUFFICES ASSUME \A n \in trail : n.event = "note" => n.to = heldAt(n.at), NEW status
             PROVE  dwellCell(status).total =
                      Cardinality({t \in Latest({e \in trail : e.event = "created"}).at ..
                                           Latest(trail).at - 1 : heldAt(t) = status})
  BY DEF DwellTold
<1>1. Latest({e \in trail : e.event = "created"}).at = Submitted0
  <2>1. PICK created : created = {e \in trail : e.event = "created"}
    OBVIOUS
  <2>2. created # {} /\ \A e \in created : e.at = Submitted0 /\ e.at \in Nat
    BY <2>1 DEF TrailInv, ClockInv, ClockTypes, IsEntry
  <2>3. IsFiniteSet(created)
    <3>1. created \in SUBSET trail /\ IsFiniteSet(trail)
      BY <2>1 DEF ClockInv, ClockTypes
    <3> QED
      BY <3>1, FS_Subset
  <2>4. Latest(created) \in created
    BY <2>2, <2>3, LatestExists
  <2> QED
    BY <2>1, <2>2, <2>4
<1>2. PICK here : here = {s \in dwellSegments : s.status = status}
  OBVIOUS
<1>3. PICK A : A = {t \in Submitted0 .. Latest(trail).at - 1 : heldAt(t) = status}
  OBVIOUS
<1>4. PICK I, f : I = [s \in here |-> Stretch(s)] /\ f = [s \in here |-> s.ms]
  OBVIOUS
<1>5. Parts(A, here, I, f)
  BY <1>2, <1>3, <1>4, SegmentsArePieces
<1>6. IsFiniteSet(here)
  <2>1. PICK made : made = [e \in trail |-> Gap(LastRow(Precede(e)), e)]
    OBVIOUS
  <2>2. PICK all : all = {made[e] : e \in trail}
    OBVIOUS
  <2>3. made \in Surjection(trail, all) /\ IsFiniteSet(trail)
    BY <2>1, <2>2 DEF Surjection, ClockInv, ClockTypes
  <2>4. IsFiniteSet(all)
    BY <2>3, FS_Surjection
  <2>5. here \subseteq all
    BY <1>2, <2>1, <2>2 DEF dwellSegments
  <2> QED
    BY <2>4, <2>5, FS_Subset
<1>7. DOMAIN f = here
  BY <1>4
<1>8. SumFunction(f) = Cardinality(A)
  <2>1. SumFrom(f, here)[here] = Cardinality(A)
    BY <1>5, <1>6, SumOfSizes
  <2> QED
    BY <1>7, <2>1, SumIsFold
<1>9. dwellCell(status).total = SumFunction(f)
  BY <1>2, <1>4 DEF dwellCell
<1> QED
  BY <1>1, <1>3, <1>8, <1>9

-----------------------------------------------------------------------------
\* The clock every board and scan reads has run the working days since the station was
\* entered, but for those that a pause opened there stopped it over, each once: for any
\* calendar, any flow, and however many pauses, whatever their windows overlap.
THEOREM ChargesWhatPassed == Spec => []ChargedDays
<1> QED
  BY ClockInvInit, ClockInvStep, PauseInvInit, PauseInvStep, ChargedNow, PTL DEF Spec

\* The console's reports agree with what happened to the ticket: the dwell report with
\* where it stood, the weekly one with what was cleared and is still, the list of open
\* pauses with the stations, and the overdue count with the clock that a pause stopped.
THEOREM ReportsAreTrue == Spec => []ReportsTrue
<1>1. ClockInv /\ TrailInv /\ DoneInv /\ PauseInv /\ PausesTold => ReportsTrue
  BY DwellIsTold, ClearedAdds, StoppedStays DEF ReportsTrue
<1> QED
  BY <1>1, ClockInvInit, ClockInvStep, TrailInvInit, TrailInvStep, DoneInvInit, DoneInvStep,
     PauseInvInit, PauseInvStep, OpenPausesAreTold, PTL DEF Spec

-----------------------------------------------------------------------------
(***************************************************************************)
(* Types.                                                                  *)
(***************************************************************************)
TypedRow(x) == /\ x.status \in Status /\ x.holder \in {NoOne, Alice, Dana} /\ x.applicant = Alice
               /\ x.round \in 0 .. MaxRound

TypedTime == now \in Nat /\ FirstDay * PerDay <= now /\ civilDay(now) <= LastDay
TypedTrail == \A e \in trail : {e.from, e.to} \subseteq Status
TypedPauses == /\ \A p \in pauses : p.from < now /\ (p.to = Open \/ p.to \in p.from .. now)
               /\ \A p, q \in OpenPause : p = q

\* The user has one request under way at most, and a note names a status.
TypedRequests == /\ \A r, q \in requests : r.kind # "scan" /\ q.kind # "scan" => r = q
                 /\ \A r \in requests : r.kind = "note" => r.status \in Status

TypeInv == TypedTime /\ TypedRow(row) /\ TypedTrail /\ TypedPauses /\ TypedRequests

\* Edges lead from status to status; an automatic return leads to the applicant and
\* counts no round.
LEMMA EdgesTyped ==
  \A e \in Edges : /\ e.from \in Status /\ e.to \in Status
                   /\ e.event = "auto_return" => e.to = "ReturnFixing" /\ ~e.heavy
BY DEF Edges, SharedEdges, GeneralEdges, ContractEdges, PaymentEdges, Plain, Reversible,
       HeavyReturn, EdgeOf, Status

\* Who holds a ticket that somebody has moved.
LEMMA HolderTyped ==
  ASSUME NEW to, NEW user, NEW role, user \in {Alice, Dana} \/ to = "ReturnFixing"
  PROVE  DeriveHolder(to, Alice, user, role) \in {NoOne, Alice, Dana}
BY DEF DeriveHolder, StateOwner, Terminal

\* A transition makes a typed row of one, within the rounds it is guarded by.
LEMMA TransitionTyped ==
  ASSUME NEW x, IsRow(x), TypedRow(x), NEW event, NEW user, NEW role,
         user \in {Alice, Dana} \/ event = "auto_return",
         NEW next \in Transition(x, event, user, role)
  PROVE  /\ IsRow(next)
         /\ next.round <= MaxRound \/ event = "auto_return" => TypedRow(next)
         /\ event = "sendBack" \/ next.round = x.round
<1>1. PICK e \in FindEdge(x.status, event, x.flow) :
        next = [x EXCEPT !.status = e.to, !.holder = DeriveHolder(e.to, x.applicant, user, role),
                         !.round  = IF e.heavy THEN @ + 1 ELSE @,
                         !.last   = [event |-> event, from |-> x.status]]
  BY DEF Transition
<1>2. e \in Edges /\ e.event = event
  BY <1>1 DEF FindEdge
<1>3. /\ e.to \in Status /\ (event = "auto_return" => e.to = "ReturnFixing" /\ ~e.heavy)
      /\ e.heavy => event = "sendBack"
  <2>1. \A g \in Edges : g.heavy => g.event = "sendBack"
    BY DEF Edges, SharedEdges, GeneralEdges, ContractEdges, PaymentEdges, Plain, Reversible,
           HeavyReturn, EdgeOf
  <2> QED
    BY <1>2, <2>1, EdgesTyped
<1>4. /\ next.status = e.to /\ next.holder = DeriveHolder(e.to, Alice, user, role)
      /\ next.applicant = Alice
      /\ next.round = IF e.heavy THEN x.round + 1 ELSE x.round
      /\ IsRow(next)
  BY <1>1 DEF IsRow, TypedRow
<1>5. next.holder \in {NoOne, Alice, Dana}
  BY <1>3, <1>4, HolderTyped
<1>6. MaxRound \in Nat
  BY SlaBoundAssumption
<1> QED
  BY <1>3, <1>4, <1>5, <1>6 DEF TypedRow

\* So does an undo.
LEMMA UndoTyped ==
  ASSUME ClockInv, TypedRow(row), NEW target, NEW next \in UndoTransition(row, target, Dana, "DCC1")
  PROVE  IsRow(next) /\ TypedRow(next)
<1>1. IsRow(row)
  BY DEF ClockInv, ClockTypes
<1>2. PICK e \in FindEdge(target.from, target.event, row.flow) :
        next = [row EXCEPT !.status = target.from,
                           !.holder = DeriveHolder(target.from, row.applicant, Dana, "DCC1"),
                           !.last   = [event |-> "undo", from |-> row.status]]
  BY DEF UndoTransition
<1>3. target.from \in Status
  BY <1>2, EdgesTyped DEF FindEdge
<1>4. /\ next.status = target.from /\ next.holder = DeriveHolder(target.from, Alice, Dana, "DCC1")
      /\ next.applicant = Alice /\ next.round = row.round /\ IsRow(next)
  BY <1>1, <1>2 DEF IsRow, TypedRow
<1> QED
  BY <1>3, <1>4, HolderTyped DEF TypedRow

\* A move that stores a typed row.
LEMMA MoveTyped ==
  ASSUME TypedRow(row), TypedTrail, NEW next, IsRow(next), TypedRow(next), NEW event, NEW entered, NEW at,
         MoveTo(next, event, entered, at)
  PROVE  TypedRow(row') /\ TypedTrail'
<1>1. PICK e : e = Entry(at, event, row.status, next.status, row.enteredAt)
  OBVIOUS
<1>2. trail' = trail \cup {e} /\ e.from = row.status /\ e.to = next.status
  BY <1>1 DEF MoveTo, Entry
<1>3. TypedTrail'
  BY <1>2 DEF TypedTrail, TypedRow
<1>4. TypedRow(row')
  BY DEF MoveTo, TypedRow, IsRow
<1> QED
  BY <1>3, <1>4

\* Every step leaves a typed row and a typed trail.
LEMMA RowStaysTyped ==
  ASSUME ClockInv, TypeInv, [Next]_vars
  PROVE  TypedRow(row') /\ TypedTrail'
<1>0. IsRow(row) /\ TypedRow(row) /\ TypedTrail
  BY DEF ClockInv, ClockTypes, TypeInv
<1>1. ASSUME NEW event, Act(event) PROVE TypedRow(row') /\ TypedTrail'
  <2>1. PICK role \in Role : \E next \in Transition(row, event, UserOf(role), role) :
          next.round <= MaxRound /\ MoveTo(next, event, now, now)
    BY <1>1 DEF Act
  <2>2. PICK next \in Transition(row, event, UserOf(role), role) :
          next.round <= MaxRound /\ MoveTo(next, event, now, now)
    BY <2>1
  <2>3. UserOf(role) \in {Alice, Dana}
    BY DEF UserOf
  <2>4. IsRow(next) /\ TypedRow(next)
    BY <1>0, <2>2, <2>3, TransitionTyped
  <2> QED
    BY <1>0, <2>2, <2>4, MoveTyped
<1>2. CASE Reopen
  <2>1. PICK mid \in Transition(row, "reopen", Dana, "DCC1") :
          \E next \in Transition(mid, "sendBack", Dana, "DCC1") :
            /\ next.round <= MaxRound
            /\ row' = [next EXCEPT !.enteredAt = now]
            /\ trail' = trail \cup {Entry(now, "reopen", row.status, mid.status, row.enteredAt),
                                    Entry(now, "sendBack", mid.status, next.status, now)}
    BY <1>2 DEF Reopen
  <2>2. PICK next \in Transition(mid, "sendBack", Dana, "DCC1") :
            /\ next.round <= MaxRound
            /\ row' = [next EXCEPT !.enteredAt = now]
            /\ trail' = trail \cup {Entry(now, "reopen", row.status, mid.status, row.enteredAt),
                                    Entry(now, "sendBack", mid.status, next.status, now)}
    BY <2>1
  <2>3. IsRow(mid) /\ TypedRow(mid)
    <3>1. row.round <= MaxRound
      BY <1>0, SlaBoundAssumption DEF TypedRow
    <3>2. mid.round = row.round /\ IsRow(mid) /\ (mid.round <= MaxRound => TypedRow(mid))
      BY <1>0, TransitionTyped
    <3> QED
      BY <3>1, <3>2
  <2>4. IsRow(next) /\ TypedRow(next)
    BY <2>2, <2>3, TransitionTyped
  <2>5. PICK e, f : /\ e = Entry(now, "reopen", row.status, mid.status, row.enteredAt)
                    /\ f = Entry(now, "sendBack", mid.status, next.status, now)
    OBVIOUS
  <2>6. /\ trail' = trail \cup {e, f}
        /\ e.from = row.status /\ e.to = mid.status /\ f.from = mid.status /\ f.to = next.status
    BY <2>2, <2>5 DEF Entry
  <2>7. TypedTrail'
    BY <1>0, <2>3, <2>4, <2>6 DEF TypedTrail, TypedRow
  <2>8. TypedRow(row')
    BY <2>2, <2>4 DEF TypedRow, IsRow
  <2> QED
    BY <2>7, <2>8
<1>3. ASSUME NEW r \in requests, NoteCommit(r) PROVE TypedRow(row') /\ TypedTrail'
  <2>1. PICK e : e = Entry(now, "note", r.status, r.status, row.enteredAt)
    OBVIOUS
  <2>2. trail' = trail \cup {e} /\ row' = row /\ e.from = r.status /\ e.to = r.status /\ r.kind = "note"
    BY <1>3, <2>1 DEF NoteCommit, Entry
  <2> QED
    BY <1>0, <2>2 DEF TypeInv, TypedRequests, TypedTrail
<1>4. ASSUME NEW r \in requests, UndoCommit(r) PROVE TypedRow(row') /\ TypedTrail'
  <2>1. PICK next \in UndoTransition(row, r.target, Dana, "DCC1") : MoveTo(next, "undo", r.prior, r.at)
    BY <1>4 DEF UndoCommit
  <2> QED
    BY <1>0, <2>1, UndoTyped, MoveTyped
<1>5. ASSUME NEW r \in requests, AutoReturn(r) PROVE TypedRow(row') /\ TypedTrail'
  <2>1. PICK next \in Transition(row, "auto_return", System, "DCC1") : MoveTo(next, "auto_return", r.at, r.at)
    BY <1>5 DEF AutoReturn
  <2>2. IsRow(next) /\ TypedRow(next)
    BY <1>0, TransitionTyped
  <2> QED
    BY <1>0, <2>1, <2>2, MoveTyped
<1>6. CASE UNCHANGED <<row, trail>>
  BY <1>0, <1>6 DEF TypedTrail
<1>7. \/ \E event : Act(event)
      \/ Reopen
      \/ \E r \in requests : NoteCommit(r) \/ UndoCommit(r) \/ AutoReturn(r)
      \/ UNCHANGED <<row, trail>>
  BY DEF Next, User, Scans, Serve, NextDay, NoteBegin, UndoBegin, PauseBegin, Resume, PoolScan,
         EscalationScan, ReminderScan, PauseCommit, Refused, vars
<1> QED
  BY <1>1, <1>2, <1>3, <1>4, <1>5, <1>6, <1>7

\* Time does not leave its days.
LEMMA TimeStaysTyped ==
  ASSUME TypeInv, [Next]_vars
  PROVE  TypedTime'
<1>0. PerDay \in Nat \ {0} /\ LastDay \in Nat /\ FirstDay \in Nat
  BY PerDayAssumption, SlaBoundAssumption
<1>1. now \in Nat /\ FirstDay * PerDay <= now /\ civilDay(now) <= LastDay /\ civilDay(now) \in Nat
  BY DayGrows DEF TypeInv, TypedTime
<1>2. CASE NextDay
  <2>1. now' = (civilDay(now) + 1) * PerDay /\ civilDay(now) < LastDay
    BY <1>2 DEF NextDay
  <2>2. now' \in Nat /\ now < now'
    BY <1>1, <2>1, NextDayLater
  <2>3. civilDay(now') = civilDay(now) + 1
    <3>1. PICK k \in Nat : k = civilDay(now) + 1
      BY <1>1
    <3>2. PICK z \in Nat : z = 0 /\ civilDay(z) = 0
      BY <1>0 DEF civilDay
    <3>3. civilDay(z + k * PerDay) = civilDay(z) + k
      BY DayAdds
    <3>4. z + k * PerDay = now'
      BY <1>0, <2>1, <3>1, <3>2
    <3> QED
      BY <3>1, <3>2, <3>3, <3>4
  <2>4. FirstDay * PerDay \in Nat
    BY <1>0
  <2> QED
    BY <1>0, <1>1, <2>1, <2>2, <2>3, <2>4 DEF TypedTime
<1>3. CASE Stamp
  <2>1. FirstDay * PerDay \in Nat
    BY <1>0
  <2> QED
    BY <1>1, <1>3, <2>1 DEF Stamp, TypedTime
<1>4. CASE now' = now
  BY <1>1, <1>4 DEF TypedTime
<1>5. NextDay \/ Stamp \/ now' = now
  BY DEF Next, User, Scans, Serve, Act, Reopen, NoteBegin, UndoBegin, PauseBegin, Resume, PoolScan,
         EscalationScan, ReminderScan, NoteCommit, UndoCommit, PauseCommit, AutoReturn, Refused, vars
<1> QED
  BY <1>2, <1>3, <1>4, <1>5

\* At most one pause is open, and none outruns the clock.
LEMMA PausesStayTyped ==
  ASSUME ClockInv, PauseInv, TypeInv, [Next]_vars
  PROVE  TypedPauses'
<1>0. /\ now \in Nat /\ now' \in Nat /\ now <= now'
      /\ \A p \in pauses : /\ IsPause(p) /\ p.from \in Nat /\ p.from < now
                           /\ p.to = Open \/ p.to \in p.from .. now
      /\ \A p, q \in OpenPause : p = q
  BY TimeGoesOn DEF TypeInv, TypedPauses, PauseInv, IsWindow
<1>1. CASE pauses' = pauses
  <2>1. \A p \in pauses : p.from < now' /\ (p.to = Open \/ p.to \in p.from .. now')
    BY <1>0
  <2> QED
    BY <1>0, <1>1, <2>1 DEF TypedPauses, OpenPause
<1>2. CASE pauses' = ClosePause(pauses, now)
  <2> DEFINE close(p) == IF p.to = Open THEN [p EXCEPT !.to = now] ELSE p
  <2>1. pauses' = {close(p) : p \in pauses}
    BY <1>2 DEF ClosePause
  <2>2. \A p \in pauses : /\ close(p).from = p.from
                          /\ close(p).to = IF p.to = Open THEN now ELSE p.to
    BY <1>0 DEF IsPause
  <2>3. \A p \in pauses : /\ close(p).from < now'
                          /\ close(p).to = Open \/ close(p).to \in close(p).from .. now'
    BY <1>0, <2>2
  <2>4. \A p \in pauses : close(p).to = Open => p.to = Open
    BY <2>2
  <2> HIDE DEF close
  <2>5. \A p, q \in pauses : close(p).to = Open /\ close(q).to = Open => close(p) = close(q)
    BY <1>0, <2>4 DEF OpenPause
  <2> QED
    BY <2>1, <2>3, <2>5 DEF TypedPauses, OpenPause
<1>3. \/ pauses' = pauses
      \/ pauses' = ClosePause(pauses, now)
      \/ \E r \in requests : PauseCommit(r)
  BY DEF Next, User, Scans, Serve, NextDay, Act, Reopen, NoteBegin, UndoBegin, PauseBegin, Resume,
         PoolScan, EscalationScan, ReminderScan, NoteCommit, UndoCommit, AutoReturn, Refused, MoveTo, vars
<1>4. ASSUME NEW r \in requests, PauseCommit(r) PROVE TypedPauses'
  <2>1. PICK n : n = [from |-> now, to |-> Open, station |-> r.station]
    OBVIOUS
  <2>2. /\ pauses' = pauses \cup {n} /\ n.from = now /\ n.to = Open /\ OpenPause = {} /\ now' = now + 1
    BY <1>4, <2>1 DEF PauseCommit, Stamp
  <2>3. \A p \in pauses : p.from < now' /\ p.to # Open /\ p.to \in p.from .. now'
    BY <1>0, <2>2 DEF OpenPause
  <2>4. n.from < now' /\ n.to = Open
    BY <1>0, <2>2
  <2> QED
    BY <2>2, <2>3, <2>4 DEF TypedPauses, OpenPause
<1> QED
  BY <1>1, <1>2, <1>3, <1>4

\* A user begins a request when none of his is under way.
LEMMA RequestsStayTyped ==
  ASSUME TypeInv, [Next]_vars
  PROVE  TypedRequests'
<1>0. TypedRequests /\ row.status \in Status
  BY DEF TypeInv, TypedRow
<1>1. ASSUME NEW n, requests' = requests \cup {n}, \A r \in requests : r.kind = "scan",
             n.kind = "note" => n.status \in Status
      PROVE  TypedRequests'
  BY <1>0, <1>1 DEF TypedRequests
<1>2. CASE NoteBegin
  <2>1. PICK n : n = [kind |-> "note", status |-> row.status]
    OBVIOUS
  <2>2. requests' = requests \cup {n} /\ n.status \in Status /\ \A r \in requests : r.kind = "scan"
    BY <1>0, <1>2, <2>1 DEF NoteBegin, Begin, Idle
  <2> QED
    BY <1>1, <2>2
<1>3. CASE PauseBegin \/ UndoBegin
  <2>1. PICK n : requests' = requests \cup {n} /\ n.kind # "note"
    <3>1. CASE PauseBegin
      <4>1. PICK n : n = [kind |-> "pause", station |-> row.status]
        OBVIOUS
      <4>2. requests' = requests \cup {n} /\ n.kind # "note"
        BY <3>1, <4>1 DEF PauseBegin, Begin
      <4> QED
        BY <4>2
    <3>2. CASE UndoBegin
      <4>1. PICK last : last = lastTransitionEvent
        OBVIOUS
      <4>2. PICK n : n = [kind |-> "undo", at |-> now, moved |-> last.at,
                          target |-> [event |-> last.event, from |-> last.from],
                          since |-> last.since, prior |-> priorStatusEnteredAt(last)]
        OBVIOUS
      <4>3. requests' = requests \cup {n} /\ n.kind # "note"
        BY <3>2, <4>1, <4>2 DEF UndoBegin, Begin
      <4> QED
        BY <4>3
    <3> QED
      BY <1>3, <3>1, <3>2
  <2>2. \A r \in requests : r.kind = "scan"
    BY <1>3 DEF PauseBegin, UndoBegin, Idle
  <2> QED
    BY <1>1, <2>1, <2>2
<1>4. CASE PoolScan
  <2>1. PICK n : n = [kind |-> "scan", at |-> now]
    OBVIOUS
  <2>2. requests' = requests \cup {n} /\ n.kind = "scan"
    BY <1>4, <2>1 DEF PoolScan, Begin
  <2> QED
    BY <1>0, <2>2 DEF TypedRequests
<1>5. CASE requests' \subseteq requests
  BY <1>0, <1>5 DEF TypedRequests
<1>6. NoteBegin \/ PauseBegin \/ UndoBegin \/ PoolScan \/ requests' \subseteq requests
  BY DEF Next, User, Scans, Serve, NextDay, Act, Reopen, Resume, EscalationScan, ReminderScan,
         NoteCommit, UndoCommit, PauseCommit, AutoReturn, Refused, Finish, vars
<1> QED
  BY <1>2, <1>3, <1>4, <1>5, <1>6

\* The types hold at first.
LEMMA TypeInvInit == SlaInit => TypeInv
<1> SUFFICES ASSUME SlaInit PROVE TypeInv
  OBVIOUS
<1>0. PerDay \in Nat \ {0} /\ LastDay \in Nat /\ FirstDay \in Nat /\ FirstDay < LastDay /\ MaxRound \in Nat
  BY PerDayAssumption, SlaBoundAssumption
<1>1. TypedTime
  <2>1. now = FirstDay * PerDay + 1 /\ FirstDay * PerDay \in Nat
    BY <1>0 DEF SlaInit
  <2>2. civilDay(1 + FirstDay * PerDay) = civilDay(1) + FirstDay
    BY <1>0, DayAdds
  <2>3. civilDay(1) <= 1 /\ civilDay(1) \in Nat
    BY <1>0 DEF civilDay
  <2>4. 1 + FirstDay * PerDay = now
    BY <2>1
  <2> QED
    BY <1>0, <2>1, <2>2, <2>3, <2>4 DEF TypedTime
<1>2. TypedRow(row)
  BY <1>0 DEF SlaInit, TypedRow, Status
<1>3. TypedTrail
  BY DEF SlaInit, TypedTrail, Entry, Status
<1>4. TypedPauses /\ TypedRequests
  BY DEF SlaInit, TypedPauses, TypedRequests, OpenPause
<1> QED
  BY <1>1, <1>2, <1>3, <1>4 DEF TypeInv

\* A set whose elements are all the same has at most one.
LEMMA AtMostOne ==
  ASSUME NEW S, \A a, b \in S : a = b
  PROVE  Cardinality(S) <= 1
<1>1. CASE S = {}
  BY <1>1, FS_EmptySet
<1>2. CASE S # {}
  <2>1. PICK a : a \in S
    BY <1>2
  <2>2. S = {a}
    BY <2>1
  <2>3. Cardinality({a}) = 1
    BY FS_Singleton, Zenon
  <2> QED
    BY <2>2, <2>3
<1> QED
  BY <1>1, <1>2

\* What the invariants say of the types.
LEMMA TypesHold ==
  ASSUME ClockInv, PauseInv, TypeInv
  PROVE  TypeOK
<1>0. PerDay \in Nat \ {0} /\ LastDay \in Nat /\ FirstDay \in Nat
  BY PerDayAssumption, SlaBoundAssumption
<1>1. now \in FirstDay * PerDay .. (LastDay + 1) * PerDay
  <2>1. now \in Nat /\ FirstDay * PerDay <= now /\ civilDay(now) <= LastDay /\ civilDay(now) \in Nat
    BY DayGrows DEF TypeInv, TypedTime
  <2>2. now < (civilDay(now) + 1) * PerDay
    BY <2>1, NextDayLater
  <2>3. (civilDay(now) + 1) * PerDay <= (LastDay + 1) * PerDay
    <3>1. PICK k \in Nat : k = LastDay - civilDay(now)
      BY <1>0, <2>1
    <3>2. PICK n \in Nat : n = civilDay(now) + 1
      BY <2>1
    <3>3. LastDay + 1 = n + k
      BY <1>0, <2>1, <3>1, <3>2
    <3>4. (n + k) * PerDay = n * PerDay + k * PerDay /\ k * PerDay \in Nat /\ n * PerDay \in Nat
      BY <1>0, SMTT(30)
    <3> QED
      BY <3>2, <3>3, <3>4
  <2>4. FirstDay * PerDay \in Nat /\ (LastDay + 1) * PerDay \in Nat /\ (civilDay(now) + 1) * PerDay \in Nat
    BY <1>0, <2>1
  <2> QED
    BY <2>1, <2>2, <2>3, <2>4
<1>2. row.enteredAt \in 0 .. now
  <2>1. row.enteredAt \in Nat /\ now \in Nat
    BY DEF ClockInv, ClockTypes, IsRow
  <2>2. PICK l \in trail : row.enteredAt <= l.at /\ l.at < now
    BY DEF ClockInv, ClockOfARow, Arrived
  <2>3. l.at \in Nat
    BY DEF ClockInv, ClockTypes, IsEntry
  <2> QED
    BY <2>1, <2>2, <2>3
<1>3. \A e \in trail : e.at \in 0 .. now /\ {e.from, e.to} \subseteq Status
  BY DEF ClockInv, ClockTypes, IsEntry, TypeInv, TypedTrail
<1>4. Cardinality(OpenPause) <= 1
  <2>1. \A p, q \in OpenPause : p = q
    BY DEF TypeInv, TypedPauses
  <2> QED
    BY <2>1, AtMostOne, Zenon
<1>5. Cardinality({r \in requests : r.kind # "scan"}) <= 1
  <2>1. \A r, q \in {r \in requests : r.kind # "scan"} : r = q
    BY DEF TypeInv, TypedRequests
  <2> QED
    BY <2>1, AtMostOne, Zenon
<1> QED
  BY <1>1, <1>2, <1>3, <1>4, <1>5 DEF TypeOK, TypeInv, TypedRow, TypedPauses

\* Types hold: the clock stays in its days, a pause ends after it began, at most one is
\* open although its request read that none was before it was written, and a user has
\* one request under way.
THEOREM SlaTypeCorrect == Spec => []TypeOK
<1>1. ClockInv /\ PauseInv /\ TypeInv /\ [Next]_vars => TypeInv'
  BY RowStaysTyped, TimeStaysTyped, PausesStayTyped, RequestsStayTyped DEF TypeInv
<1> QED
  BY <1>1, TypesHold, TypeInvInit, ClockInvInit, ClockInvStep, PauseInvInit, PauseInvStep, PTL DEF Spec
=============================================================================
