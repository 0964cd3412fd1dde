------------------------------- MODULE Lookup -------------------------------
(***************************************************************************)
(* The lookup of closed tickets: one user searches, pages on and reopens   *)
(* while other users close and reopen tickets.  A page continues strictly  *)
(* below the (closed-at, id) of the last row seen; answers may be late.    *)
(***************************************************************************)
EXTENDS Naturals, FiniteSets, SequencesExt

CONSTANTS Ids,         \* ids of tickets, in their order
          Narrow,      \* those a narrower search finds
          PageSize,    \* DEFAULT_LIMIT
          LastInstant, \* bound: instants of the clock
          MaxCalls,    \* bound: calls of the user
          MaxBack      \* bound: reopenings by others

ASSUME LookupAssumption == /\ Ids \subseteq Nat \ {0} /\ IsFiniteSet(Ids)
                           /\ Narrow \subseteq Ids
                           /\ {PageSize, LastInstant} \subseteq Nat \ {0}
                           /\ {MaxCalls, MaxBack} \subseteq Nat

VARIABLES instant,
          closedAt, \* closedAt[i]: statusEnteredAt of a closed ticket; 0: not closed
          rows,     \* the rows shown, a sequence of tickets
          cursor,   \* the key the next page continues below; or Top, Bottom
          activeQ,  \* the search "load more" continues
          busy,     \* a search submitted is under way
          more,     \* a "load more" is under way
          calls,    \* calls under way
          steady,   \* tickets closed since the first of the pages shown was read
          mixed,    \* the pages shown are of more than one list
          issued, back

lookupVars == <<instant, closedAt, rows, cursor, activeQ, busy, more, calls, steady,
                mixed, issued, back>>

Query == {"all", "narrow"}
Found(q) == IF q = "all" THEN Ids ELSE Narrow

Top == <<LastInstant + 1, 0>>  \* no cursor given: the first page
Bottom == <<0, 0>>             \* nextCursor null: no more pages

Key(i) == <<closedAt[i], i>>

\* Fault: the keyset without its tie break.
BelowInTime(a, b) == a[1] < b[1]

\* Strictly before, in the order (statusEnteredAt, id).
Below(a, b) == a[1] < b[1] \/ (a[1] = b[1] /\ a[2] < b[2])

ClosedTickets == {i \in Ids : closedAt[i] > 0}

\* orderBy: the place of ticket i among those of S, the last closed first and the
\* higher id first of those closed at one instant.
Place(i, S) == Cardinality({j \in S : \/ closedAt[j] > closedAt[i]
                                      \/ closedAt[j] = closedAt[i] /\ j >= i})

\* searchClosed: a page, and where the next continues.
SearchClosed(q, from) ==
  LET matching == {i \in ClosedTickets \cap Found(q) : Below(Key(i), from)}
      hasMore == Cardinality(matching) > PageSize
      shown == IF hasMore THEN PageSize ELSE Cardinality(matching)
      items == [p \in 1..shown |-> CHOOSE i \in matching : Place(i, matching) = p]
  IN  [items |-> items, next |-> IF hasMore THEN Key(items[PageSize]) ELSE Bottom]

NoPage == [items |-> <<>>, next |-> Top]
Call(kind, q, from) == [kind |-> kind, q |-> q, from |-> from, read |-> FALSE,
                        page |-> NoPage, steady |-> {}, late |-> FALSE]

LookupInit == /\ instant = 1
              /\ closedAt \in [Ids -> 0..1]
              /\ rows = <<>> /\ cursor = Bottom /\ activeQ = "all"
              /\ busy = FALSE /\ more = FALSE
              /\ calls = {Call("default", "all", Top)}
              /\ steady = {} /\ mixed = FALSE /\ issued = 0 /\ back = 0

-----------------------------------------------------------------------------
(***************************************************************************)
(* The tickets.                                                            *)
(***************************************************************************)
List == <<rows, cursor, activeQ, mixed>>
Counted == <<issued, back>>

Tick == /\ instant < LastInstant
        /\ instant' = instant + 1
        /\ UNCHANGED <<closedAt, List, busy, more, calls, steady, Counted>>

CloseTicket(i) == /\ closedAt[i] = 0
                  /\ closedAt' = [closedAt EXCEPT ![i] = instant]
                  /\ UNCHANGED <<instant, List, busy, more, calls, steady, Counted>>

\* reopen: the ticket leaves the closed ones, to be closed again later.
Reopened(i) == /\ closedAt' = [closedAt EXCEPT ![i] = 0]
               /\ steady' = steady \ {i}

ReopenElsewhere(i) == /\ closedAt[i] > 0 /\ back < MaxBack /\ back' = back + 1
                      /\ Reopened(i)
                      /\ calls' = {[c EXCEPT !.steady = @ \ {i}] : c \in calls}
                      /\ UNCHANGED <<instant, List, busy, more, issued>>

-----------------------------------------------------------------------------
(***************************************************************************)
(* The tab.                                                                *)
(***************************************************************************)
Issue(call) == issued < MaxCalls /\ issued' = issued + 1 /\ UNCHANGED back /\ calls' = calls \cup {call}

\* run: the button is disabled while a search is under way.
Run(q) == /\ ~busy /\ busy' = TRUE
          /\ Issue(Call("run", q, Top))
          /\ UNCHANGED <<instant, closedAt, List, more, steady>>

\* loadMore: guarded by "more" alone.
LoadMore == /\ cursor # Bottom /\ Len(rows) > 0 /\ ~more
            /\ more' = TRUE
            /\ Issue(Call("more", activeQ, cursor))
            /\ UNCHANGED <<instant, closedAt, List, busy, steady>>

\* doReopen: the reopening; its refresh is of the search active when it was issued.
DoReopen(i) ==
  /\ i \in ToSet(rows) /\ closedAt[i] > 0
  /\ issued < MaxCalls /\ issued' = issued + 1 /\ UNCHANGED back
  /\ Reopened(i)
  /\ calls' = {[c EXCEPT !.steady = @ \ {i}] : c \in calls}
                \cup {Call("refresh", activeQ, Top)}
  /\ UNCHANGED <<instant, List, busy, more>>

\* The server answers a call.
Answered(c) == /\ ~c.read
               /\ calls' = (calls \ {c}) \cup
                    {[c EXCEPT !.read = TRUE, !.page = SearchClosed(c.q, c.from),
                               !.steady = ClosedTickets]}
               /\ UNCHANGED <<instant, closedAt, List, busy, more, steady, Counted>>

\* A page appended to the rows that are there, whichever they are now.
AppendPage(c) ==
  /\ c.kind = "more" /\ c.read
  /\ rows' = rows \o c.page.items /\ cursor' = c.page.next
  /\ more' = FALSE
  /\ mixed' = (mixed \/ c.late)
  /\ calls' = calls \ {c}
  /\ UNCHANGED <<instant, closedAt, activeQ, busy, steady, Counted>>

\* A first page replaces them; only a search says which one it was.
Replace(c) ==
  /\ c.kind # "more" /\ c.read
  /\ rows' = c.page.items /\ cursor' = c.page.next
  /\ activeQ' = IF c.kind = "refresh" THEN activeQ ELSE c.q
  /\ busy' = IF c.kind = "run" THEN FALSE ELSE busy
  /\ steady' = c.steady
  /\ mixed' = (c.q # activeQ')
  /\ calls' = {IF d.kind = "more" THEN [d EXCEPT !.late = TRUE] ELSE d : d \in calls \ {c}}
  /\ UNCHANGED <<instant, closedAt, more, Counted>>

\* A call fails, with a toast; the default one can be tried again.
Fails(c) ==
  /\ issued < MaxCalls /\ issued' = issued + 1 /\ UNCHANGED back
  /\ busy' = IF c.kind = "run" THEN FALSE ELSE busy
  /\ more' = IF c.kind = "more" THEN FALSE ELSE more
  /\ calls' = (calls \ {c}) \cup
       (IF c.kind = "default" THEN {Call("default", "all", Top)} ELSE {})
  /\ UNCHANGED <<instant, closedAt, List, steady>>

LookupNext ==
  \/ Tick \/ LoadMore
  \/ \E i \in Ids : CloseTicket(i) \/ ReopenElsewhere(i) \/ DoReopen(i)
  \/ \E q \in Query : Run(q)
  \/ \E c \in calls : Answered(c) \/ AppendPage(c) \/ Replace(c) \/ Fails(c)

LookupSpec == LookupInit /\ [][LookupNext]_lookupVars
-----------------------------------------------------------------------------
\* Paging shows every match once: however tickets are closed and reopened between
\* the pages, also at one instant, the rows of one list never repeat a ticket, and
\* none that matches and stayed closed is missing above the cursor ("the id tie
\* break makes paging deterministic").  A page that arrives after another search
\* took its list's place is excepted: the code appends it all the same.
NothingSkipped ==
  \/ mixed
  \/ /\ Cardinality(ToSet(rows)) = Len(rows)
     /\ \A i \in steady \cap Found(activeQ) : Below(Key(i), cursor) \/ i \in ToSet(rows)
=============================================================================
