------------------------------ MODULE Reports -------------------------------
(***************************************************************************)
(* What the admin console derives from the audit trail and the pauses of   *)
(* SlaClock: dwell per station, throughput per week, open pauses and the   *)
(* running and overdue counts.  Nothing of it is stored.                   *)
(***************************************************************************)
EXTENDS SlaClock

CONSTANTS StaleDays,   \* STALE_PAUSE_DAYS
          ReportDays   \* WINDOW_DAYS of the pause report

\* ORDER BY occurred_at, id: one ticket, and only the two rows
\* of a reopening share an instant.
Before(a, b) == \/ a.at < b.at
                \/ a.at = b.at /\ a.event = "reopen" /\ b.event # "reopen"
Precede(e) == {o \in trail : Before(o, e)}
LastRow(rows) == CHOOSE p \in rows : \A o \in rows : o = p \/ Before(o, p)

\* Fault: a gap is attributed to the status it ended with.
GapAfter(p, e) == [row |-> e, status |-> e.to, ms |-> e.at - p.at]

\* The gap between two rows is time spent in the status the first of them names.
Gap(p, e) == [row |-> e, status |-> p.to, ms |-> e.at - p.at]

\* LAG over the trail: each row but the first, with the row before it.
dwellSegments ==
  {s \in {Gap(LastRow(Precede(e)), e) : e \in {x \in trail : Precede(x) # {}}} : s.ms > 0}

\* GROUP BY status, of which the heatmap shows the average.
dwellCell(status) ==
  LET here == {s \in dwellSegments : s.status = status}
  IN  [count |-> Cardinality(here), total |-> SumFunction([s \in here |-> s.ms])]

\* Weeks begin on a Monday, day 0.
periodKey(at) == civilDay(at) \div 7
DONE_STATUSES == {"Completed", "SentToAccounting"}
throughputBuckets ==
  [week \in {periodKey(e.at) : e \in trail} |->
     LET rows == {e \in trail : periodKey(e.at) = week}
     IN  [created |-> Cardinality({e \in rows : e.event = "created"}),
          completed |-> Cardinality({e \in rows : e.to \in DONE_STATUSES})]]

\* Every open pause however old; the stations, of the pauses begun in the window.
spanDays(p) == pausedBusinessDays({p}, now)
openPauses == {[status |-> p.station, days |-> spanDays(p), stale |-> spanDays(p) >= StaleDays] :
                 p \in OpenPause}
listForReport == {p \in pauses : p.from >= now - ReportDays * PerDay}
pausesByStation ==
  [status \in {p.station : p \in listForReport} |->
     LET here == {p \in listForReport : p.station = status}
     IN  [pauses |-> Cardinality(here), openNow |-> Cardinality(here \cap OpenPause),
          longest |-> CHOOSE n \in {spanDays(p) : p \in here} : \A p \in here : spanDays(p) <= n]]

\* summarizeLines and topOverdue, of one ticket.
Running == row.status \notin Terminal
summarizeLines == [running |-> IF Running THEN 1 ELSE 0,
                   overdue |-> IF Running /\ Late > 0 THEN 1 ELSE 0]
-----------------------------------------------------------------------------
\* Where the moves of the trail have the ticket at instant t.
Moves == {e \in trail : e.event # "note"}
heldAt(t) == LastRow({e \in Moves : e.at <= t}).to

\* The time the report gives a station is the time the ticket stood there, however
\* many notes cut it up and however late undos and returns were written, unless a
\* note names a station the ticket was not at when it was written.
DwellTold ==
  LET first == Latest({e \in trail : e.event = "created"}).at
      last  == Latest(trail).at
  IN  \/ \E e \in trail : e.event = "note" /\ e.to # heldAt(e.at)
      \/ \A s \in {e.to : e \in trail} :
           dwellCell(s).total = Cardinality({t \in first .. last-1 : heldAt(t) = s})

\* What was cleared was opened again or is closed still ("created" counts once, a
\* clearing once each time), unless somebody left a note on a closed ticket.
ClearedAddsUp ==
  LET weeks   == throughputBuckets
      sum(f)  == SumFunction([week \in DOMAIN weeks |-> weeks[week][f]])
      undone  == Cardinality({e \in Moves : e.from \in DONE_STATUSES})
  IN  /\ sum("created") = 1
      /\ \/ \E e \in trail : e.event = "note" /\ e.to \in DONE_STATUSES
         \/ sum("completed") - undone = IF row.status \in DONE_STATUSES THEN 1 ELSE 0

\* A pause the console lists as open stops the clock of the station it names, but
\* for one that was asked for there and written after the ticket had left.
PausesTold ==
  \A p \in openPauses :
    p.status = row.status \/ \E e \in trail : e.event \notin NotAMove /\ e.from = p.status

\* "Without this the console would call a ticket late that every other screen shows
\* as paused": a ticket that was in time when its clock was stopped is not counted
\* overdue while it stands.
StoppedNotLate ==
  \A p \in OpenPause :
    /\ p.from >= row.enteredAt
    /\ overdueDays(clockStart(row.enteredAt, pauses, p.from), Threshold, p.from) = 0
    => summarizeLines.overdue = 0

ReportsTrue == DwellTold /\ ClearedAddsUp /\ PausesTold /\ StoppedNotLate
=============================================================================
