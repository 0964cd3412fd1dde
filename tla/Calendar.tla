----------------------------- MODULE Calendar ------------------------------
(***************************************************************************)
(* The SLA arithmetic: business days, the paused time a clock forgives,    *)
(* the days a station is charged, and the escalation those days call for.  *)
(* An instant is a natural number; a civil day of the SLA zone holds       *)
(* PerDay of them, and days 5 and 6 of a week are its weekend.             *)
(***************************************************************************)
EXTENDS Integers, FiniteSets, SequencesExt, TicketMachine

CONSTANTS PerDay,        \* instants of one civil day
          Open,          \* resumed_at IS NULL
          WarnDays,      \* QLHS_ESCALATE_WARN_DAYS
          CriticalDays   \* QLHS_ESCALATE_CRITICAL_DAYS

ASSUME PerDayAssumption == PerDay \in Nat \ {0}

civilDay(t) == t \div PerDay
Working(d) == d % 7 \notin {5, 6}
isBusinessDay(t) == Working(civilDay(t))

\* Working days after the day of `from', up to the day of `to'.
businessDaysBetween(from, to) ==
  Cardinality({d \in civilDay(from)+1 .. civilDay(to) : Working(d)})

\* Fault: the SLA start is moved by calendar days.
AddCalendarDays(start, n) == start + n * PerDay

\* `n' working days later, at the same time of day.
addBusinessDays(start, n) ==
  LET day == civilDay(start)
      k == CHOOSE k \in 0 .. 2*n + 2 :
             /\ Cardinality({d \in day+1 .. day+k : Working(d)}) = n
             /\ k = 0 \/ Working(day + k)
  IN  start + k * PerDay

(***************************************************************************)
(* Pauses.  A window is [from, to], open while the clock is stopped.       *)
(***************************************************************************)
EndOf(w, now) == IF w.to = Open \/ w.to > now THEN now ELSE w.to

\* The windows that last, clamped at `now'.
spansOf(windows, now) ==
  {[from |-> w.from, end |-> EndOf(w, now)] : w \in {x \in windows : EndOf(x, now) > x.from}}

\* A span joins the block that reaches it, or closes that block and begins the next.
mergeSpan(s, acc) ==
  IF acc.any /\ s.from <= acc.end
    THEN [acc EXCEPT !.end = IF s.end > @ THEN s.end ELSE @]
    ELSE [any |-> TRUE, from |-> s.from, end |-> s.end,
          total |-> acc.total + businessDaysBetween(acc.from, acc.end)]

lastSpan(spans) == CHOOSE s \in spans : \A o \in spans : o.from <= s.from

\* Merged in the order they begin, so that a day two windows cover is forgiven once.
pausedBusinessDays(windows, now) ==
  LET merged == MapThenFoldSet(mergeSpan, [any |-> FALSE, from |-> 0, end |-> 0, total |-> 0],
                               LAMBDA s : s, lastSpan, spansOf(windows, now))
  IN  merged.total + businessDaysBetween(merged.from, merged.end)

\* windowsFor: what was paused before this station was entered is dropped.
windowsFor(pauses, enteredAt) == {w \in pauses : w.from >= enteredAt}

effectiveEnteredAt(enteredAt, windows, now) ==
  LET scoped == {[w EXCEPT !.from = IF @ < enteredAt THEN enteredAt ELSE @] :
                   w \in windows}
  IN  addBusinessDays(enteredAt, pausedBusinessDays(scoped, now))

\* SlaClock: where every reader of a ticket's age starts counting.
clockStart(enteredAt, pauses, now) ==
  effectiveEnteredAt(enteredAt, windowsFor(pauses, enteredAt), now)

dwellDays(since, now) == businessDaysBetween(since, now)

(***************************************************************************)
(* Thresholds, by (status, flow) with '*' as the baseline; NoOne for none. *)
(***************************************************************************)
SlaRows(flow, statuses, days) == {[flow |-> flow, status |-> s, days |-> days] : s \in statuses}

SlaConfig ==
  SlaRows("*", {"Submitted", "SubmittedToVpAndy", "SubmittedToDcc2", "SubmittedToDcc3", "Reopened"}, 1)
    \cup SlaRows("*", {"ReceivedByDcc2", "ReceivedByDcc3", "Returned"}, 2)
    \cup SlaRows("*", {"ReturnFixing"}, 3)
    \cup SlaRows("General", {"SubmittedToBop"}, 2)
    \cup SlaRows("Contract", {"SubmittedToAccounting", "SubmittedToBop"}, 7)
    \cup SlaRows("Contract", {"ReceivedFromAcc", "SubmittedToDcc2Hardcopy", "Hardcopy"}, 2)

thresholdOf(status, flow) ==
  LET days(f) == {r.days : r \in {c \in SlaConfig : c.status = status /\ c.flow = f}}
  IN  IF days(flow) # {} THEN CHOOSE d \in days(flow) : TRUE
      ELSE IF days("*") # {} THEN CHOOSE d \in days("*") : TRUE
      ELSE NoOne

overdueDays(since, threshold, now) ==
  LET late == businessDaysBetween(since, now) - threshold
  IN  IF threshold = NoOne \/ late < 0 THEN 0 ELSE late

(***************************************************************************)
(* The escalation ladder.                                                  *)
(***************************************************************************)
stationRole(status) ==
  IF status = "Submitted" THEN "DCC1"
  ELSE IF StateOwner(status) = "Applicant" THEN NoOne ELSE StateOwner(status)

Escalation(kind, recipient, status) ==
  {[kind |-> kind, recipient |-> recipient, station |-> status]}

\* Fault: the tier of the role is tried before the tier of the management.
escalationRoleFirst(status, holder, since, threshold, now) ==
  LET late == overdueDays(since, threshold, now) IN
  IF stationRole(status) = NoOne \/ threshold = NoOne THEN {}
  ELSE IF late > 0 THEN Escalation("Overdue", stationRole(status), status)
  ELSE IF late >= CriticalDays THEN Escalation("Critical", "Admin", status)
  ELSE IF threshold - businessDaysBetween(since, now) <= WarnDays
    THEN Escalation("Warn", IF holder = NoOne THEN stationRole(status) ELSE holder, status)
  ELSE {}

\* The holder is nudged first, then the role of the station, then the Admins.
escalationIntent(status, holder, since, threshold, now) ==
  LET late == overdueDays(since, threshold, now) IN
  IF stationRole(status) = NoOne \/ threshold = NoOne THEN {}
  ELSE IF late >= CriticalDays THEN Escalation("Critical", "Admin", status)
  ELSE IF late > 0 THEN Escalation("Overdue", stationRole(status), status)
  ELSE IF threshold - businessDaysBetween(since, now) <= WarnDays
    THEN Escalation("Warn", IF holder = NoOne THEN stationRole(status) ELSE holder, status)
  ELSE {}
=============================================================================
