----------------------------- MODULE SlaClock ------------------------------
(***************************************************************************)
(* The SLA clock of one ticket: the instant it counts from, the pauses     *)
(* that stop it, the undo that hands it back, and the three hourly scans   *)
(* that act on it.  Every write is stamped with an instant of its own; the *)
(* moves themselves are those of TicketMachine, with the checks of their   *)
(* handlers (see Tickets) left out.                                        *)
(***************************************************************************)
EXTENDS Calendar

CONSTANTS Alice,        \* the applicant
          Dana,         \* a DCC user, in any of the three roles
          TheFlow,      \* flow of the ticket
          Grace,        \* QLHS_POOL_AUTORETURN_DAYS
          FirstDay,     \* day on which the ticket is submitted
          LastBusyDay,  \* bound: no user acts after this day
          LastDay,      \* bound: time stops on this day
          MaxTrail,     \* bound: audit rows users write
          MaxRound,     \* bound: no ticket goes past this round
          MaxPauses     \* bound: pauses opened

ASSUME SlaBoundAssumption ==
  /\ {FirstDay, LastBusyDay, LastDay, MaxTrail, MaxRound, MaxPauses} \subseteq Nat
  /\ FirstDay < LastDay
  /\ TheFlow \in Flow

VARIABLES now,       \* the clock; an instant is used by one write only
          row,       \* the ticket, with enteredAt = status_entered_at
          trail,     \* its ticket_event rows
          pauses,    \* its ticket_sla_pause rows
          alerts,    \* notification rows of the escalation ladder
          reminders, \* rounds with a return_reminder in the outbox
          requests   \* what was read without a lock and is written later

vars == <<now, row, trail, pauses, alerts, reminders, requests>>

NotAMove == {"created", "note"}
Entry(at, event, from, to, since) ==
  [at |-> at, event |-> event, from |-> from, to |-> to, since |-> since]

\* `since' is not a column: it remembers the clock a move took the ticket from.
SlaInit ==
  /\ now = FirstDay * PerDay + 1
  /\ row = [status |-> "Submitted", flow |-> TheFlow, applicant |-> Alice,
            holder |-> NoOne, round |-> 0, enteredAt |-> FirstDay * PerDay,
            last |-> [event |-> "created", from |-> "Submitted"]]
  /\ trail = {Entry(now - 1, "created", "Submitted", "Submitted", now - 1)}
  /\ pauses = {}
  /\ alerts = {}
  /\ reminders = {}
  /\ requests = {}

-----------------------------------------------------------------------------
(***************************************************************************)
(* Time.  A write takes the present instant, and the next one is later.    *)
(***************************************************************************)
Stamp == /\ civilDay(now + 1) = civilDay(now)
         /\ now' = now + 1

NextDay == /\ civilDay(now) < LastDay
           /\ now' = (civilDay(now) + 1) * PerDay
           /\ UNCHANGED <<row, trail, pauses, alerts, reminders, requests>>

Busy == /\ civilDay(now) <= LastBusyDay
        /\ Cardinality(trail) < MaxTrail

Idle == \A r \in requests : r.kind = "scan"
Begin(request) == requests' = requests \cup {request}
Finish(request) == requests' = requests \ {request}

(***************************************************************************)
(* Moves.  The trigger on ticket.status closes the pause that is open.     *)
(***************************************************************************)
\* Fault: the pause is closed with the instant the station was entered.
ClosePauseAtEntry(ps, at) ==
  {IF p.to = Open THEN [p EXCEPT !.to = row.enteredAt] ELSE p : p \in ps}

ClosePause(ps, at) == {IF p.to = Open THEN [p EXCEPT !.to = at] ELSE p : p \in ps}

\* The row enters its status at `entered'; the audit row is stamped `at'.
MoveTo(next, event, entered, at) ==
  /\ row' = [next EXCEPT !.enteredAt = entered]
  /\ trail' = trail \cup {Entry(at, event, row.status, next.status, row.enteredAt)}
  /\ pauses' = ClosePause(pauses, now)
  /\ UNCHANGED <<alerts, reminders>>

UserOf(role) == IF role = "Applicant" THEN Alice ELSE Dana

Act(event) ==
  /\ Busy
  /\ event \notin {"auto_return", "reopen"}
  /\ \E role \in Role : \E next \in Transition(row, event, UserOf(role), role) :
        /\ next.round <= MaxRound
        /\ MoveTo(next, event, now, now)
  /\ Stamp
  /\ UNCHANGED requests

\* Reopen and sendBack, in one transaction and with one instant.
Reopen ==
  /\ Busy
  /\ \E mid \in Transition(row, "reopen", Dana, "DCC1") :
     \E next \in Transition(mid, "sendBack", Dana, "DCC1") :
        /\ next.round <= MaxRound
        /\ row' = [next EXCEPT !.enteredAt = now]
        /\ trail' = trail \cup
             {Entry(now, "reopen", row.status, mid.status, row.enteredAt),
              Entry(now, "sendBack", mid.status, next.status, now)}
  /\ pauses' = ClosePause(pauses, now)
  /\ Stamp
  /\ UNCHANGED <<alerts, reminders, requests>>

(***************************************************************************)
(* Audit notes: a pick, a change of priority, an edited field, a paper     *)
(* flagged or cleared.  Each names the status its transaction read.        *)
(***************************************************************************)
NoteBegin == /\ Busy
             /\ Idle
             /\ Begin([kind |-> "note", status |-> row.status])
             /\ UNCHANGED <<now, row, trail, pauses, alerts, reminders>>

NoteCommit(r) ==
  /\ r.kind = "note"
  /\ trail' = trail \cup {Entry(now, "note", r.status, r.status, row.enteredAt)}
  /\ Stamp
  /\ Finish(r)
  /\ UNCHANGED <<row, pauses, alerts, reminders>>

(***************************************************************************)
(* Undo.  The last move and the clock to hand back are read without a      *)
(* lock, within five seconds of the move; the compensating move waits for  *)
(* the row and is stamped with the instant of the read.                    *)
(***************************************************************************)
Latest(entries) == CHOOSE e \in entries : \A o \in entries : o.at <= e.at

lastTransitionEvent == Latest({e \in trail : e.event \notin NotAMove})

\* Fault: the undo restarts the clock.
RestartClock(last) == now

priorStatusEnteredAt(last) ==
  LET landed == {e \in trail : e.to = last.from /\ e.at < last.at}
  IN  IF landed = {} THEN now ELSE Latest(landed).at

UndoBegin ==
  /\ Busy
  /\ Idle
  /\ \E e \in trail : e.event \notin NotAMove
  /\ LET last == lastTransitionEvent IN
       /\ civilDay(last.at) = civilDay(now)
       /\ Begin([kind |-> "undo", at |-> now, moved |-> last.at,
                 target |-> [event |-> last.event, from |-> last.from],
                 since |-> last.since, prior |-> priorStatusEnteredAt(last)])
  /\ Stamp
  /\ UNCHANGED <<row, trail, pauses, alerts, reminders>>

UndoCommit(r) ==
  /\ r.kind = "undo"
  /\ \E next \in UndoTransition(row, r.target, Dana, "DCC1") :
        MoveTo(next, "undo", r.prior, r.at)
  /\ Finish(r)
  /\ UNCHANGED now

-----------------------------------------------------------------------------
(***************************************************************************)
(* Pauses.                                                                 *)
(***************************************************************************)
OpenPause == {p \in pauses : p.to = Open}

\* The holder, the status and the open pause are read without a lock.
PauseBegin ==
  /\ Busy
  /\ Idle
  /\ row.holder = Dana
  /\ row.status \notin Terminal
  /\ OpenPause = {}
  /\ Cardinality(pauses) < MaxPauses
  /\ Begin([kind |-> "pause", station |-> row.status])
  /\ UNCHANGED <<now, row, trail, pauses, alerts, reminders>>

\* The partial unique index refuses a second open pause.
PauseCommit(r) ==
  /\ r.kind = "pause"
  /\ OpenPause = {}
  /\ pauses' = pauses \cup {[from |-> now, to |-> Open, station |-> r.station]}
  /\ Stamp
  /\ Finish(r)
  /\ UNCHANGED <<row, trail, alerts, reminders>>

Resume ==
  /\ Busy
  /\ row.holder = Dana
  /\ OpenPause # {}
  /\ pauses' = ClosePause(pauses, now)
  /\ Stamp
  /\ UNCHANGED <<row, trail, alerts, reminders, requests>>

-----------------------------------------------------------------------------
(***************************************************************************)
(* The hourly scans.                                                       *)
(***************************************************************************)
Since == clockStart(row.enteredAt, pauses, now)
Threshold == thresholdOf(row.status, row.flow)
Late == overdueDays(Since, Threshold, now)

\* Fault: a ticket somebody has picked is left to that somebody.
PoolScanUnpicked ==
  /\ row.status = "Submitted"
  /\ \A e \in trail : e.event = "note" => e.at < row.enteredAt
  /\ businessDaysBetween(row.enteredAt, now) >= Grace
  /\ \A r \in requests : r.kind # "scan"
  /\ Begin([kind |-> "scan", at |-> now])
  /\ Stamp
  /\ UNCHANGED <<row, trail, pauses, alerts, reminders>>

\* The scan lists the tickets past their grace, whose pauses it ignores ...
PoolScan ==
  /\ row.status = "Submitted"
  /\ businessDaysBetween(row.enteredAt, now) >= Grace
  /\ \A r \in requests : r.kind # "scan"
  /\ Begin([kind |-> "scan", at |-> now])
  /\ Stamp
  /\ UNCHANGED <<row, trail, pauses, alerts, reminders>>

\* ... and returns each of them that is still in the Pool by then.
AutoReturn(r) ==
  /\ r.kind = "scan"
  /\ \E next \in Transition(row, "auto_return", System, "DCC1") :
        MoveTo(next, "auto_return", r.at, r.at)
  /\ Finish(r)
  /\ UNCHANGED now

\* A request whose write is refused: the undo of a stale move, a second pause,
\* the return of a ticket that has left the Pool.
Refused(r) ==
  /\ CASE r.kind = "undo" -> UndoTransition(row, r.target, Dana, "DCC1") = {}
       [] r.kind = "pause" -> OpenPause # {}
       [] r.kind = "scan" -> Transition(row, "auto_return", System, "DCC1") = {}
       [] OTHER -> FALSE
  /\ Finish(r)
  /\ UNCHANGED <<now, row, trail, pauses, alerts, reminders>>

\* One notification per ticket, tier and station, for ever.
EscalationScan ==
  /\ \E a \in escalationIntent(row.status, row.holder, Since, Threshold, now) :
        /\ \A o \in alerts : <<o.kind, o.station>> # <<a.kind, a.station>>
        /\ alerts' = alerts \cup {a}
  /\ UNCHANGED <<now, row, trail, pauses, reminders, requests>>

\* Fault: a return that did not count its round is not chased.
ReminderScanCounted ==
  /\ row.status = "ReturnFixing"
  /\ row.round > 0
  /\ Late > 0
  /\ row.round \notin reminders
  /\ reminders' = reminders \cup {row.round}
  /\ UNCHANGED <<now, row, trail, pauses, alerts, requests>>

ReminderScan ==
  /\ row.status = "ReturnFixing"
  /\ Late > 0
  /\ row.round \notin reminders
  /\ reminders' = reminders \cup {row.round}
  /\ UNCHANGED <<now, row, trail, pauses, alerts, requests>>

-----------------------------------------------------------------------------
Serve(r) == NoteCommit(r) \/ UndoCommit(r) \/ PauseCommit(r) \/ AutoReturn(r)
            \/ Refused(r)

Events == {e.event : e \in {x \in Edges : x.flow \in {"*", TheFlow}}}

User == \/ \E event \in Events : Act(event)
        \/ Reopen
        \/ NoteBegin
        \/ UndoBegin
        \/ PauseBegin
        \/ Resume

Scans == PoolScan \/ EscalationScan \/ ReminderScan

Next == NextDay \/ User \/ Scans \/ \E r \in requests : Serve(r)

(***************************************************************************)
(* Time passes, the crons fire every hour, and a transaction ends.         *)
(***************************************************************************)
Fairness == /\ WF_vars(NextDay)
            /\ WF_vars(PoolScan)
            /\ WF_vars(EscalationScan)
            /\ WF_vars(ReminderScan)
            /\ WF_vars(\E r \in requests : Serve(r))

Spec == SlaInit /\ [][Next]_vars /\ Fairness

-----------------------------------------------------------------------------
\* The clock is a past instant, a pause ends after it began, at most one pause
\* is open, and no two requests of a user are in flight.
TypeOK ==
  /\ now \in FirstDay * PerDay .. (LastDay + 1) * PerDay
  /\ row.status \in Status /\ row.round \in 0..MaxRound
  /\ row.holder \in {NoOne, Alice, Dana}
  /\ row.enteredAt \in 0..now
  /\ \A e \in trail : e.at \in 0..now /\ {e.from, e.to} \subseteq Status
  /\ \A p \in pauses : p.from < now /\ (p.to = Open \/ p.to \in p.from..now)
  /\ Cardinality(OpenPause) <= 1
  /\ Cardinality({r \in requests : r.kind # "scan"}) <= 1

\* A working day is charged to the station unless a pause opened there stopped
\* the clock over it, and then it is forgiven once: what SlaClock, through the
\* shifted start and the merged windows, tells every board and scan.
ChargedDays ==
  LET days == {d \in civilDay(row.enteredAt)+1 .. civilDay(now) : Working(d)}
      stopped == {d \in days : \E p \in pauses :
                    /\ p.from >= row.enteredAt
                    /\ civilDay(p.from) < d
                    /\ d <= civilDay(EndOf(p, now))}
  IN  dwellDays(Since, now) = Cardinality(days \ stopped)

\* An undo never gives a ticket more time than the move it undoes took, and
\* never charges it for time before its station was entered: the clock it hands
\* back starts between the entry the move left and the move.
UndoKeepsClock ==
  [][\A r \in requests : UndoCommit(r) =>
        row'.enteredAt \in r.since .. r.moved]_vars

\* The clock the undo hands back is the one the undone move took: "the restored
\* station's SLA clock is handed back, not restarted" (domain/ticket/undo.ts).
UndoHandsBackTheClock ==
  [][\A r \in requests : UndoCommit(r) => row'.enteredAt = r.since]_vars

\* A ticket nobody takes does not stay in the Pool, however often its clock is
\* handed back: the hourly scan returns it to its applicant.
PoolDrains == row.status = "Submitted" ~> row.status # "Submitted"

\* A ticket that runs critically late has the Admins told of it at that station,
\* unless it stops being so (it moves, or its clock is stopped or handed back):
\* the ladder reaches its last tier however the ticket got there.
CriticallyLate == /\ stationRole(row.status) # NoOne
                  /\ Threshold # NoOne
                  /\ Late >= CriticalDays
CriticalReached ==
  CriticallyLate ~> \/ ~CriticallyLate
                    \/ \E a \in alerts : a.kind = "Critical" /\ a.station = row.status

\* An applicant who lets a return lie is reminded of it in that round, unless
\* the ticket is resubmitted first.
ReturnChased ==
  (row.status = "ReturnFixing" /\ Late > 0) ~>
     (row.status # "ReturnFixing" \/ row.round \in reminders)

\* The scans reach what they look for, however the clock was moved meanwhile.
ScansReach == PoolDrains /\ CriticalReached /\ ReturnChased
=============================================================================
