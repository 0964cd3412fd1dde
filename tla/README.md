# A verification project for QLHS

QLHS moves paper files ("tickets") of three kinds, General, Contract and
Payment, from an applicant over the desks of DCC1, DCC2 and DCC3 to Accounting
and back.  The back end is a NestJS API over PostgreSQL (`src/apps/api`), with
cron schedulers in the same process; the front end is a React application
(`src/apps/web`); a few shell scripts look after the database.  This directory
holds TLA+ models of the ticket engine, of the services beside it, of the pages
of the web application and of the scripts, the TLC configurations that check
them on small instances, and theorems about them that TLAPS checks for every
instance.

Contents: [inventory](#1-inventory),
[modules](#2-modules-and-how-they-follow-the-code), [runs](#3-runs),
[findings](#4-where-the-code-departs-from-its-own-words), [proofs](#5-proofs),
[left out](#6-not-modelled).

## 1. Inventory

Paths are below `src/apps/api/src` unless they start with `src/` or `web/`
(`src/apps/web/src`).

| Component | State it keeps | Operations | What makes it correct |
| --- | --- | --- | --- |
| State machine (`domain/ticket/state-machine`, `transition.ts`, `undo.ts`) | none (pure) | `findEdge`, `transition`, `undoTransition`, `deriveHolder`, the chains of reopen and skip | every move along an edge of the flow, by the role that owns it; the holder follows from the status |
| Ticket lifecycle (`application/lifecycle`, `returns`, `closed`, `infra/prisma/ticket`) | `ticket` rows | create, edit, cancel, confirm return, resubmit, generic action, reopen | no ticket stuck; code, flow and number agree; rounds counted once |
| Soft lock (`domain/lock`, `lock.repo.ts`) | `ticket_lock` | pick, seize, expire, release | one person works on a Pool ticket |
| Confirm-flow and numbering (`confirm-flow.repo.ts`, `domain/numbering`) | `number_counter`, `ticket.code` | confirm | codes contiguous, unique, immutable |
| Handover and reconcile lane (`handover.repo.ts`) | `reconcile_flag` | receipt, missing paper, re-handover, return | a flagged ticket does not pass the receipt |
| Accounting and close (`accounting.repo.ts`, `skip-to-completed.repo.ts`, `complete-contract.repo.ts`) | `contract_no`, `payment_no` | send to Accounting, skip, complete | no real number lost |
| Undo (`undo-action.usecase.ts`) | audit log read back | undo | compensates only the move it saw; hands back the clock |
| Email intents (`outbox.writer.ts`, `email-intent.ts`) | `notification_outbox` | written with the transition | every outcome mailed once |
| Pool auto-return (`pool-auto-return.scheduler.ts`) | none | hourly scan | no ticket rots in the Pool |
| SLA clock and pauses (`domain/sla`, `application/sla`) | `status_entered_at`, `ticket_sla_pause` | pause, resume, restore by undo | a station is charged the days it had the file |
| Return reminders, escalation (`return-reminder`, `escalation.scheduler.ts`) | outbox and `notification` rows | hourly scans | late tickets are chased |
| Outbox dispatcher (`outbox.dispatcher.ts`) | attempts, backoff of outbox rows | batch every 15 s | at-least-once delivery; no stale reminder |
| Morning digest (`digest.*.ts`, `digest-outbox.repo.ts`) | `digest_outbox` | queue, claim under a lease, send, mark | at most one digest per person and day |
| Live updates (`ticket-notify.listener.ts`, `events.controller.ts`, `web/shared/useLiveRefetch.ts`) | one LISTEN connection, one event stream per tab | connect, drop, reconnect, refetch, poll | one live connection; no view stays stale |
| Notification centre (`notify_center_on_change` trigger, `application/notify`, `web/features/notifications`) | `notification` rows and read marks | file, list, badge, mark one or all | what waits rings, what is done does not |
| Sessions, login, webhook (`http/auth`, `infra/session`) | sessions in memory, processed events | login, refresh, logout, kick, lock | a killed session stays dead |
| Users and roles (`admin.controller.ts`, `web/features/admin/AdminUsers.tsx`) | `user_role` | appoint, move, remove, undo | one role in a group; an administrator remains |
| Options, document types, settings (`application/admin`, `web/features/admin`) | lists, thresholds, mail account, VP name | add, rename, hide, delete, save | tickets and catalogue agree; pages show what is stored |
| Station boards, batch actions, lookup (`application/board`, `dispatch`, `closed`; `web/features/board`, `closed`) | none on the server; selection, dialogs and rows in the tab | load, act, batch, page on | offers are taken; tallies are true; nothing is skipped |
| Own tickets, detail, create form (`web/features/tickets`) | expanded row, forms, draft | open, edit, resubmit, clone, create | nothing typed is lost or lands elsewhere |
| Shell (`web/App.tsx`, `web/features/auth`, `web/shared/useIdleLogout.ts`) | who the user is, idle timer, portal hand-off | load, sign in, log out, idle out | dead sessions leave; idle ones end |
| Reports (`domain/analytics`, `domain/admin`) | none | dwell, throughput, pauses, running | figures add up |
| Backup scripts (`src/ops/backup`) | dump directory | nightly dump, wipe, restore | no completed dump lost early; a wipe erases what it dumped |
| Assistant, mail, crypto, health, deployment | none or input and output | | see section 6 |

**Interaction.**  Handlers of the API share nothing but the database.  Nearly
every handler opens one transaction that begins with `SELECT ... FOR UPDATE` on
the ticket's row, decides with the pure state machine, writes the row, appends
one audit row and queues an email intent; triggers on the row file notes, close
the SLA pause that is open and notify the listener, which wakes the tabs.  The
hard behaviours are where that pattern is left:

* *reads before the lock*: `updateFields` decides on an unlocked row; undo picks
  its candidate before it takes the lock; pick reads the status first;
  confirm-flow reads the soft lock, a row of its own, without locking it; the
  catalogue and the roles are checked before their transaction;
* *handlers with their own copy of the write*: seven code paths reach
  Completed or Returned, each with its own update, flag handling and intent;
* *columns only some handlers know*: `reconcile_flag` is written by
  `handover.repo.ts` only, while any other handler may move the ticket;
* *deduplication by round*: light returns do not open a round;
* *post-commit work*: the notice of an auto-return is inserted after the commit;
* *timers, leases and in-memory state* in the schedulers, the listener and the
  sessions;
* *answers in any order*: the web application never cancels a request, so that
  an answer may find another row, tab, dialog, search or user than it was asked
  for.

`PROJECT.json` lists each hazard at its line, with the properties that cover it
or the reason why none does.

## 2. Modules, and how they follow the code

| Module | Stands for |
| --- | --- |
| `TicketMachine` | the edge tables, `findEdge`, `stateOwner`, `deriveHolder`, `transition`, `undoTransition`, `legalActions`, the reopen and skip chains; stateless operators from a row to the *set* of rows it can become, empty where the code throws |
| `Tickets` | the handlers: one action each, over `ticket`, `lock`, `nextSeq`, `outbox`, `requests` |
| `Custody` | the abstract promise: in whose court a ticket is, its round, whether it has its name |
| `TicketsCustody` | the refinement mapping from `Tickets` to `Custody` |
| `BoardRules`, `Boards` | columns, offered actions and endpoints; that the boards over `Tickets` offer what the handlers take |
| `MCTickets` | symmetry and the one state constraint, for TLC |
| `Calendar` | business days, thresholds, merging of pause windows |
| `SlaClock` | one ticket over days: moves, notes, pauses, undo, the three scans |
| `Reports` | the figures derived from the audit trail of `SlaClock` |
| `Mailbox` | the abstract mailer: an intent is owed until it is delivered, moot or given up |
| `Outbox` | the dispatcher, with the refinement mapping to `Mailbox` |
| `Digest` | several processes that queue, claim, send and mark the digests of a morning |
| `Sessions` | the session store, refresh, logout, kick, webhook, restarts |
| `Roles` | appointments, the active role of a session, the console |
| `Catalogue` | document types and the tickets that carry their text |
| `Live` | triggers, listener clients, event stream, one view with its loads and cache |
| `Shell` | one tab: cookie, screens, idle timer, polls, login and logout |
| `Services` | the seven modules before this one side by side |
| `Bulk`, `Desk` | the bulk bar of a board; its buttons, dialogs and number sheet |
| `Lookup`, `Notices`, `Mine`, `Draft` | the paged lookup; the bell; an applicant's tickets; the create form with the duplicate hints |
| `Settings`, `Options` | the configuration pages; the pages of lists |
| `Backups` | nightly dump, wipe, restore |
| `Web` | the nine modules before this one side by side |
| `TicketsProofs`, `CustodyProofs`, `ClockProofs`, `ServicesProofs`, `DeskProofs`, `FormsProofs`, `LookupProofs`, `WebProofs` | theorems and proofs (section 5) |

`Services` and `Web` put components side by side that share no state in the
code: in every behaviour one of them, the `focus` or the `page`, takes its steps
from any of its initial states while the others rest.  Their product would
multiply states and add no behaviour; the fairness conditions speak of steps
that a resting component does not have enabled.

### The ticket engine: state

* `ticket[t]` is the row: status, flow, applicant, holder, round, reconcile flag,
  code, the two number columns, and `last`, the audit row
  `lastTransitionEvent` would return.  `"Absent"` stands for no row.
* `lock[t]` is the user whose *unexpired* soft lock is on `t`.  An expired lock
  row and none at all look alike, since every reader treats them alike.
* `nextSeq[p]` is `number_counter` of prefix `p`, for one year.
* `outbox` is the set of keys `(ticket, round, kind)`: a set, because the unique
  index with `ON CONFLICT DO NOTHING` makes the table one.
* `requests` holds the values a request captured before it waits for its lock.

### The ticket engine: atomicity

A handler whose transaction starts with `FOR UPDATE` is one action: no other
writer of the row can come between.  `Cancel`, `ConfirmReturnReceipt` and
`Resubmit` read the row first to check its owner, then call the locked
transition, which checks the status again; the owner never changes and the
holder is null at Submitted, so the early read can be merged with the
transition.  Five requests are split:

| First half | Second half | Captured |
| --- | --- | --- |
| `EditBegin` (`ticket-write.repo.ts:119`) | `EditCommit` (162) | flow and number decided on |
| `UndoBegin` (`undo-action.usecase.ts:27`) | `UndoCommit` (45) | the move to compensate |
| `PickBegin` (`lock.repo.ts:52`) | `PickCommit` (59) | that the ticket was in the Pool |
| `ConfirmBegin` (`confirm-flow.repo.ts:42-63`) | `ConfirmCommit` (75-107) | that nobody else held the soft lock |
| `AutoReturn` (`pool-auto-return.scheduler.ts:56`) | `EnqueueNotice` (79) | ticket and round of the notice |

Between the halves of a confirm its transaction holds the row lock: `RowFree`
is the wait of every other `FOR UPDATE`, every `UPDATE` and every insert of an
audit row (its foreign key) for that lock.  `ticket_lock` has no foreign key,
so a seize of a free lock does not wait.  `Abandon` ends any request: a
rollback, a client that gave up, a crash of the process; what was committed
stays, what was captured is lost.

### The ticket engine: abstractions

* An undo may commit arbitrarily late in `Tickets`: the five-second window is
  checked before the lock is awaited, so no bound holds at the commit.  The same
  staleness covers audit rows whose clocks are out of order.  `SlaClock` has the
  window (one day stands for it) and the clock.
* Auto-return may happen at any time in the Pool in `Tickets`; `SlaClock` has
  the grace days.
* Reasons, audit notes, priorities and the other applicant fields are not
  carried: nothing decides on them.  An edit that changes nothing is `Abandon`.
* Whether a Contract document type needs a number is a free choice.
* Numbers are members of `Numbers`, already in upper case; `NA` is both the
  sentinel `'N/A'` and NULL, which the unique indexes treat alike.
* The generic, the batch and the receive-from-Accounting endpoints fire the
  same transition and are one action, `GenericAction`.

`MaxRound` caps the rounds (a write past it is not taken) and `MaxInFlight` the
requests that may begin; both are constants of the module, and the theorems hold
for every value of them.

### The clock, the scans and the reports

`Calendar` has the arithmetic as operators: an instant is a natural number,
`PerDay` of them make a civil day, two days of seven are a weekend.  `SlaClock`
moves one ticket with the operators of `TicketMachine`; each write takes an
instant of its own.  `row.enteredAt`, `trail` and `pauses` are the column, the
audit rows and the pause rows; `since` in an audit entry is a history value that
only properties read.  `NoteBegin`/`NoteCommit`, `PauseBegin`/`PauseCommit`,
`UndoBegin`/`UndoCommit` and `PoolScan`/`AutoReturn` separate what is read
without a lock from what is written.  The checks of the handlers are left to
`Tickets`: `SlaClock` allows every move of the machine.  `Reports` adds the
queries and the folds of `domain/analytics` over that trail, as sets of rows and
sums over them: `LAG` is the last of the rows that precede one, and the merge of
the pause windows a fold that takes the spans in the order they begin.

### The services

* **Outbox.**  `Dispatch` is the query of a tick, guarded by the in-flight flag;
  it keeps per row whether the reminder was stale and the address known *then*.
  `HandleIntent` is one row, `SendMail` and `MarkSent` are two steps with
  `MarkFails` and `DispatcherDies` between them.  The backoff is a Boolean that
  `BackoffEnds` resets.  `fate`, `reached`, `moot` and `tries` map the rows to
  `Mailbox`.
* **Digest.**  `Claim` is the one statement that selects, skips locked rows and
  flips them; the lease is the Boolean `due`.  `Abandon` is a crash or an error
  out of the batch, `LeaseLapses` a process slower than its lease.
* **Sessions.**  Each await of `session-auth.service.ts` separates two actions;
  `calls` are the requests of a page, which share one refresh.  The identity
  provider is external: it rotates refresh tokens and revokes grants.  `lost`
  marks sessions for which an answer of the provider was lost.
* **Roles.**  A change passes its guards (`changes`) before its transaction; a
  console keeps the list it loaded last and the removal its toast offers to undo.
* **Catalogue.**  Lookup, checks and write are three statements, both for
  creating or editing a ticket and for deleting a type; `raced` remembers
  writings that a deletion overlapped.
* **Live.**  Versions stand for the data.  A listener client is "opening",
  "listening", "told" (its loss reported once) or "ended" (twice).  One tab's
  stream, its debounce timer, one view with overlapping loads, and the cache of
  a hover.
* **Shell.**  One tab; the other tabs of its browser and the identity provider
  are `Elsewhere`, `Returns` and `SessionEnds`.  A request in `asks` carries the
  cookie of the moment it was sent and sets the cookie when its answer arrives.

### The pages and the scripts

Each page keeps what its component keeps in `useState`, with the calls under way
as a set of records that remember what the closure captured; `Answered`,
`Handle`, `Serve...` are the server, `Show...`, `Settle`, `Finish` the
continuation of the promise, `...Fails`, `Lose`, `Miss` the lost call or answer.
Components that React unmounts drop their state but not their calls, exactly as
the code, which never aborts a request; a `key` in the JSX is what decides
whether a component is mounted anew (`Fresh`, `Rendered`).

* `Bulk`: ticks, the dialog with the cards and event of the moment it was
  opened, one call per event, the workers of the server in any order, the second
  call of "complete at once".  One batch at a time.
* `Desk`: buttons that post at once, some of them with an Undo, dialogs that ask or
  want a reason, the dialog of the number and the one of types that may only be
  skipped, which has no field, the sheet of numbers with its duplicate check, and
  the loads after each.  `Steps` takes one or two events of each kind of path.  The
  files stand at any station, and all but one at that of `Crowd`.  One live
  refetch at a time, and a confirm inside a dialog is one step.
* `Lookup`: searches, "load more" below a key, reopening; `steady` and `mixed`
  are history.
* `Notices`: the trigger, the ladder's notes, what a reader still has to see,
  and the bell with loads that overtake each other; one ticket, one reader.
* `Mine`: the list with one expanded row, the detail as a modal or a page of its
  own, the return panel and the edit form in both.  The list answers at once,
  and shows every group; a detail is asked for and read in one step.
* `Draft`: the create form, its clone, its numbers, its post, and the hints at
  twins in the Pool.  Payment behaves like General; the team is the draft's.
* `Settings`: the table of thresholds saved row by row, and the mail account with
  the name of the VP; of the account the host stands for all but the password.
* `Options`: the tables of lists and of document types under their tabs; the
  duplicate check and the insert are one step; every type is a Contract type, and
  any may have come into use when its deletion arrives.
* `Backups`: pairs of a dump and its file of roles, the pruning of the window,
  the wipe with its safety dump, the restore, and the API that writes tickets
  whenever it finds the tables. One nightly run, one wipe and one restore at a
  time (a bound), but these overlap as they like; a restore terminates the dumps
  of the others, and may itself fail before, between or after its steps. A
  change of a ticket looks like a new one. `SKIP_BACKUP` is left out, and so is
  that `TRUNCATE` may wait for locks: it comes at any later time anyway.

## 3. Runs

| Run | Instance | Distinct states | Shows |
| --- | --- | --- | --- |
| `races` | 1 ticket, every flow, 2 DCC1, rounds 0..1, 2 requests in flight | 886,223 | types; `FlagBlocksReceipt`, `NeverStranded`, `CodeBeyondPool`, `RoundZeroNumberless`, `HolderFits` |
| `rounds` | 1 ticket, rounds 0..2, 1 request in flight | 114,229 | `OutcomeMailed`, `BoardsHold`, `CodeImmutable`, `NumbersKept`, `Tickets` implements `Custody` |
| `two_tickets` | 2 tickets, 1 number, rounds 0..1 | 505,119 | `NumberingContiguous` |
| `sla` | 1 General ticket, Saturday to Friday, 4 audit rows of users, 1 pause | 125,934 | `ChargedDays`, `ReportsTrue`, `UndoKeepsClock`, `ScansReach` |
| `services` | see below | 306,469 | `KeepsPromise`, `CopiesExplained`; `DigestOnce`, `DigestSettles`; `EndedStaysEnded`, `TokenSpentOnce`, `OffboardingHolds`; `OneRoleInOneGroup`, `LastAdminFallsToARace`, `RevocationTakesEffect`; `FlowAgrees`, `NoOrphans`; `LiveHolds`; `ShellHolds`; types |
| `web` | see below | 2,153,359 | `BulkSound`, `DeskSound`, `NothingSkipped`, `BellSound`, `FormsHold`, `FormsSurvive`, `SettingsSound`, `ShownIsStored`, `BackupsSound` |
| `stranded_flag`, `stale_flow`, `cancel_picked`, `second_return`, `late_soft_lock`, `undo_clock` | 1 ticket | counterexample | section 4 |

What the properties say, the ticket engine first:

* `FlagBlocksReceipt`: a ticket flagged for missing paper is never beyond the
  receipt of that paper, although (section 4) the flag may wander.
* `NeverStranded`: some role is always offered an action its handler would not
  refuse.  With the edit's status re-check removed, a flow is changed under a
  ticket that sits on a desk of the old flow, and nobody can move it again.
* `CodeBeyondPool`, `CodeImmutable`, `NumberingContiguous`: numbering as the
  comments of `confirm-flow.repo.ts` describe it, across undo of the intake,
  returns, resubmission, concurrent confirms and rollbacks.
* `RoundZeroNumberless`: the assumption behind the round-0 guard of Skip
  Completed, which holds only because edits normalise the applicant's number.
* `NumbersKept`: a real number, once on a ticket, gives way only to a further send
  to Accounting or to an edit of the applicant's, whatever skips, returns, undos
  and reopenings do.  The edit is a true exception: an edit of a Contract ticket
  that is back with its applicant pins DCC2's number as it reads it, but one that
  read the ticket before it was coded carries the sentinel, and wipes the number
  if it commits after the return (section 4).  That no two live
  tickets share a number is not claimed: the partial indexes are the guard of
  every write, here as there, and nothing else bears on it.
* `HolderFits`: the holder is the applicant, a user of the owning desk or nobody,
  exactly as the status says, also after undo.
* `OutcomeMailed`: no path into Completed or Returned forgets its intent.
* `BoardsHold`: what a board offers its handler takes; a ticket that waits for a
  desk is in a column or the lane of that desk's board; the dispatch map shows
  every open ticket once.
* `KeepsCustody`: courts, rounds and names change only as `Custody` allows:
  intake names, heavy returns open one round, withdrawal is final, and a closed
  ticket goes back to its applicant only.

The clock:

* `ChargedDays`: the days the code charges, through the shifted start and merged
  windows, are the working days the ticket lay and was not paused, each counted
  once.
* `UndoKeepsClock`: an undo hands back a clock that lies within the undone visit.
* `ScansReach`: a ticket nobody takes leaves the Pool, a ticket left lying is
  escalated to critical, a return that is late is chased, under the fairness of
  the crons.
* `ReportsTrue`: dwell, throughput, pauses and running counts agree with what
  happened, apart from the oddities listed in section 4.

The services:

* `KeepsPromise`: crashes, retries and stale reminders included, the dispatcher
  implements `Mailbox`, and settles every intent.  `CopiesExplained`: each copy
  beyond the first is paid for by a crash or a lost marking.
* `DigestOnce`, `DigestSettles`: the same for the digest and its leases.
* `EndedStaysEnded`, `TokenSpentOnce`: no refresh in flight revives a session;
  concurrent requests do not log their own user out.  `OffboardingHolds`: a
  locked user is out once his tokens expire, also if his login was in flight,
  and the directory learns of the lock whatever fails half way.
* `OneRoleInOneGroup`, `LastAdminFallsToARace`, `RevocationTakesEffect`: stale
  consoles, crossing changes and late undos break neither exclusivity nor, but
  for two administrators demoting each other at the same time, the console.
* `FlowAgrees`, `NoOrphans`: the catalogue and the tickets disagree only after a
  deletion that raced with the writing of the ticket.
* `LiveHolds`: one listener client (unless a client reports its loss twice), no
  lost wake-up, and a view that converges to the database.
* `ShellHolds`: a tab over a dead session leaves; a tab left alone ends its
  session for good, whatever its polls do.

The pages:

* `BulkSound`: every "select all" leads to an action; the tally of a batch is
  over the cards asked about, and true of each.
* `DeskSound`: one click, one call; what the board shows or says after a call is
  what became of it; the sheet sends what is in it.
* `NothingSkipped`: no repeated row and no missing one while tickets are closed
  and reopened between pages, also at one instant.
* `BellSound`: what waits at the reader's desk rings; the badge counts what the
  list would show.
* `FormsHold`: what is typed for one ticket is never stored in another; a
  resubmission carries what was saved; a draft is posted twice only after a lost
  answer, and then the Pool is told; clones and placeholders come clean.
  `FormsSurvive`: forms are taken away only in the cases it names.
* `SettingsSound`: what is stored is not offered again; the label shows the name
  that is stored; "keep the password" keeps it.  `ShownIsStored`: once all calls
  are over, the rows on screen are the rows stored, unless the list came under
  another tab, others changed it since, an answer was lost, or loads overtook each
  other.  So it says that each change made here, and each failed toggle of a
  capability, is followed by a load; it does not say that the list of another tab
  never shows (section 4: it may).
* `BackupsSound`: the window keeps its nights; what a wipe erased is in a completed
  dump, but for what was written after the dump of that wipe had begun (section
  4); and a completed dump keeps its file of roles.

**Why the instances are enough.** Handlers of the engine touch one ticket;
tickets meet only in the counter, which `two_tickets` checks with two of them,
and in the number index, which only forbids. Two requests in flight (`races`)
plus any number of atomic actions give every pair of split requests; two DCC1
users are all the soft lock can tell apart; the other roles never compare two
users of one desk. A ticket of round 1 has gone through every status twice, and
nothing compares rounds further apart than one; `rounds` goes to 2 because the
outbox keys by round. The constraint `CodesAlone` of `two_tickets` drops states
with a soft lock (which excludes nobody among one user), a reconcile flag (which
only forbids steps) and pending notices (which touch codes no more than flags
do). DCC1 users and tickets occur in those configurations as model values only,
so their permutations are symmetries; no run uses both.

`sla` starts on a Saturday, so that visits, pauses and grace cross a weekend;
users act until Monday and time goes on until the thresholds are passed; four
audit rows hold a move, a note, an undo and one more move.

`services` has two intents (one of them a reminder), two attempts and two
mishaps; one person, two processes and two attempts of the digest; two sessions
and two rotations; two managers besides the local account, three changes of
roles; one added document type and two tickets; two overlapping loads, two
commits and one break of a connection; one cookie of the tab and two endings.
Each is what two actors need to overtake each other and to fail once in between.

`web` has two cards, three tickets to page through one by one, two instants, one
reopening by others and two calls; two loads and two news of the bell; two own
tickets, one edit, one move of a desk or lost call, two steps of the applicant;
two drafts and two tickets; two thresholds, two values typed or stored by
others, one lost call; four list items, two clicks, one other call and one
failure; two files and two numbers of the board; a window of two dumps, three
dumps begun, one of them by a wipe, and two tickets written.  A stale answer
needs two calls of one component under way, a wrong target two places to go.

Three bounds leave out a case that only a theorem covers.  `MaxLoads = 1` keeps
one load of a detail under way in `Mine`, so that no two answers overtake each
other there (with two, the run does not end in the time it is given):
`FormsAlwaysHold` and `TypedFormsSurvive` hold for any bound.  `MaxInFlight = 1`
keeps two confirms of one run apart in `rounds` and `two_tickets`
(`CodesAreForever`, `CodesHaveNoGaps`), and one pause in `sla` has nothing to
merge with (`PausesForgiveDays`, `ChargesWhatPassed`).

**Deadlock** is checked in the runs of the ticket engine.  `sla`, `services` and
`web` switch it off: time ends, bounded users have done all they may, and a
settled outbox has nothing to do.

**Fairness.**  Assumed are only what timers and servers do by themselves: the
day ends and the hourly scans run (`@Cron`), a transaction that has begun ends;
the interval timer of the dispatchers fires and a batch goes on, backoffs and
leases end; the server and the identity provider answer; tokens expire and the
webhook is delivered again until it is taken; the poll timer of an open view
fires; the idle timer of a user who has gone away runs out.  No user is assumed
to do anything, no connection to stay up, and lost calls are bounded by the
named constants.

**Mutants.**  Every property is checked against a plausible bug: the operators
marked *Fault* in the modules are used by no action; each shows, put in place
of the definition it varies, that its property can fail.

## 4. Where the code departs from its own words

| Run | What is said | What happens |
| --- | --- | --- |
| `stranded_flag` | `handover.repo.ts:35` "... so a concurrent action can't strand the flag" | the generic send-back and undo move a flagged ticket and leave the flag; at its next handover the ticket arrives flagged, and nobody can clear the flag before.  By `FlagBlocksReceipt` and `NeverStranded` this costs a detour, never a wrong receipt or a stuck ticket |
| `stale_flow` | `ticket-write.repo.ts:125` "Once a code is minted the flow is immutable" | an edit that read the ticket uncoded commits after it was confirmed and returned |
| `cancel_picked` | `cancel-ticket.usecase.ts:14` "only while Submitted with no one having picked it up" | picking does not write the holder that cancel looks at |
| `second_return` | `email-intent.ts:10` "`Returned` always emails" | the second light return of a round is deduplicated away |
| `late_soft_lock` | `lock.ts:2` "so two people don't process it at once" | a seize between confirm's look at the lock and its commit |
| `undo_clock` | `undo.ts:22-25` "the restored station's SLA clock is handed back, not restarted" | audit notes name the current status as their target, so that after pick, intake and undo the clock counts from the pick |

Met on the way, and within the models (or next to them) without a run of their
own, since each is a choice the code may have made or a wording nobody wrote
down:

*Tickets and boards.*  The late edit of `stale_flow` may also wipe the number that
DCC2 gave, against `ticket-write.repo.ts:133-137`, as its UPDATE (162) looks at
the status only.  A hidden document type still gives its flow to edits
(`set-doc-type-active.usecase.ts:4-5`, `update-fields.usecase.ts:23`).  A flagged
ticket that left the handover statuses drops out of its column, and only the
lane's `__return` takes it; the detail page offers it the generic `sendBack`,
which leaves the flag.  The Admin board offers actions that
`dcc1-pool.controller.ts` refuses.  `SubmittedToAccounting` waits without a note.
Two tickets of one draft are looked for from now, not from each other's day as
`duplicate.ts:84-86` says.  A soft lock taken late on a ticket that left the Pool
stays until it expires (`lock.repo.ts:57`).

*Clock and reports.*  A pause read at one station may be written at the next.
`dwell` closes a stay at any audit row, although it speaks of the "next move",
and a note written late counts for the station it names.  A note on a closed
ticket counts as another clearing.

*Services.*  A pg client that reports its loss twice makes the listener open two
connections (`ticket-notify.listener.ts:17`); `LiveHolds` counts them.  An error
of the digest's own bookkeeping leaves the rest of its batch to the lease, where
the comment at `digest.dispatcher.ts:75-76` expects one row to be lost.  Old
unread notes and escalations count again when a ticket comes back to their
station; the unique index on escalations never lets one be filed twice there;
escalations are not pushed to the bell, and "mark all" marks notes the list never
showed.  A discovery of the identity provider that failed once is cached for ever
(`pmh-id.identity.ts:24-37`).

*Shell.*  A logout whose POST fails is not tried again.  Idleness is per tab, so
that an idle background tab ends the session of an active one.  A network error
of `/auth/me`, or an older answer of it after a newer one, shows the login page
over a live session.  The cookie cleared by a logout may be one that another tab
has just been given.  A document opened from the portal keeps its referrer, so
that an idle logout there signs in again once (`sso-autostart.ts`).  A change of
user or role in another tab goes unnoticed.  The Admin home has no bell, hence no
poll: a dead session shows there with the next call only.

*Boards and lookup in the browser.*  A page of the lookup that comes after
another search is appended to it (`ClosedTickets.tsx:70`; the model's `mixed`),
against lines 30-31.  "Complete at once" whose second call is lost discards the
results of the first (`useBoardActions.ts:200-217`, against 222-224).  An answer
closes a dialog another card has opened since; the number sheet's late `onClose`
closes a newer one (`BatchSendAccountingModal.tsx:112-117`); a refused number
does not load the board.

*Own tickets and the create form.*  A live refetch that fails unmounts the return
panel (`TicketDetail.tsx:45`).  An answer asked for before an edit began takes its
form away.  Two panels open on one ticket overwrite each other.  The answer of
one row's toggle, or of its return, may close the form of the row opened since.
A create that succeeds blanks a newer draft (`CreateTicketForm.tsx:102-105`); a
clone's answer over an open Contract draft wipes its number; `"N/A"` survives
leaving a type the form did not know yet.

*Administration.*  The answer of a save clears what was typed meanwhile, in the
table of thresholds and in the mail form, where it also takes a VP name being
typed.  Two saves of the mail account may restore an older password.  A form that
shows the environment says the password is kept and stores none
(`AdminConfig.tsx:17-18`).  A late list shows the rows of another kind under its
tab; a rename's answer closes another row's edit; a failed hide is not followed
by a load.

*Scripts.* The wipe dumps first, "so this wipe is undoable"
(`wipe-tickets.sh:62`), but nothing stops the API: a ticket filed or changed
between `pg_dump` (68) and the `TRUNCATE` (81), two transactions, is erased and
in no dump. `WipeUndoable` excepts exactly these; to lose none, the API has to
be stopped for the wipe. `restore.sh` checks the passphrase after it has dropped
the database; a restore that fails leaves an empty one, which the next nights
dump.

## 5. Proofs

The theorems hold for every value of the constants: any sets of tickets, users,
numbers, sessions, types, cards and files, any bounds.

| Module | Theorem | States |
| --- | --- | --- |
| `TicketsProofs` | `TypeCorrect` | `Spec => []TypeOK` |
| | `FlagNeverPassesReceipt` | `Spec => []FlagBlocksReceipt` |
| | `TransitionFacts`, `UndoFacts` | what any transition and any undo keeps |
| | `NoneProcessedUncoded` | `Spec => []CodeBeyondPool` |
| | `CodesHaveNoGaps` | `Spec => []NumberingContiguous` |
| | `NumbersAreKept` | `Spec => NumbersKept` |
| | `CodesAreForever` | `Spec => CodeImmutable` |
| | `NoneStranded` | `Spec => []NeverStranded` |
| | `HoldersAlwaysFit` | `Spec => []HolderFits` |
| | `OutcomesAreMailed` | `Spec => []OutcomeMailed` |
| | `NoNumberInRoundZero` | `Spec => []RoundZeroNumberless` |
| `CustodyProofs` | `ImplementsCustody` | `Spec => KeepsCustody`: the refinement as a whole |
| | `BoardsAlwaysHold` | `Spec => []BoardsHold` |
| `ClockProofs` | `UndosKeepTheClock` | `Spec => UndoKeepsClock` (of `SlaClock`) |
| | `OpenPausesAreTold` | `Spec => []PausesTold`, one conjunct of `ReportsTrue` |
| | `ChargesWhatPassed` | `Spec => []ChargedDays` |
| | `ReportsAreTrue` | `Spec => []ReportsTrue` |
| | `SlaTypeCorrect` | `Spec => []TypeOK` (of `SlaClock`) |
| | `PausesForgiveDays` | the merged windows forgive each day that one of them covers, once |
| | `ClockStands` | an open pause stops a clock, whatever other pauses there are |
| `ServicesProofs` | `OutboxTypes` | `OutboxSpec => []OutboxTypeOK` |
| | `CopiesAreExplained` | `OutboxSpec => []CopiesExplained` |
| | `DispatcherKeepsSafePromise` | every step of `Outbox` is a step of `Mailbox` or a stutter |
| | `DigestTypeCorrect` | `DigestSpec => []DigestTypeOK` |
| | `OneDigestADay` | `DigestSpec => []DigestOnce` |
| | `SessionsTypeCorrect` | `SessionsSpec => []SessionsTypeOK` |
| | `EndedForGood` | `SessionsSpec => EndedStaysEnded` |
| | `TokensSpentOnce` | `SessionsSpec => []TokenSpentOnce` |
| | `OneGroupEach` | `RolesSpec => []OneRoleInOneGroup` |
| | `LastAdminOnlyRaced` | `RolesSpec => LastAdminFallsToARace` |
| | `OnlyAdminsBegin` | `RolesSpec => RevocationTakesEffect` |
| | `FlowsAgree` | `CatalogueSpec => []FlowAgrees` |
| | `NoneOrphaned` | `CatalogueSpec => []NoOrphans` |
| | `LiveStaysSound` | `LiveSound`, the safety half of `LiveHolds` |
| | `ServicesTypeCorrect` | `ServicesSpec => []ServicesTypeOK` |
| | `ServicesKeepTheirWord` | nine of these, as properties of `ServicesSpec` |
| `LookupProofs` | `PageIsSound` | what `searchClosed` answers below a key |
| `WebProofs` | `BatchesAlwaysSound` | `WebSpec => []BulkSound` |
| | `DeskAlwaysSound` | `WebSpec => []DeskSound` |
| | `BellAlwaysSound` | `WebSpec => []BellSound` |
| | `FormsAlwaysHold` | `WebSpec => []FormsHold` |
| | `TypedFormsSurvive` | `WebSpec => FormsSurvive` |
| | `ListsShowWhatIsStored` | `WebSpec => []ShownIsStored` |
| | `BackupsAlwaysSound` | `WebSpec => []BackupsSound` |
| | `LookupAlwaysComplete` | `WebSpec => []NothingSkipped` |
| | `SettingsAlwaysSound` | `WebSpec => SettingsSound` |

`DeskProofs`, `FormsProofs` and `LookupProofs` hold what `WebProofs` needs of the
boards, of the forms of applicants and administrators, and of the lookup.

The assumptions are those named in the modules: the null values are no users,
roles, numbers, items or files, the bounds are naturals, the processes and the
tickets of the catalogue and of the lookup finitely many, its clock has an
instant and its pages a row, a day has an instant and time more than one day to
pass, the local account is a user and a
manager, at least one delivery is attempted, and there are fewer wipes than
nights are kept.

### Types and the reconcile rule

`Inv == TypeOK /\ FlagBlocksReceipt` is inductive.
`FlagBlocksReceipt` alone is not, as types are needed for what a captured
request may write.  Three facts about the state machine carry it:

1. `EdgesIntoReceipt`: every edge into a status after a receipt carries a
   flag-guarded event (receipt, accounting, close), and no undoable edge starts
   in such a status; a fact about the edge tables;
2. `TransitionFacts`, `UndoFacts`, `AndThenFacts`: whatever edge is taken, flag,
   code, flow and numbers stay, and (1) applies to the new status;
3. `WriteKeepsTable`: a typed, safe row keeps the table typed and safe.

Then each handler either checks the flag under the row lock before a guarded
event (`ReceiptKeepsInv`, `AccountingKeepsInv`), or fires an event that (1)
excludes (`TransitionSafe`), or sets the flag in a handover status only
(`ReconcileKeepsInv`).  Requests commit with captured values; `TypeOK` types
them, and their status checks at the commit give the rest (`RequestKeepsInv`).
One lemma per group of handlers follows the structure of `Next`.

### Codes and numbers

`CodesInv` joins `Inv`, the three invariants and `AbsentUncoded` (a ticket that
is not there has no code), without which a creation could drop a code.  The
proof does not go through the handlers once per property.  `StepOfRow` goes
through them once and shows that every step is a `RowStep`: it leaves table and
counter alone, or stores one row that passed `UniqueNumber` and either keeps its
code and comes to no status that needs one (`Keeps`), or is given a code by the
intake while the counter follows (`Mints`).  `Keeps` rests on a fact about the
edge tables, `EdgesOutOfUncoded`: only the intake leads out of the statuses
without a code, and every undo starts from a status with one.  The three theorems
about codes then argue about `RowStep` alone; the one with content of its own is
`MintingKeepsNumbering`, that the new number is the next one and nobody's yet.

`NumbersAreKept` goes through the handlers over `DesksInv` (below), as it needs
`RoundZeroNumberless`: a skip with a number finds none, because the ticket it
takes is of round 0.

### The desks

None of the four invariants is inductive.  `DesksInv` adds to `Inv` what they
hang on: every ticket is on the line of its flow (`OnLine`), a Contract ticket of
round 0 is early on that line and has no number (`Numberless`), its holder fits
and its outcome is in the outbox, and every captured edit would keep that
(`Held`).  Facts about the edge tables (`Along`, `Counted`, `Landing`, `Ends`)
say so for one edge each; `StepOfDesk` goes through the handlers once.
`NeverStranded` then follows from `OnLine` alone: from every open status of a
line an edge leads on whose handler has no further condition.

### The promise, and the boards

`ImplementsCustody` proves the whole of `KeepsCustody`, which has no liveness
part.  `EdgesTravel` says for each edge between which courts it leads and whether
it opens a round.  From it follow the moves of a transition, an undo, a reopening
and the two steps of a skip (`TransitionCarries`, `UndoCarries`, `ReopenCarries`,
`SkipCarries`); `LightWrite` and `HeavyWrite` turn a stored row into a step of
`Custody`, and one lemma per group of handlers does the rest.  The refinement
holds only in the states of `CodesInv` and `DesksInv`: a name must be there before
a desk moves a ticket, and a captured request must still be of its flow.

`BoardsAlwaysHold` needs no invariant of its own.  An offer of a board is legal
(`OfferIsLegal`) and what is legal its handler takes (`LegalIsTaken`), unless it
is an intake, which takes what is in the Pool (`IntakeIsTaken`).  `OnLine` says
where a ticket is, and from there `WorkOnABoard` names the desk that can act on
it, `EachOnTheMap` the one station that shows it.

### The clock

`UndoKeepsClock` speaks of one step, but the clock the undo hands back was read
many steps before.  `ClockInv` says that the trail always holds an entry that
brought the ticket to its status, not before the clock that runs
(`ClockOfARow`), and for each undoable move an entry that had brought it to the
status the move left, not before the clock the move took it from
(`ClocksOfMoves`).  So the latest arrival before the move, which the undo looks up
(`LatestExists`: a finite set of entries has one), is no earlier than that clock;
and what an undo under way holds stays so (`ClocksHeld`), as entries are only
added.  `StationInv` says the same of the stations that pauses name.

*What is charged.*  `ChargedDays` needs little of the history (`PauseInv`: the
pauses are finitely many and began before now) and much arithmetic.  The working
days up to a date are counted by weeks (`WorkedBefore`, `CountDays`); so `n`
working days later exists within `2n + 2` days (`NthWorkDay`), and starting there
takes `n` off what is counted (`LaterStart`).  Merging the spans in the order they
begin keeps a block open and the days of the closed ones counted, and the two
together are the days the spans cover (`MergeStep`, `MergedCovers`).
`PausesForgiveDays` and `LaterStart` make `ClockRuns`; that a clock stands still
under an open pause (`ClockStands`) compares two readings of it, and gives the
last conjunct of `ReportsTrue`.

*What is reported.*  The reports read the whole trail, so that its order is the
invariant: each write has an instant of its own, the rows of a reopening apart,
and what is under way holds an instant no row has (`TrailInv`).  `StepEntries`
reduces every step to one of four writes (nothing, a note, a move, a reopening).
`DoneInv` counts: the moves into the closed statuses are as many as those out of
them, and one more while the ticket is closed.  For the dwell report, the station
that a row names holds until the next row (`HeldBetween`); so the segments of a
station cut the time spent there into parts (`SegmentsArePieces`), whose sizes add
up (`SumOfSizes`).

*Induction.*  Sums, merges and counts are over finite sets, of any size, and the
library's induction theorems take an operator, which no installed prover can
instantiate.  That the subsets of a finite set are well-founded is first-order
(`WFMin`): a smallest counterexample among them is what `SetInduction` refutes.
`UpTo` does the same for the numbers up to a bound, and with it `SetRecursion`
shows that what a fold computes obeys its equation.

### The services

* `OutboxInv`: only a row with an attempt left is pending; the batch and the
  unmarked mail are of pending rows, once each; each copy beyond the first is
  paid for.  The refinement goes through `OutboxNext` action by action; `Settle`
  needs that a row is marked only after its mail has left, which the invariant
  says.
* `DigestInv` is a budget: the copies a person has, the processes that hold the
  row and the claim that may still come are together at most one and one for
  each trouble.  Every step keeps the sum or pays for it.
* `SessionsInv`: `InStep` says that a live session to which every answer came
  knows the token the provider takes next, or the one call under way is about to
  tell it.
* `RolesInv`: wherever roles of an appointed user are kept or under way (table,
  consoles, toasts, changes) they are of one group; no change strips its author.
* `CatalogueInv`: an order under way holds what its lookup found, unless a
  deletion raced; a deletion holds a type no ticket carries.
* `LiveInv`: a view behind what its tab was told of has a load under way that
  started late enough, or a signal, a timer or an excuse; `OneListenerStep` counts
  the connections that are up and the one that is about to be opened.
* `ServicesImplement` shows that each service of the composition behaves as by
  itself, so that its theorems carry over without another proof.

### The pages and the scripts

* `BulkInv`: the calls of a batch are of disjoint sets of cards, which together
  with the settled ones are the cards of the dialog; each call has moved exactly
  what it has marked as done.  The tally is read off when the last call ends, so
  that all of this must be known before.  That "select all" always leads to an
  action is `SelectionsAct`, over the edge tables: Contract and Payment share an
  action wherever both have one, and General never mixes.
* `DeskInv`: a button's POST, the load after it and the mark on its card go
  together (`OneUnderWay`); a board that differs from the files is known to be
  late, or an answer, a run of the sheet or a load is still to come
  (`BoardToBeTold`); a run of the sheet belongs to the sheet that is open and has
  its numbers (`OneRun`), and what it reported as sent is stored
  (`BatchesSound`), since a file, once numbered, is never numbered anew
  (`NumbersStay`).  `RowsLeave` alone would not survive the next sheet.
* `MineInv`: a form is of the ticket its view shows, a load was never asked for
  over an open edit, a call carries the words of its ticket, and what is about to
  be resubmitted was saved.  `FormsSurvive` compares two states: it follows from
  `MineInv` and the step.
* `DraftInv`: the number of a draft follows the lock of its type
  (`LockInv`), tickets and drafts are counted in their order (`IdsInv`), and a
  draft that was filed and may be filed again was paid for by a lost answer
  (`TwinsInv`).
* `BellInv`: since the ticket came to the reader's station a note was written
  that nobody before could have read (`VisitInv`); one of the answers under way,
  and then the bell, shows what the server holds (`AnswersInv`, `ShownInv`).
* `OptionsInv`: the rows on display are those stored, or late, or behind, or an
  error is shown, or a load is to come (`DisplayOK`); a list that was read is
  current or known to be behind.
* `LookupInv`: the places that the order gives to the tickets of a search are one
  to their number, each taken once (`PlacesAreTaken`), so that a page is the
  first of them without a gap (`PageIsSound`).  Across the pages, a row is at or
  above the cursor and stays there when its ticket is closed again, as it is then
  closed now (`ListsStay`); a ticket that stayed closed is below the cursor or
  among the rows (`Complete`); and a page under way continues the rows where they
  end and repeats none of them (`NextPage`), unless another list took their
  place.
* `TableInv`: the thresholds on display are those stored, but for what was stored
  since, unless a load is to come or has failed; `MailInv`: a mail form that
  shows the account of the database and is not behind shows that account, and
  what was sent from it has found its password (`PutsKnow`).  `SettingsSound`
  follows from the two and from one look at the step that writes the account
  (`KeepingKeeps`).
* `BackupInv`: dumps are named and stamped in the order of their writing
  (`StampsInv`, `OrderInv`), a job at work has a dump nobody else has
  (`RunsInv`), later dumps than one whose roles are being written are of wipes
  (`WipesInv`).  `WipeInv` follows the tickets: each in a whole file or in the
  hands of a restore is in a completed dump (`Saved`); while the dump of a wipe is
  written, and until the `TRUNCATE`, whatever the database holds was written after
  its snapshot, is in it, or is `Saved`, as a restore beside it may bring back
  tickets of an older dump.  Pruning takes the oldest first, so that a count of what is
  newer bounds what it can take.

### Only model-checked

Every invariant and every action property of the runs is proved.  What is left is
liveness:

* `DeadSessionLeaves` and `LeftAlone` (`ShellHolds`), `OffboardingHolds`,
  `DigestSettles`, `ScansReach` and the liveness in `KeepsPromise` and
  `LiveHolds`: what eventually happens under fairness is beyond the prover.

## 6. Not modelled

* **Priority and field audit**: no operation on a ticket reads the priority; the
  notes these changes write are the notes of `SlaClock`.
* **Assistant**: it answers questions over read-only queries.
* **Mail, crypto, health, startup, deployment**: input, output and wiring.
* **Analytics** but for `Reports`: folds over rows nothing depends on; export is
  formatting.
* **Pages**: the audit and analytics pages, pickers, menus, themes, texts.
* **Sorting, workbox and search boxes** of the boards: filters of what is shown.
* **Parts of modelled components**: PKCE and the login throttle; the test mail;
  overrides of thresholds per document; who may see which live event.

Hazards left without a property: a ticket of a later round that goes to
Accounting with the sentinel loses its number (`accounting.repo.ts:74`), which
nothing in the repository says it must keep; a pick over an expired lock row and
a confirm may wait for each other (`lock.repo.ts:59`), which the database
resolves by aborting one, an `Abandon`.
