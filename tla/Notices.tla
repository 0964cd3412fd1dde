------------------------------ MODULE Notices ------------------------------
(***************************************************************************)
(* The notification centre: a trigger files a note when a ticket is sent   *)
(* on to a group, completed or returned, the hourly ladder files           *)
(* escalations, and the bell of one reader shows the newest of them.       *)
(* Whether a note still counts is worked out when it is read, from the     *)
(* reader's own marks and from where the ticket stands by then.            *)
(***************************************************************************)
EXTENDS Naturals, Sequences, FiniteSets, TicketMachine

CONSTANTS BellLoads,    \* bound: loads of the bell that overlap
          BellLimit,    \* LIMIT of the list
          MaxNews,      \* bound: moves of the ticket and escalations
          MaxLosses     \* bound: lost signals and lost calls

ASSUME NoticesAssumption ==
  BellLoads \in Nat /\ BellLimit \in Nat \ {0} /\ MaxNews \in Nat /\ MaxLosses \in Nat

VARIABLES paper,    \* the ticket: its flow, its status and the edge it came by
          reader,   \* what the reader is to the ticket: its applicant, or a group
          notes,    \* rows of "notification", oldest first
          visit,    \* how many there were when the ticket came to its status
          marks,    \* notes the reader has a row of "notification_read" for
          bell,     \* what the bell shows: its items and the badge
          awaited,  \* loads that are asked for
          answers,  \* lists on their way; good: nothing untold since they were read
          marking,  \* marks under way, a note or "all"; spoilt: shown over since
          rings,    \* a change event is on its way to the tab
          unsure,   \* what the bell shows missed something nobody will tell it
          news, losses

noticesVars == <<paper, reader, notes, visit, marks, bell, awaited, answers, marking, rings,
                 unsure, news, losses>>
Centre == <<paper, reader, notes, visit, marks>>
Lossy == losses < MaxLosses /\ losses' = losses + 1

-----------------------------------------------------------------------------
\* The group a ticket waits for, with nobody holding it.
Inbox == [s \in {"Submitted", "SubmittedToDcc2", "SubmittedToDcc2Hardcopy", "SubmittedToDcc3"} |->
            CASE s = "Submitted" -> "DCC1" [] s = "SubmittedToDcc3" -> "DCC3" [] OTHER -> "DCC2"]

\* Fault: one note per station, as the ladder's unique index keeps it.
OncePerStation(status) ==
  IF status \in DOMAIN Inbox /\ \A n \in DOMAIN notes : notes[n].waiting # status
    THEN <<[to |-> Inbox[status], kind |-> status, waiting |-> status]>>
    ELSE << >>

\* The trigger, on an insert and on each change of the status.
notify_center_on_change(status) ==
  CASE status \in {"Completed", "Returned"} ->
         <<[to |-> "Applicant", kind |-> status, waiting |-> "none"]>>
    [] status \in DOMAIN Inbox ->
         <<[to |-> Inbox[status], kind |-> status, waiting |-> status]>>
    [] OTHER -> << >>

\* Marked by the reader, or of a station the ticket has left.
isRead(n) == n \in marks \/ notes[n].waiting \notin {"none", paper.status}

\* The newest notes to the reader, with the badge.
list == LET mine   == {n \in DOMAIN notes : notes[n].to = reader}
            newest == {n \in mine : Cardinality({m \in mine : m > n}) < BellLimit}
            items  == [n \in newest |-> isRead(n)]
        IN  [items |-> items, unread |-> Cardinality({n \in newest : ~items[n]})]

\* What was read before something untold happened no longer tells the truth.
Outdated == {[a EXCEPT !.good = FALSE] : a \in answers}

NoticesInit ==
  /\ paper \in [flow : Flow, status : {"Submitted"}, by : {"create"}]
  /\ reader \in {"Applicant", "DCC1", "DCC2", "DCC3"}
  /\ notes = <<[to |-> "DCC1", kind |-> "Submitted", waiting |-> "Submitted"]>> /\ visit = 0
  /\ marks = {} /\ marking = {} /\ rings = FALSE /\ unsure = FALSE
  /\ bell = [items |-> << >>, unread |-> 0]
  /\ awaited = 1 /\ answers = {}
  /\ news = 0 /\ losses = 0

-----------------------------------------------------------------------------
\* A change of the status commits, its note with it, and its signal sets out to
\* the tab, or is lost with a connection or a stream.
Arrive(status, by) ==
  /\ news < MaxNews /\ news' = news + 1
  /\ paper' = [paper EXCEPT !.status = status, !.by = by]
  /\ notes' = notes \o notify_center_on_change(status)
  /\ visit' = Len(notes)
  /\ \/ rings' = TRUE /\ UNCHANGED <<answers, unsure, losses>>
     \/ Lossy /\ unsure' = TRUE /\ answers' = Outdated /\ UNCHANGED rings
  /\ UNCHANGED <<reader, marks, bell, awaited, marking>>

FollowEdge == \E e \in Edges : /\ e.flow \in {paper.flow, "*"} /\ e.from = paper.status
                               /\ Arrive(e.to, e.event)
UndoEdge == \E e \in Edges : /\ e.reversible /\ e.flow \in {paper.flow, "*"}
                             /\ e.to = paper.status /\ e.event = paper.by
                             /\ Arrive(e.from, "undo")

\* The ladder files one escalation per tier and station, to the station or to
\* its holder there; no trigger notifies an insert into "notification".
PostEscalation ==
  /\ news < MaxNews /\ news' = news + 1
  /\ \E kind \in {"EscalateWarn", "EscalateOverdue"},
        to \in {e.owner : e \in {x \in Edges : x.from = paper.status}} \ {"Applicant"} :
       /\ \A n \in DOMAIN notes : <<notes[n].kind, notes[n].waiting>> # <<kind, paper.status>>
       /\ notes' = Append(notes, [to |-> to, kind |-> kind, waiting |-> paper.status])
  /\ unsure' = TRUE /\ answers' = Outdated
  /\ UNCHANGED <<paper, reader, visit, marks, bell, awaited, marking, rings, losses>>

-----------------------------------------------------------------------------
\* load(), on mount and on each signal; no timer repeats it.
Ring == /\ rings /\ awaited + Cardinality(answers) < BellLoads
        /\ rings' = FALSE
        /\ awaited' = awaited + 1
        /\ UNCHANGED <<Centre, bell, answers, marking, unsure, news, losses>>

ServeList == /\ awaited > 0
             /\ awaited' = awaited - 1
             /\ answers' = answers \cup {[list |-> list, good |-> TRUE]}
             /\ UNCHANGED <<Centre, bell, marking, rings, unsure, news, losses>>

\* The answer replaces what is shown, an optimistic mark under way included;
\* one that was read before it and is still to come will be shown over it.
ShowList(a) == /\ bell' = a.list
               /\ unsure' = ~a.good
               /\ answers' = {[b EXCEPT !.good = FALSE] : b \in answers \ {a}}
               /\ marking' = {[p EXCEPT !.spoilt = TRUE] : p \in marking}
               /\ UNCHANGED <<Centre, awaited, rings, news, losses>>

\* "A bell that can't load is silent."
ListFails == /\ Lossy
             /\ \/ awaited > 0 /\ awaited' = awaited - 1 /\ answers' = Outdated
                \/ \E a \in Outdated : answers' = Outdated \ {a} /\ UNCHANGED awaited
             /\ unsure' = TRUE
             /\ UNCHANGED <<Centre, bell, marking, rings, news>>

-----------------------------------------------------------------------------
\* openItem and clearAll show the mark before the call that makes it.
openItem(n) ==
  /\ ~bell.items[n]
  /\ bell' = [items |-> [bell.items EXCEPT ![n] = TRUE], unread |-> bell.unread - 1]
  /\ marking' = marking \cup {[of |-> n, spoilt |-> FALSE]}
  /\ UNCHANGED <<Centre, awaited, answers, rings, unsure, news, losses>>

clearAll ==
  /\ bell.unread > 0
  /\ bell' = [items |-> [n \in DOMAIN bell.items |-> TRUE], unread |-> 0]
  /\ marking' = marking \cup {[of |-> 0, spoilt |-> FALSE]}
  /\ UNCHANGED <<Centre, awaited, answers, rings, unsure, news, losses>>

\* markOneRead and markAllRead, of what is addressed to the reader at that time.
Marked(p) == {n \in DOMAIN notes : notes[n].to = reader /\ p.of \in {0, n}}

\* The mark commits; a list read before that shows the note unread again.
MarkRead(p) == /\ marks' = marks \cup Marked(p)
               /\ marking' = marking \ {p}
               /\ answers' = Outdated
               /\ unsure' = (unsure \/ p.spoilt)
               /\ UNCHANGED <<paper, reader, notes, visit, bell, awaited, rings, news, losses>>

\* The call or its answer is lost: the bell loads again.
MarkFails(p) == /\ Lossy
                /\ marks' \in {marks, marks \cup Marked(p)}
                /\ marking' = marking \ {p}
                /\ awaited' = awaited + 1 /\ answers' = Outdated
                /\ unsure' = TRUE
                /\ UNCHANGED <<paper, reader, notes, visit, bell, rings, news>>

NoticesNext ==
  \/ FollowEdge \/ UndoEdge \/ PostEscalation
  \/ Ring \/ ServeList \/ ListFails
  \/ \E a \in answers : ShowList(a)
  \/ \E n \in DOMAIN bell.items : openItem(n)
  \/ clearAll
  \/ \E p \in marking : MarkRead(p) \/ MarkFails(p)

NoticesSpec == NoticesInit /\ [][NoticesNext]_noticesVars
-----------------------------------------------------------------------------
\* A ticket nobody holds is owed work by a group: as long as a reader of that
\* group marked nothing of this visit, their list has an unread note of it.
\* Coming again to a station it was at before, a ticket rings again.
WaitingRings ==
  LET waits == \/ paper.status = "Submitted" /\ reader = "DCC1"
               \/ /\ paper.status \in HandoverStates
                  /\ \E e \in Edges : e.from = paper.status /\ e.owner = reader
                                      /\ e.event # "sendBack"
  IN  waits /\ (\A n \in marks : n <= visit)
        => \E n \in DOMAIN list.items : ~list.items[n] /\ notes[n].waiting = paper.status

\* With nothing under way the bell shows what the server holds, unless what it
\* loaded last missed an escalation, a lost signal, a lost call, or an answer or
\* a mark that overtook it.
BadgeTrue ==
  ~rings /\ marking = {} /\ ~unsure /\ awaited = 0 /\ answers = {} => bell = list

\* The bell does not forget work that waits, and its badge does not make it up.
BellSound == WaitingRings /\ BadgeTrue
=============================================================================
