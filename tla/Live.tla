-------------------------------- MODULE Live --------------------------------
(***************************************************************************)
(* Live boards: a trigger notifies each change of a status, one connection *)
(* of the API process listens, every open tab has one event stream, and a  *)
(* view loads again when it is told to and every thirty seconds anyway.    *)
(* What a view shows is the version of the tickets its data was read at.   *)
(***************************************************************************)
EXTENDS Naturals, FiniteSets

CONSTANTS ViewLoad,    \* loads of one view that may overlap
          MaxCommits,  \* bound: committed writes
          MaxBreaks    \* bound: lost connections, streams and answers

ASSUME LiveAssumption == MaxCommits \in Nat /\ MaxBreaks \in Nat

VARIABLES written,  \* version of the tickets in the database
          links,    \* clients of the listener: "opening", "listening", "told" (lost, reported)
          adopted,  \* this.client: a link, or 0
          timers,   \* reconnect timers
          repeats,  \* second reports of one lost client
          stream,   \* the tab's EventSource is connected
          signal,   \* a change event is on its way to the tab
          debounce, \* the 250 ms timer of useLiveRefetch runs
          request,  \* request[l]: "idle", "asked", or the version the server read
          hover,    \* the same for ticketsOf
          cache,    \* what the station cache holds: a version, or "none"
          view,     \* the version the view shows
          due,      \* version of the last change the tab was told of
          excused,  \* an answer was lost or overtaken since
          breaks

liveVars == <<written, links, adopted, timers, repeats, stream, signal, debounce,
              request, hover, cache, view, due, excused, breaks>>
Listener == <<links, adopted, timers, repeats>>
Tab == <<request, hover, cache, view, excused>>

Version == 0..MaxCommits
LinkIds == 1..(2 * MaxBreaks + 2)
Idle == [n |-> 0, at |-> "idle"]
Asked == [n |-> 0, at |-> "asked"]
Read(n) == [n |-> n, at |-> "read"]
Break == breaks < MaxBreaks /\ breaks' = breaks + 1
In(state) == {c \in LinkIds : links[c] = state}

LiveInit ==
  /\ written = 0
  /\ links = [c \in LinkIds |-> IF c = 1 THEN "opening" ELSE "unused"]
  /\ adopted = 0 /\ timers = 0 /\ repeats = 0
  /\ stream = TRUE /\ signal = FALSE /\ debounce = FALSE
  /\ request = [l \in ViewLoad |-> Idle] /\ hover = Idle /\ cache = Idle
  /\ view = 0 /\ due = 0 /\ excused = FALSE /\ breaks = 0

-----------------------------------------------------------------------------
\* The trigger fires on an insert or a change of the status; every listening
\* connection passes it on to the stream.
Notified == In("listening") # {} /\ stream

CommitStatus == /\ written < MaxCommits
                /\ written' = written + 1
                /\ signal' = (signal \/ Notified)
                /\ due' = IF Notified THEN written' ELSE due
                /\ UNCHANGED <<Listener, stream, debounce, Tab, breaks>>

\* A soft lock, a reconcile flag, a priority or a field: nobody is told.
CommitSilently == /\ written < MaxCommits
                  /\ written' = written + 1
                  /\ UNCHANGED <<Listener, stream, signal, debounce, Tab, due, breaks>>

-----------------------------------------------------------------------------
\* connect(): LISTEN succeeds, and the client is adopted ...
Listens(c) == /\ links[c] = "opening"
              /\ links' = [links EXCEPT ![c] = "listening"]
              /\ adopted' = c
              /\ UNCHANGED <<written, timers, repeats, stream, signal, debounce, Tab, due, breaks>>

\* Fault: the 'end' of a client schedules a reconnect as its 'error' does.
OnDropAndEnd == adopted' = 0 /\ timers' = timers + 2

\* onDrop: whichever client reports, the adopted one is forgotten.
OnDrop == adopted' = 0 /\ timers' = timers + 1

\* ... or it fails, or the connection is lost later.
Drops(c) == /\ links[c] \in {"opening", "listening"}
            /\ Break
            /\ links' = [links EXCEPT ![c] = "told"]
            /\ OnDrop
            /\ UNCHANGED <<written, repeats, stream, signal, debounce, Tab, due>>

\* A pg client may report one loss twice: an 'error' and then its 'end', or an
\* 'error' beside the rejected LISTEN.
DropsAgain(c) == /\ links[c] = "told"
                 /\ links' = [links EXCEPT ![c] = "ended"]
                 /\ OnDrop
                 /\ repeats' = repeats + 1
                 /\ UNCHANGED <<written, stream, signal, debounce, Tab, due, breaks>>

Reconnect == /\ timers > 0
             /\ timers' = timers - 1
             /\ \E c \in In("unused") :
                  /\ \A d \in In("unused") : c <= d
                  /\ links' = [links EXCEPT ![c] = "opening"]
             /\ UNCHANGED <<written, adopted, repeats, stream, signal, debounce, Tab, due, breaks>>

\* EventSource reconnects by itself; what was on the way is gone.
StreamDrops == /\ stream
               /\ Break
               /\ stream' = FALSE /\ signal' = FALSE
               /\ due' = view
               /\ UNCHANGED <<written, Listener, debounce, Tab>>
StreamReopens == /\ ~stream
                 /\ stream' = TRUE
                 /\ UNCHANGED <<written, Listener, signal, debounce, Tab, due, breaks>>

-----------------------------------------------------------------------------
\* Fault: no refetch is planned while a load is under way.
FireUnlessLoading == /\ signal
                     /\ signal' = FALSE
                     /\ debounce' = (debounce \/ \A l \in ViewLoad : request[l] = Idle)
                     /\ UNCHANGED <<written, Listener, stream, Tab, due, breaks>>

\* A signal starts the debounce timer, or is swallowed by the one that runs.
Fire == /\ signal
        /\ signal' = FALSE
        /\ debounce' = TRUE
        /\ UNCHANGED <<written, Listener, stream, Tab, due, breaks>>

Ask(l) == /\ request[l] = Idle
          /\ request' = [request EXCEPT ![l] = Asked]
          /\ UNCHANGED <<written, Listener, stream, signal, hover, cache, view, due, excused, breaks>>

Refetch(l) == debounce /\ debounce' = FALSE /\ Ask(l)

\* Fault: the fallback polls only while the stream is known to be down.
PollWhenDown(l) == ~stream /\ Ask(l) /\ UNCHANGED debounce

Poll(l) == Ask(l) /\ UNCHANGED debounce

Serve(l) == /\ request[l] = Asked
            /\ request' = [request EXCEPT ![l] = Read(written)]
            /\ UNCHANGED <<written, Listener, stream, signal, debounce, hover, cache, view,
                           due, excused, breaks>>

\* The answer that arrives is shown, be it older than what is there; it empties
\* the cache.
Show(l) == /\ request[l].at = "read"
           /\ view' = request[l].n
           /\ request' = [request EXCEPT ![l] = Idle]
           /\ cache' = Idle
           /\ excused' = (view' < due /\ (excused \/ view' < view))
           /\ UNCHANGED <<written, Listener, stream, signal, debounce, hover, due, breaks>>

\* A failed load keeps the last good view.
LoadFails(l) == /\ request[l] # Idle
                /\ Break
                /\ request' = [request EXCEPT ![l] = Idle]
                /\ excused' = TRUE
                /\ UNCHANGED <<written, Listener, stream, signal, debounce, hover, cache, view, due>>

\* ticketsOf: from the cache, or asked for and cached when it comes.
Hover == /\ cache = Idle /\ hover = Idle
         /\ hover' = Asked
         /\ UNCHANGED <<written, Listener, stream, signal, debounce, request, cache, view,
                        due, excused, breaks>>
ServeHover == /\ hover = Asked
              /\ hover' = Read(written)
              /\ UNCHANGED <<written, Listener, stream, signal, debounce, request, cache, view,
                             due, excused, breaks>>
Cache == /\ hover.at = "read"
         /\ cache' = hover
         /\ hover' = Idle
         /\ UNCHANGED <<written, Listener, stream, signal, debounce, request, view,
                        due, excused, breaks>>

Answer(l) == Serve(l) \/ Show(l)
Browse == Hover \/ ServeHover \/ Cache
Connect == Reconnect \/ \E c \in LinkIds : Listens(c)

LiveNext ==
  \/ CommitStatus \/ CommitSilently
  \/ Connect \/ StreamDrops \/ StreamReopens \/ Fire \/ Browse
  \/ \E c \in LinkIds : Drops(c) \/ DropsAgain(c)
  \/ \E l \in ViewLoad : Refetch(l) \/ Poll(l) \/ Answer(l) \/ LoadFails(l)

\* The server answers; nobody need hover, nor be connected ...
AnswerFairness == /\ \A l \in ViewLoad : WF_liveVars(Answer(l))
                  /\ WF_liveVars(ServeHover \/ Cache)

\* ... and the timer of an open view runs out.
PollFairness == \A l \in ViewLoad : WF_liveVars(Poll(l))

LiveSpec == LiveInit /\ [][LiveNext]_liveVars /\ AnswerFairness /\ PollFairness
-----------------------------------------------------------------------------
\* "A single connection for the whole process": there is one client, or one
\* timer to open it, as long as no client reports its loss twice.
OneListener == Cardinality(In("opening") \cup In("listening")) + timers = 1 + repeats

\* No wake-up is lost: a view older than a change its tab was told of has a
\* refetch ahead that reads the change, unless an answer failed or was overtaken
\* ("coalesce a burst of changes into one refetch").
NoLostWakeup ==
  view >= due \/ excused \/ signal \/ debounce
    \/ \E l \in ViewLoad : request[l] = Asked \/ (request[l].at = "read" /\ request[l].n >= due)

\* Whatever is not notified, lost or overtaken on the way, the view and its cache
\* end up with what the database holds ("this still catches up").
ViewConverges == <>[](view = written /\ (cache = Idle \/ cache.n = written))

\* The wake-ups of a view neither multiply nor get lost, and the view converges.
LiveSound == OneListener /\ NoLostWakeup
LiveHolds == []LiveSound /\ ViewConverges
=============================================================================
