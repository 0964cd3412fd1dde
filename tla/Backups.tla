------------------------------ MODULE Backups ------------------------------
(***************************************************************************)
(* The operators' scripts beside the database: the nightly dump with its   *)
(* rolling window, the wipe that dumps first, and the restore that drops   *)
(* the database before it loads.  They share one directory, and nothing    *)
(* keeps one of them, or the API that writes tickets, from running while   *)
(* another does.                                                           *)
(***************************************************************************)
EXTENDS Naturals, FiniteSets

CONSTANTS Keep,      \* KEEP: files of each kind in the rolling window
          MaxDumps,  \* bound: dumps begun
          MaxWipes,  \* bound: wipes begun
          MaxRows    \* bound: tickets written by the API

\* A wipe is one file more in the window of the nightly dumps.
ASSUME BackupsAssumption == Keep \in Nat /\ MaxDumps \in Nat /\ MaxWipes \in 0..Keep - 1
                            /\ MaxRows \in Nat

VARIABLES dumps,    \* qlhs-*.dump*: [id, at (mtime), whole, rows, upto], by whom
          globals,  \* globals-*.sql*: [id, at, whole], of the run of that dump
          nightly,  \* backup.sh: what it writes, and of which run
          wiper,    \* wipe-tickets.sh, the same
          restorer, \* restore.sh: the dump it loads
          database, \* the tickets in it
          schema,   \* whether it has the tables: not until a restore creates them
          latest,   \* tickets are numbered as they are written
          made,     \* every dump that was ever completed; paired: its run was too
          writes,   \* writes[i]: when dump i was last written to
          wipes,    \* wipes begun
          wiped,    \* <<ticket, dump>>: erased by the wipe of that dump
          clock

backupVars == <<dumps, globals, nightly, wiper, restorer, database, schema, latest,
                made, writes, wipes, wiped, clock>>
Data == <<database, schema, latest>>

DumpIds == 1..MaxDumps
Resting == [doing |-> "idle", id |-> 0]
\* A restore terminates the session of a dump under way, which then fails.
CutOff(script) == IF script.doing = "dump" THEN [script EXCEPT !.doing = "cut"] ELSE script
NoRestore == [doing |-> "idle", id |-> 0, rows |-> {}]

Newer(f, files) == {g \in files : g.at > f.at}

BackupsInit ==
  /\ dumps = {} /\ globals = {} /\ made = {}
  /\ nightly = Resting /\ wiper = Resting /\ restorer = NoRestore
  /\ database = {} /\ schema = TRUE /\ latest = 0
  /\ wipes = 0 /\ wiped = {}
  /\ writes = [i \in DumpIds |-> 0] /\ clock = 0

Written(i) == /\ clock' = clock + 1
              /\ writes' = [writes EXCEPT ![i] = clock + 1]

-----------------------------------------------------------------------------
\* pg_dump opens its .partial and takes its snapshot ...
BeginDump(i) == /\ writes[i] = 0 /\ \A j \in DumpIds : j < i => writes[j] > 0
                /\ Written(i)
                /\ dumps' = dumps \cup
                     {[id |-> i, at |-> clock + 1, whole |-> FALSE,
                       rows |-> database, upto |-> latest]}

\* ... and renames it when it is done.
FinishDump(i) ==
  /\ Written(i)
  /\ \E f \in dumps : /\ f.id = i
                      /\ dumps' = (dumps \ {f}) \cup {[f EXCEPT !.at = clock + 1, !.whole = TRUE]}
                      /\ made' = made \cup {[id |-> i, rows |-> f.rows,
                                              upto |-> f.upto, paired |-> FALSE]}

Without(files, i) == {f \in files : f.id # i}

-----------------------------------------------------------------------------
\* The API files a ticket, or changes one, while it finds the tables.
ApiWrites == /\ schema /\ latest < MaxRows
             /\ latest' = latest + 1
             /\ database' = database \cup {latest + 1}
             /\ UNCHANGED <<dumps, globals, nightly, wiper, restorer, schema, made, writes,
                            wipes, wiped, clock>>

-----------------------------------------------------------------------------
(***************************************************************************)
(* backup.sh                                                               *)
(***************************************************************************)
\* prune: the newest KEEP that match the glob, a .partial among them.
Pruned(files) == {f \in files : Cardinality(Newer(f, files)) < Keep}

StartNight(i) == /\ nightly = Resting
                 /\ nightly' = [doing |-> "dump", id |-> i]
                 /\ BeginDump(i)
                 /\ UNCHANGED <<globals, wiper, restorer, Data, wipes, wiped, made>>

NightDumped == /\ nightly.doing = "dump"
               /\ FinishDump(nightly.id)
               /\ nightly' = [nightly EXCEPT !.doing = "globals"]
               /\ globals' = globals \cup {[id |-> nightly.id, at |-> clock + 1, whole |-> FALSE]}
               /\ UNCHANGED <<wiper, restorer, Data, wipes, wiped>>

NightDone == /\ nightly.doing = "globals"
             /\ nightly' = Resting
             /\ clock' = clock + 1
             /\ dumps' = Pruned(dumps)
             /\ globals' = Pruned(Without(globals, nightly.id) \cup
                             {[id |-> nightly.id, at |-> clock + 1, whole |-> TRUE]})
             /\ made' = {[m EXCEPT !.paired = @ \/ m.id = nightly.id] : m \in made}
             /\ UNCHANGED <<wiper, restorer, Data, wipes, wiped, writes>>

\* A failing dump removes its .partial and ends the run before the pruning.
NightFails ==
  /\ nightly # Resting
  /\ nightly' = Resting
  /\ \/ nightly.doing \in {"dump", "cut"} /\ dumps' = Without(dumps, nightly.id) /\ UNCHANGED globals
     \/ nightly.doing = "globals" /\ globals' = Without(globals, nightly.id) /\ UNCHANGED dumps
  /\ UNCHANGED <<wiper, restorer, Data, wipes, wiped, made, writes, clock>>

\* The container stops: the .partial stays.
NightCrashes == /\ nightly # Resting
                /\ nightly' = Resting
                /\ UNCHANGED <<dumps, globals, wiper, restorer, Data, wipes, wiped, made, writes, clock>>

-----------------------------------------------------------------------------
(***************************************************************************)
(* wipe-tickets.sh and restore.sh, started by hand.                        *)
(***************************************************************************)
StartWipe(i) == /\ wiper = Resting /\ wipes < MaxWipes
                /\ wipes' = wipes + 1
                /\ wiper' = [doing |-> "dump", id |-> i]
                /\ BeginDump(i)
                /\ UNCHANGED <<globals, nightly, restorer, Data, wiped, made>>

SafetyDumped == /\ wiper.doing = "dump"
                /\ FinishDump(wiper.id)
                /\ wiper' = [wiper EXCEPT !.doing = "truncate"]
                /\ UNCHANGED <<globals, nightly, restorer, Data, wipes, wiped>>

\* TRUNCATE erases what the tables hold by now, and fails if there are none.
Erase == /\ schema
         /\ wiper' = Resting
         /\ wiped' = wiped \cup (database \X {wiper.id}) /\ database' = {}
         /\ UNCHANGED <<dumps, globals, nightly, restorer, schema, latest, made, writes,
                        wipes, clock>>

\* Fault: the wipe goes on without its safety dump.
TruncateAnyway == wiper # Resting /\ Erase

Truncate == wiper.doing = "truncate" /\ Erase

\* set -e: the first command that fails ends the script; a .partial stays.
WipeFails == /\ wiper # Resting
             /\ wiper' = Resting
             /\ UNCHANGED <<dumps, globals, nightly, restorer, Data, wipes, wiped, made,
                            writes, clock>>

\* Sessions are terminated, then the database is dropped and created, unless one has
\* come back meanwhile: only then does the script open the dump, or find that it has
\* no passphrase for it.
DropDatabase(f) ==
  /\ f.whole /\ restorer = NoRestore
  /\ nightly' = CutOff(nightly) /\ wiper' = CutOff(wiper)
  /\ \/ /\ restorer' = [doing |-> "open", id |-> f.id, rows |-> f.rows]
        /\ database' = {} /\ schema' = FALSE
     \/ UNCHANGED <<restorer, database, schema>>
  /\ UNCHANGED <<dumps, globals, latest, made, writes, wipes, wiped, clock>>

\* pg_restore creates the tables, then fills them; it is not one transaction.
CreateTables == /\ restorer.doing = "open" /\ \E f \in dumps : f.id = restorer.id
                /\ restorer' = [restorer EXCEPT !.doing = "load"]
                /\ schema' = TRUE
                /\ UNCHANGED <<dumps, globals, nightly, wiper, database, latest, made, writes,
                               wipes, wiped, clock>>

LoadDump == /\ restorer.doing = "load"
            /\ restorer' = NoRestore
            /\ database' = database \cup restorer.rows
            /\ UNCHANGED <<dumps, globals, nightly, wiper, schema, latest, made, writes, wipes,
                           wiped, clock>>

LoadFails == /\ restorer # NoRestore
             /\ restorer' = NoRestore
             /\ UNCHANGED <<dumps, globals, nightly, wiper, Data, wipes, wiped, made, writes,
                            clock>>

BackupsNext ==
  \/ \E i \in DumpIds : StartNight(i) \/ StartWipe(i)
  \/ NightDumped \/ NightDone \/ NightFails \/ NightCrashes
  \/ SafetyDumped \/ Truncate \/ WipeFails
  \/ \E f \in dumps : DropDatabase(f)
  \/ CreateTables \/ LoadDump \/ LoadFails \/ ApiWrites

BackupsSpec == BackupsInit /\ [][BackupsNext]_backupVars
-----------------------------------------------------------------------------
\* A dump once completed stays until KEEP others were written after it, whatever
\* fails, crashes or runs beside: "kept as a rolling window".
RollingWindow ==
  \A m \in made :
    \/ \E f \in dumps : f.id = m.id
    \/ Cardinality({i \in DumpIds : writes[i] > writes[m.id]}) >= Keep

\* "So this wipe is undoable": a ticket that a wipe erased is in a completed dump, unless
\* it was written after the wipe's own dump, which was completed, had taken its snapshot.
WipeUndoable ==
  \A gone \in wiped : \E m \in made :
    gone[1] \in m.rows \/ (m.id = gone[2] /\ gone[1] > m.upto)

\* "A restore is SELF-CONTAINED": the roles of a completed run stay as long as its
\* dump does, though each kind of file has a window of its own; and once a run was
\* completed there always is such a pair.
PairsKept ==
  LET Pair(m) == /\ \E f \in dumps : f.id = m.id
                 /\ \E g \in globals : g.id = m.id /\ g.whole
      complete == {m \in made : m.paired}
  IN  /\ \A m \in complete : (\E f \in dumps : f.id = m.id) => Pair(m)
      /\ complete # {} => \E m \in complete : Pair(m)

\* The backups keep what an operator relies on.
BackupsSound == RollingWindow /\ WipeUndoable /\ PairsKept
=============================================================================
