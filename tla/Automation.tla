----------------------------- MODULE Automation -----------------------------
(***************************************************************************)
(* Recurring jobs and classic backups: the scheduler daemon                *)
(* (src/cmd/scheduler.go, src/internal/scheduler), schedules.json, the     *)
(* archives mongodump writes and their index.json (src/internal/store,     *)
(* src/cmd/backup.go, delete.go, restore.go, src/desktop/backups.go).      *)
(*                                                                         *)
(* Both files are loaded, edited and rewritten in place without a lock, by *)
(* the daemon and by commands or desktop jobs beside it.  Backups made are *)
(* of one database, so an archive's name is the second it was started in.  *)
(* The daemon's ticker is not modelled: an idle daemon may look for due    *)
(* schedules at any time, and fairness says that it does.                  *)
(***************************************************************************)
EXTENDS Naturals, FiniteSets

CONSTANTS Users,       \* commands and desktop jobs beside the daemon
          Daemon,
          Schedules,   \* ids of schedules
          BackupIds,   \* ids of backups
          Kind,        \* what each schedule does: "snapshot" or "backup"
          Interval,    \* of every schedule
          None,
          MaxTime,     \* bound: the clock stops here
          MaxOps,      \* bound: operations of the users
          MaxFaults    \* bound: failed dumps, failed writes, crashes

ASSUME AutomationAssumption ==
  /\ Daemon \notin Users
  /\ Kind \in [Schedules -> {"snapshot", "backup"}]
  /\ Interval \in Nat \ {0} /\ MaxTime \in Nat
  /\ None \notin Nat \cup BackupIds /\ {"partial", "mixed"} \cap BackupIds = {}

VARIABLES
  clock,
  fstate,    \* fstate[f]: of schedules.json and of index.json
  next,      \* NextRun of each schedule in schedules.json
  index,     \* the entries of index.json
  archive,   \* what the file of each name holds
  pc, job,   \* where each task is, and what it does
  copy,      \* what it loaded
  due, at,   \* schedules the daemon's pass has still to fire, and its "now"
  ops, faults,
  \* History
  wanted,    \* NextRun of the schedules the successful operations add up to
  used,      \* ids handed out
  starts,    \* dumps started under each name
  gone,      \* backups whose archive was deleted
  fired,     \* the last two passes in which each schedule was fired
  troubles   \* files with edits that overlapped or were cut short

disk    == <<fstate, next, index, archive>>
tasks   == <<pc, job, copy, due, at>>
history == <<wanted, used, starts, gone, fired, troubles>>
vars    == <<clock, disk, tasks, ops, faults, history>>

Tasks == Users \cup {Daemon}
Files == {"schedules", "index"}
Times == 0..(MaxTime + Interval)
Names == 0..MaxTime

\* Ids are random, so that it does not matter which of the unused ones is taken.
Unused == BackupIds \ used
NewId == CHOOSE b \in Unused : TRUE

\* What a task is busy with.  An edit of a file is its name, the operation and
\* the id; "until" is the NextRun an edit of a schedule sets, or the schedule
\* the daemon's backup is for, "name" the name of its archive.
Work(f, do, i, until, n) == [file |-> f, do |-> do, id |-> i, until |-> until, name |-> n]
NoJob == Work("index", "none", None, 0, 0)
Edit(f, do, i, until) == Work(f, do, i, until, 0)

Scheduled(table) == {s \in Schedules : table[s] # None}
Entry(i, n) == [id |-> i, name |-> n]
Indexed(entries) == {e.id : e \in entries}

Fault == faults < MaxFaults /\ faults' = faults + 1
Goto(t, l) == pc' = [pc EXCEPT ![t] = l]

Tick == clock < MaxTime /\ clock' = clock + 1 /\ UNCHANGED <<disk, tasks, ops, faults, history>>

-----------------------------------------------------------------------------
(* Starting an operation.                                                  *)

Start(t, j, l) ==
  /\ pc[t] = "idle" /\ t \in Users /\ ops < MaxOps
  /\ ops' = ops + 1
  /\ job' = [job EXCEPT ![t] = j] /\ Goto(t, l)
  /\ UNCHANGED <<clock, disk, copy, due, at, faults, wanted, starts, gone, fired, troubles>>

\* scheduler.Add: the first run is one interval away.
AddSchedule(t) ==
  \E s \in Schedules \ used :
    /\ Start(t, Edit("schedules", "add", s, clock + Interval), "load")
    /\ used' = used \cup {s}

RemoveSchedule(t) ==
  \E s \in Schedules \cap used :
    Start(t, Edit("schedules", "remove", s, 0), "load") /\ UNCHANGED used

DeleteBackup(t) ==
  \E b \in BackupIds \cap used :
    Start(t, Edit("index", "delete", b, 0), "load") /\ UNCHANGED used

RestoreBackup(t) ==
  \E b \in BackupIds \cap used :
    Start(t, Edit("index", "restore", b, 0), "load") /\ UNCHANGED used

-----------------------------------------------------------------------------
(* What follows when a task's job ends.                                    *)

\* Mutant: the next run is the one that was just made.
MarkRan_NotAdvanced(s) == Edit("schedules", "mark", s, at)
\* Mutant: two intervals at a time.
MarkRan_Twice(s) == Edit("schedules", "mark", s, at + Interval + Interval)

\* MarkRan advances a schedule from the time of the pass, not of the run.
MarkRan(s) == Edit("schedules", "mark", s, at + Interval)

\* The daemon marks what it fired, whether or not it worked, and then goes
\* on with the pass.
Ends(t) ==
  IF t = Daemon /\ job[t].do = "append"
    THEN /\ job' = [job EXCEPT ![t] = MarkRan(job[t].until)]
         /\ Goto(t, "load")
    ELSE /\ job' = [job EXCEPT ![t] = NoJob]
         /\ Goto(t, IF t = Daemon /\ due # {} THEN "pass" ELSE "idle")

EndsClean(t) == Ends(t) /\ copy' = [copy EXCEPT ![t] = None]

-----------------------------------------------------------------------------
(* A backup: the name and the archive first, the index after the dump.     *)

\* RunBackup up to the start of mongodump, which truncates a file it finds.
DumpStarts(t, s) ==
  /\ Unused # {}
  /\ used' = used \cup {NewId}
  /\ job' = [job EXCEPT ![t] = Work("index", "append", NewId, s, clock)]
  /\ archive' = [archive EXCEPT ![clock] =
                   IF \E u \in Tasks : pc[u] = "dumping" /\ job[u].name = clock
                     THEN "mixed" ELSE "partial"]
  /\ starts' = [starts EXCEPT ![clock] = @ + 1]
  /\ Goto(t, "dumping")
  /\ UNCHANGED <<clock, fstate, next, index, copy, at, faults, wanted, gone, troubles>>

\* A command or a desktop job.
Backup(t) ==
  /\ pc[t] = "idle" /\ ops < MaxOps
  /\ ops' = ops + 1
  /\ DumpStarts(t, None)
  /\ UNCHANGED <<due, fired>>

\* Mutant: the index is written whatever mongodump says.
DumpEnds_Ignored(t) ==
  /\ pc[t] = "dumping"
  /\ \/ archive' = [archive EXCEPT ![job[t].name] = IF @ = "partial" THEN job[t].id ELSE @]
        /\ UNCHANGED faults
     \/ Fault /\ UNCHANGED archive
  /\ Goto(t, "load")
  /\ UNCHANGED <<clock, fstate, next, index, job, copy, due, at, ops, history>>

\* mongodump succeeds, or fails and leaves what it has written.  A file that
\* was deleted meanwhile, or that another dump writes, is not completed.
DumpEnds(t) ==
  /\ pc[t] = "dumping"
  /\ \/ /\ archive' = [archive EXCEPT ![job[t].name] = IF @ = "partial" THEN job[t].id ELSE @]
        /\ Goto(t, "load") /\ UNCHANGED <<job, copy, faults>>
     \/ Fault /\ EndsClean(t) /\ UNCHANGED archive
  /\ UNCHANGED <<clock, fstate, next, index, due, at, ops, history>>

-----------------------------------------------------------------------------
(* Editing a file.                                                         *)

Editing(u, f) == pc[u] \in {"unlink", "save", "write"} /\ job[u].file = f
Content(f) == IF f = "schedules" THEN next ELSE index
EmptyContent(f) == IF f = "schedules" THEN [s \in Schedules |-> None] ELSE {}

\* The schedule or backup an operation needs must be in the file.
Known(j, c) ==
  CASE j.do \in {"add", "append"} -> TRUE
    [] j.do \in {"remove", "mark"} -> c[j.id] # None
    [] OTHER -> j.id \in Indexed(c)

\* Mutant: a new entry replaces the list instead of joining it.
Edited_Replaces(j, c) ==
  CASE j.do = "add" -> [EmptyContent("schedules") EXCEPT ![j.id] = j.until]
    [] j.do = "mark" -> [c EXCEPT ![j.id] = j.until]
    [] j.do = "remove" -> [c EXCEPT ![j.id] = None]
    [] j.do = "append" -> {Entry(j.id, j.name)}
    [] OTHER -> {e \in c : e.id # j.id}

\* Mutant: the list is saved again with what was deleted.
Edited_Keeps(j, c) ==
  CASE j.do \in {"add", "mark"} -> [c EXCEPT ![j.id] = j.until]
    [] j.do = "remove" -> [c EXCEPT ![j.id] = None]
    [] j.do = "append" -> c \cup {Entry(j.id, j.name)}
    [] OTHER -> c

Edited(j, c) ==
  CASE j.do \in {"add", "mark"} -> [c EXCEPT ![j.id] = j.until]
    [] j.do = "remove" -> [c EXCEPT ![j.id] = None]
    [] j.do = "append" -> c \cup {Entry(j.id, j.name)}
    [] OTHER -> {e \in c : e.id # j.id}

\* Load: no file is an empty one, a torn one is an error.
Load(t) ==
  LET j == job[t]
      f == j.file
      c == IF fstate[f] = "ok" THEN Content(f) ELSE EmptyContent(f)
  IN /\ pc[t] = "load"
     /\ \/ /\ fstate[f] \in {"missing", "ok"} /\ Known(j, c)
           /\ copy' = [copy EXCEPT ![t] = c]
           /\ Goto(t, CASE j.do = "delete" -> "unlink" [] j.do = "restore" -> "restore"
                        [] OTHER -> "save")
           /\ UNCHANGED job
        \/ /\ fstate[f] = "torn" \/ ~Known(j, c)
           /\ EndsClean(t)
     /\ troubles' = troubles \cup
          IF j.do # "restore" /\ \E u \in Tasks \ {t} : Editing(u, f) THEN {f} ELSE {}
     /\ UNCHANGED <<clock, disk, due, at, ops, faults, wanted, used, starts, gone, fired>>

NameOf(t) == (CHOOSE e \in copy[t] : e.id = job[t].id).name

\* DeleteBackup: the archive goes first; one that is not there is no error.
Unlink(t) ==
  /\ pc[t] = "unlink"
  /\ archive' = [archive EXCEPT ![NameOf(t)] = None]
  /\ gone' = gone \cup {job[t].id}
  /\ Goto(t, "save")
  /\ UNCHANGED <<clock, fstate, next, index, job, copy, due, at, ops, faults,
                 wanted, used, starts, fired, troubles>>

\* mongorestore reads the archive the entry names, or fails without one.
Restore(t) ==
  /\ pc[t] = "restore"
  /\ EndsClean(t)
  /\ UNCHANGED <<clock, disk, due, at, ops, faults, history>>

\* os.WriteFile truncates, then writes; a crash or a full disk in between
\* leaves a file that does not parse.
Truncate(t) ==
  /\ pc[t] = "save"
  /\ fstate' = [fstate EXCEPT ![job[t].file] = "torn"]
  /\ Goto(t, "write")
  /\ UNCHANGED <<clock, next, index, archive, job, copy, due, at, ops, faults, history>>

Write(t) ==
  LET j == job[t]
  IN /\ pc[t] = "write"
     /\ fstate' = [fstate EXCEPT ![j.file] = "ok"]
     /\ IF j.file = "schedules"
          THEN /\ next' = Edited(j, copy[t])
               /\ wanted' = IF j.do = "mark" /\ wanted[j.id] = None THEN wanted
                            ELSE [wanted EXCEPT ![j.id] = IF j.do = "remove" THEN None ELSE j.until]
               /\ UNCHANGED index
          ELSE index' = Edited(j, copy[t]) /\ UNCHANGED <<next, wanted>>
     /\ EndsClean(t)
     /\ UNCHANGED <<clock, archive, due, at, ops, faults, used, starts, gone, fired, troubles>>

WriteFails(t) ==
  /\ pc[t] = "write" /\ Fault
  /\ EndsClean(t)
  /\ troubles' = troubles \cup {job[t].file}
  /\ UNCHANGED <<clock, disk, due, at, ops, wanted, used, starts, gone, fired>>

-----------------------------------------------------------------------------
(* The daemon.                                                             *)

\* runDue: the schedules that are due now, or an error that ends the pass.
RunDue ==
  /\ pc[Daemon] = "idle"
  /\ fstate["schedules"] = "ok"
  /\ at' = clock
  /\ due' = {s \in Scheduled(next) : next[s] <= clock}
  /\ due' # {}
  /\ Goto(Daemon, "pass")
  /\ UNCHANGED <<clock, disk, job, copy, ops, faults, history>>

\* fireSchedule: a backup is dumped and indexed like any other; of a snapshot
\* only that it takes time and may fail matters here.
Fire ==
  /\ pc[Daemon] = "pass"
  /\ \E s \in due :
       /\ due' = due \ {s}
       /\ fired' = [fired EXCEPT ![s] = [last |-> at, before |-> @.last]]
       /\ \/ Kind[s] = "backup" /\ DumpStarts(Daemon, s)
          \/ /\ Kind[s] = "snapshot" \/ Unused = {}
             /\ job' = [job EXCEPT ![Daemon] = MarkRan(s)]
             /\ Goto(Daemon, "load")
             /\ UNCHANGED <<clock, disk, copy, at, faults, wanted, used, starts, gone, troubles>>
  /\ UNCHANGED ops

-----------------------------------------------------------------------------
\* A task's process is killed; a daemon is started again.
Crash(t) ==
  /\ pc[t] # "idle" /\ Fault
  /\ pc' = [pc EXCEPT ![t] = "idle"]
  /\ job' = [job EXCEPT ![t] = NoJob] /\ copy' = [copy EXCEPT ![t] = None]
  /\ due' = IF t = Daemon THEN {} ELSE due
  /\ troubles' = troubles \cup {job[t].file} \cup IF t = Daemon THEN {"schedules"} ELSE {}
  /\ UNCHANGED <<clock, disk, at, ops, wanted, used, starts, gone, fired>>

Init ==
  /\ clock = 0
  /\ fstate = [f \in Files |-> "missing"]
  /\ next = [s \in Schedules |-> None] /\ index = {}
  /\ archive = [n \in Names |-> None]
  /\ pc = [t \in Tasks |-> "idle"] /\ job = [t \in Tasks |-> NoJob]
  /\ copy = [t \in Tasks |-> None]
  /\ due = {} /\ at = 0 /\ ops = 0 /\ faults = 0
  /\ wanted = next /\ used = {} /\ starts = [n \in Names |-> 0] /\ gone = {}
  /\ fired = [s \in Schedules |-> [last |-> None, before |-> None]]
  /\ troubles = {}

Step(t) ==
  DumpEnds(t) \/ Load(t) \/ Unlink(t) \/ Restore(t) \/ Truncate(t) \/ Write(t)

DaemonStep == RunDue \/ Fire \/ Step(Daemon)

Next ==
  \/ Tick \/ DaemonStep
  \/ \E t \in Users :
       \/ AddSchedule(t) \/ RemoveSchedule(t) \/ Backup(t) \/ DeleteBackup(t) \/ RestoreBackup(t)
       \/ Step(t)
  \/ \E t \in Tasks : WriteFails(t) \/ Crash(t)

\* The daemon runs, and a user's operation that has started goes on.
Spec == Init /\ [][Next]_vars /\ WF_vars(DaemonStep) /\ \A t \in Users : WF_vars(Step(t))

-----------------------------------------------------------------------------
TypeOK ==
  /\ clock \in 0..MaxTime /\ at \in 0..MaxTime
  /\ fstate \in [Files -> {"missing", "torn", "ok"}]
  /\ \A s \in Schedules : next[s] \in Times \cup {None}
  /\ index \subseteq [id : BackupIds, name : Names]
  /\ \A n \in Names : archive[n] \in BackupIds \cup {None, "partial", "mixed"}
  /\ pc \in [Tasks -> {"idle", "pass", "dumping", "load", "unlink", "restore",
                       "save", "write"}]
  /\ due \subseteq Schedules

\* Names are seconds: two backups may have one.
Shared(n) == starts[n] > 1

Quiet == \A t \in Tasks : pc[t] \in {"idle", "pass"}

\* Schedules survive (scheduler.go:98-181): the file holds exactly what was
\* added, not removed, and marked, after edits of the daemon and of commands
\* that did not overlap and were not cut short.
SchedulesSurvive ==
  Quiet /\ "schedules" \notin troubles =>
    next = wanted /\ (fstate["schedules"] = "ok" \/ Scheduled(wanted) = {})

\* An entry of the index has its own archive (backups.go:60-83, delete.go:33-44),
\* unless two backups were started in the same second, or a deletion that took
\* the archive is under way, was cut short, or lost its edit to another one.
EntryHasArchive ==
  fstate["index"] = "ok" =>
    \A e \in index :
      \/ archive[e.name] = e.id
      \/ Shared(e.name)
      \/ /\ e.id \in gone
         /\ \/ \E t \in Tasks : job[t].do = "delete" /\ job[t].id = e.id
            \/ "index" \in troubles

\* A complete archive is in the index (backups.go:89-130), unless its backup is
\* under way, was cut short, or lost its edit to another one.
ArchiveIsIndexed ==
  fstate["index"] = "ok" =>
    \A n \in Names :
      archive[n] \in BackupIds =>
        \/ Entry(archive[n], n) \in index
        \/ \E t \in Tasks : job[t].do = "append" /\ job[t].id = archive[n]
        \/ "index" \in troubles

\* A restore reads the whole archive of the backup it was asked for, or none
\* (restore.go:33-77, backups.go:133-164): whatever is deleted, dumped, cut
\* short or overlaps meanwhile, but not when two backups share a name.
RestoreReadsOwn ==
  \A t \in Users :
    pc[t] = "restore" =>
      archive[NameOf(t)] \in {job[t].id, None} \/ Shared(NameOf(t))

\* The passes that fire one schedule are an interval apart ("so a delayed run
\* doesn't cause runs to bunch up", scheduler.go:158-160), after crashes in
\* between, failed writes and overlapping edits excepted (cmd/scheduler.go:138).
FiresSpaced ==
  "schedules" \notin troubles =>
    \A s \in Schedules :
      fired[s].before # None => fired[s].before + Interval <= fired[s].last

\* A schedule that is due is fired, marked on or removed (cmd/scheduler.go:95-143),
\* also when others fail or take long, as long as the file is not torn or edited
\* by two at once.
DueFires ==
  \A s \in Schedules :
    (next[s] # None /\ next[s] <= clock) ~> (next[s] = None \/ next[s] > clock \/ "schedules" \in troubles)

\* schedules.json holds the schedules that were added and not removed, and none
\* of them fires again before its interval has passed.
SchedulesAreKept == TypeOK /\ SchedulesSurvive /\ FiresSpaced

\* index.json and the archives agree, and a restore reads what its entry names.
ArchivesAreKept == EntryHasArchive /\ ArchiveIsIndexed /\ RestoreReadsOwn
=============================================================================
