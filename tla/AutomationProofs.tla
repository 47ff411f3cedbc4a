-------------------------- MODULE AutomationProofs --------------------------
(***************************************************************************)
(* The scheduler and the classic backups, for any number of users,         *)
(* schedules and backups: schedules.json holds what its edits add up to    *)
(* and no schedule fires twice within its interval; index.json and the     *)
(* archives agree, and a restore reads what its entry names.               *)
(*                                                                         *)
(* The invariant has three parts on top of the types: a file without       *)
(* trouble has one editor, whose copy is the file (EditInv); what the      *)
(* daemon has fired and not yet marked is with its one job (SchedInv);     *)
(* names and ids that the index, the copies, the dumps and the archives    *)
(* lay claim to do not clash (ArchInv).                                    *)
(***************************************************************************)
EXTENDS Automation, TLAPS

Instants == 0..MaxTime
Entries == [id : BackupIds, name : Names]
Table   == [Schedules -> Times \cup {None}]
Labels  == {"idle", "pass", "dumping", "load", "unlink", "restore", "save", "write"}
Jobs    ==
  [file : Files, do : {"none", "add", "remove", "mark", "append", "delete", "restore"},
   id : Schedules \cup BackupIds \cup {None},
   until : Times \cup Schedules \cup {None}, name : Names]

\* Types: the data, and below it the tasks.
DataInv ==
  /\ clock \in Instants /\ at \in Instants
  /\ fstate \in [Files -> {"missing", "torn", "ok"}]
  /\ next \in Table /\ wanted \in Table
  /\ index \subseteq Entries
  /\ archive \in [Names -> BackupIds \cup {None, "partial", "mixed"}]
  /\ due \subseteq Schedules /\ gone \subseteq BackupIds /\ troubles \subseteq Files
  /\ starts \in [Names -> Nat]
  /\ fired \in [Schedules -> [last : Instants \cup {None}, before : Instants \cup {None}]]

\* What a task may be doing at a label.
JobOK(t, j, l) ==
  /\ l \in {"idle", "pass"} => j = NoJob
  /\ l = "pass" => t = Daemon
  /\ l = "dumping" => j.do = "append"
  /\ l = "unlink" => j.do = "delete"
  /\ l = "restore" => j.do = "restore"
  /\ l = "load" => j.do # "none"
  /\ l \in {"save", "write"} => j.do \in {"add", "remove", "mark", "append", "delete"}
  /\ j.do \in {"add", "remove", "mark"} =>
       j.file = "schedules" /\ j.id \in Schedules /\ j.until \in Times
  /\ j.do \in {"append", "delete", "restore"} => j.file = "index" /\ j.id \in BackupIds
  /\ j.do = "mark" => t = Daemon
  /\ j.do = "append" /\ t = Daemon => j.until \in Schedules

\* What it has loaded when it works on a file.
Busy == {"unlink", "restore", "save", "write"}

CopyOK(j, l, c) ==
  /\ l \in Busy /\ j.file = "schedules" => c \in Table
  /\ l \in Busy /\ j.file = "index" => c \subseteq Entries
  /\ l \in {"unlink", "restore"} => \E e \in c : e.id = j.id
  /\ l \in {"save", "write"} /\ j.do = "mark" => c[j.id] # None

TaskInv ==
  /\ pc \in [Tasks -> Labels] /\ job \in [Tasks -> Jobs] /\ copy = [t \in Tasks |-> copy[t]]
  /\ \A t \in Tasks : JobOK(t, job[t], pc[t]) /\ CopyOK(job[t], pc[t], copy[t])

Shape == DataInv /\ TaskInv

Holding(t) == pc[t] \in Busy

\* A file with no trouble has one editor.
FileInv(f) ==
  /\ fstate[f] = "missing" => Content(f) = EmptyContent(f)
  /\ f \notin troubles =>
       /\ \A t, u \in Tasks : Editing(t, f) /\ Editing(u, f) => t = u
       /\ \A t \in Tasks : Editing(t, f) => copy[t] = Content(f)
       /\ fstate[f] = "torn" => \E t \in Tasks : pc[t] = "write" /\ job[t].file = f

EditInv == \A f \in Files : FileInv(f)

\* The daemon has fired a schedule and has not yet marked it.
Firing(s) ==
  \/ job[Daemon].do = "append" /\ job[Daemon].until = s
  \/ job[Daemon].do = "mark" /\ job[Daemon].id = s

Adding(t, s) == job[t].do = "add" /\ job[t].id = s

\* A schedule that has never been in the file.
New(s) == next[s] = None /\ fired[s].last = None /\ s \notin due

\* What the daemon still has to mark, it fired in its last pass.
DaemonInv ==
  /\ \A s \in Schedules : Firing(s) => fired[s].last = at
  /\ job[Daemon].do = "mark" => job[Daemon].until = at + Interval

\* As long as the edits of schedules.json neither overlap nor are cut short.
ScheduleInv ==
  "schedules" \notin troubles =>
    /\ next = wanted
    /\ \A s \in Schedules : s \notin used => New(s)
    /\ \A t \in Tasks, s \in Schedules : Adding(t, s) =>
         s \in used /\ New(s) /\ \A u \in Tasks : Adding(u, s) => u = t
    /\ \A s \in due : fired[s].last # None => fired[s].last + Interval <= at
    /\ \A s \in Schedules :
         fired[s].last # None /\ ~Firing(s) /\ next[s] # None
           => fired[s].last + Interval <= next[s]
    /\ \A s \in Schedules :
         fired[s].before # None => fired[s].before + Interval <= fired[s].last

\* An entry has a place in the index or in a copy of it, a dump, or an archive.
ListedIn(e) ==
  \/ e \in index
  \/ \E t \in Tasks : Holding(t) /\ job[t].file = "index" /\ e \in copy[t]
Appending(t, e) == job[t].do = "append" /\ job[t].id = e.id /\ job[t].name = e.name
Stored(e) == archive[e.name] = e.id
Claim(e) == ListedIn(e) \/ Stored(e) \/ \E t \in Tasks : Appending(t, e)

\* An id has one name, and a name that one backup was started under one id.
ClaimInv ==
  /\ \A e \in Entries : Claim(e) => e.id \in used /\ starts[e.name] > 0
  /\ \A e, f \in Entries : Claim(e) /\ Claim(f) /\ e.id = f.id => e = f
  /\ \A e, f \in Entries :
       Claim(e) /\ Claim(f) /\ e.name = f.name /\ starts[e.name] = 1 => e = f
  /\ gone \subseteq used

\* A backup that is not in the index yet.
AppendInv ==
  /\ \A t, u \in Tasks : job[t].do = "append" /\ job[u].do = "append" /\ job[t].id = job[u].id => t = u
  /\ \A t \in Tasks, e \in Entries : Appending(t, e) =>
       /\ ~ListedIn(e) /\ e.id \notin gone
       /\ pc[t] = "dumping" => ~Stored(e)
       /\ pc[t] = "dumping" /\ starts[e.name] = 1 => archive[e.name] = "partial"
       /\ pc[t] # "dumping" /\ starts[e.name] = 1 => Stored(e)

\* An entry has its archive until its deletion; a deletion in progress has
\* removed the archive, and what is complete is listed or about to be.
ArchiveInv ==
  /\ \A e \in Entries : ListedIn(e) /\ starts[e.name] = 1 =>
       Stored(e) \/ (e.id \in gone /\ archive[e.name] = None)
  /\ \A e \in Entries : Stored(e) => e.id \notin gone
  /\ \A t \in Tasks : job[t].do = "delete" /\ pc[t] \in {"save", "write"} => job[t].id \in gone
  /\ "index" \notin troubles =>
       /\ \A e \in index : e.id \in gone =>
            \E t \in Tasks : job[t].do = "delete" /\ job[t].id = e.id /\ pc[t] \in {"save", "write"}
       /\ \A e \in Entries : Stored(e) => e \in index \/ \E t \in Tasks : Appending(t, e)

-----------------------------------------------------------------------------
(* Operators.                                                              *)

LEMMA Constants ==
    /\ Daemon \in Tasks /\ Users \subseteq Tasks /\ Daemon \notin Users
    /\ MaxTime \in Nat /\ Interval \in Nat \ {0}
    /\ Instants \subseteq Times /\ Instants \subseteq Nat /\ Times \subseteq Nat
    /\ \A c \in Instants : c + Interval \in Times
    /\ None \notin Times /\ None \notin BackupIds
    /\ 0 \in Names /\ Names = Instants /\ 0 \in Times
<1>1. Daemon \in Tasks /\ Users \subseteq Tasks /\ Daemon \notin Users
  BY AutomationAssumption DEF Tasks
<1>2. MaxTime \in Nat /\ Interval \in Nat \ {0}
  BY AutomationAssumption
<1>3. Times \subseteq Nat /\ Instants \subseteq Nat /\ Instants \subseteq Times /\ 0 \in Instants
  BY <1>2 DEF Instants, Times
<1>4. \A c \in Instants : c + Interval \in Times
  BY <1>2 DEF Instants, Times
<1>5. None \notin Times /\ None \notin BackupIds
  BY <1>3, AutomationAssumption
<1>6. Names = Instants
  BY DEF Names, Instants
<1>7. 0 \in Names /\ 0 \in Times
  BY <1>3, <1>6
<1> QED BY <1>1, <1>2, <1>3, <1>4, <1>5, <1>6, <1>7, Zenon

LEMMA NoJobFields == NoJob \in Jobs /\ NoJob.do = "none" /\ NoJob.file = "index" /\ NoJob.id = None
  BY Constants DEF NoJob, Work, Jobs, Files

-----------------------------------------------------------------------------
(* The tasks.                                                              *)

\* A step of a task moves that task only.
Moves(t) ==
  /\ pc' = [pc EXCEPT ![t] = pc'[t]] /\ job' = [job EXCEPT ![t] = job'[t]]
  /\ copy' = [copy EXCEPT ![t] = copy'[t]]

Arrives(t) ==
  /\ Moves(t) /\ pc'[t] \in Labels /\ job'[t] \in Jobs
  /\ JobOK(t, job'[t], pc'[t]) /\ CopyOK(job'[t], pc'[t], copy'[t])

LEMMA ArrivesTask ==
    ASSUME TaskInv, NEW t \in Tasks, Arrives(t)
    PROVE  TaskInv'
<1>1. pc' \in [Tasks -> Labels] /\ job' \in [Tasks -> Jobs]
  BY DEF TaskInv, Arrives, Moves
<1>2. copy' = [u \in Tasks |-> copy'[u]]
  BY DEF TaskInv, Arrives, Moves
<1>3. ASSUME NEW u \in Tasks PROVE JobOK(u, job'[u], pc'[u]) /\ CopyOK(job'[u], pc'[u], copy'[u])
  <2>1. CASE u = t
    BY <2>1 DEF Arrives
  <2>2. CASE u # t
    <3>1. pc'[u] = pc[u] /\ job'[u] = job[u] /\ copy'[u] = copy[u]
      BY <2>2 DEF TaskInv, Arrives, Moves
    <3> QED BY <3>1 DEF TaskInv
  <2> QED BY <2>1, <2>2
<1> QED BY <1>1, <1>2, <1>3 DEF TaskInv

\* Where a task is, and what it does, when its job ends.
Ended(t) ==
  \/ /\ job'[t] = NoJob /\ (t = Daemon => job[t].do # "append")
     /\ pc'[t] = IF t = Daemon /\ due # {} THEN "pass" ELSE "idle"
  \/ /\ t = Daemon /\ job[t].do = "append" /\ pc'[t] = "load"
     /\ job'[t] = MarkRan(job[t].until)

LEMMA EndsEnded ==
    ASSUME Shape, NEW t \in Tasks, EndsClean(t)
    PROVE  Ended(t) /\ Arrives(t) /\ copy'[t] = None
<1>1. pc \in [Tasks -> Labels] /\ job \in [Tasks -> Jobs] /\ copy = [u \in Tasks |-> copy[u]]
  BY DEF Shape, TaskInv
<1>2. copy'[t] = None /\ copy' = [copy EXCEPT ![t] = copy'[t]]
  BY <1>1 DEF EndsClean
<1>3. CASE t = Daemon /\ job[t].do = "append"
  <2>1. pc'[t] = "load" /\ job'[t] = MarkRan(job[t].until) /\ Moves(t)
    BY <1>1, <1>2, <1>3 DEF EndsClean, Ends, Goto, Moves
  <2>2. job[t].until \in Schedules /\ at + Interval \in Times
    BY <1>3, Constants DEF Shape, TaskInv, JobOK, DataInv
  <2>3. job'[t] \in Jobs
    BY <2>1, <2>2, Constants DEF MarkRan, Edit, Work, Jobs, Files
  <2>4. JobOK(t, job'[t], pc'[t])
    BY <2>1, <2>2, <1>3 DEF MarkRan, Edit, Work, JobOK
  <2>5. CopyOK(job'[t], pc'[t], copy'[t])
    BY <2>1 DEF CopyOK, Busy
  <2> QED BY <2>1, <2>3, <2>4, <2>5, <1>2, <1>3 DEF Ended, Arrives, Labels
<1>4. CASE ~(t = Daemon /\ job[t].do = "append")
  <2>1. /\ pc'[t] = (IF t = Daemon /\ due # {} THEN "pass" ELSE "idle")
        /\ job'[t] = NoJob /\ Moves(t)
    BY <1>1, <1>2, <1>4 DEF EndsClean, Ends, Goto, Moves
  <2>2. JobOK(t, job'[t], pc'[t])
    BY <2>1, NoJobFields DEF JobOK
  <2>3. CopyOK(job'[t], pc'[t], copy'[t])
    BY <2>1 DEF CopyOK, Busy
  <2> QED BY <2>1, <2>2, <2>3, <1>2, <1>4, NoJobFields DEF Ended, Arrives, Labels
<1> QED BY <1>3, <1>4

\* What an operation of a user starts with.
LEMMA StartArrives ==
    ASSUME Shape, NEW t \in Tasks, NEW j \in Jobs, Start(t, j, "load"),
           j.do # "none", JobOK(t, j, "load")
    PROVE  Arrives(t) /\ pc'[t] = "load" /\ job'[t] = j /\ DataInv'
<1>1. Moves(t) /\ pc'[t] = "load" /\ job'[t] = j
  BY DEF Start, Goto, Moves, Shape, TaskInv
<1>2. CopyOK(job'[t], pc'[t], copy'[t])
  BY <1>1 DEF CopyOK, Busy
<1>3. DataInv'
  BY DEF Start, Shape, DataInv, disk
<1> QED BY <1>1, <1>2, <1>3 DEF Arrives, Labels

\* The operations of the users that edit a file.
Edits(t) == AddSchedule(t) \/ RemoveSchedule(t) \/ DeleteBackup(t) \/ RestoreBackup(t)

LEMMA EditsShape ==
    ASSUME Shape, NEW t \in Users, Edits(t)
    PROVE  /\ Arrives(t) /\ DataInv' /\ pc[t] = "idle" /\ pc'[t] = "load"
           /\ UNCHANGED <<clock, disk, due, at, wanted, starts, gone, fired, troubles>>
           /\ \/ job'[t].do = "add" /\ job'[t].id \in Schedules \ used /\ used' = used \cup {job'[t].id}
              \/ job'[t].do \notin {"add", "append", "mark"} /\ used' = used
<1> USE Constants
<1>0. clock + Interval \in Times
  BY DEF Shape, DataInv
<1>1. CASE AddSchedule(t)
  <2>1. PICK s \in Schedules \ used :
          Start(t, Edit("schedules", "add", s, clock + Interval), "load") /\ used' = used \cup {s}
    BY <1>1 DEF AddSchedule
  <2> DEFINE j == Edit("schedules", "add", s, clock + Interval)
  <2>2. j \in Jobs /\ JobOK(t, j, "load") /\ j.do = "add" /\ j.id = s
    BY <1>0 DEF Edit, Work, Jobs, Files, JobOK
  <2> HIDE DEF j
  <2>3. Arrives(t) /\ pc'[t] = "load" /\ job'[t] = j /\ DataInv'
    BY <2>1, <2>2, StartArrives DEF j
  <2> QED BY <2>1, <2>2, <2>3 DEF Start
<1>2. CASE RemoveSchedule(t)
  <2>1. PICK s \in Schedules : Start(t, Edit("schedules", "remove", s, 0), "load") /\ used' = used
    BY <1>2 DEF RemoveSchedule
  <2> DEFINE j == Edit("schedules", "remove", s, 0)
  <2>2. j \in Jobs /\ JobOK(t, j, "load") /\ j.do = "remove"
    BY DEF Edit, Work, Jobs, Files, JobOK
  <2> HIDE DEF j
  <2>3. Arrives(t) /\ pc'[t] = "load" /\ job'[t] = j /\ DataInv'
    BY <2>1, <2>2, StartArrives DEF j
  <2> QED BY <2>1, <2>2, <2>3 DEF Start
<1>3. CASE DeleteBackup(t) \/ RestoreBackup(t)
  <2>1. PICK b \in BackupIds, do \in {"delete", "restore"} :
          Start(t, Edit("index", do, b, 0), "load") /\ used' = used
    BY <1>3 DEF DeleteBackup, RestoreBackup
  <2> DEFINE j == Edit("index", do, b, 0)
  <2>2. j \in Jobs /\ JobOK(t, j, "load") /\ j.do = do
    BY DEF Edit, Work, Jobs, Files, JobOK
  <2> HIDE DEF j
  <2>3. Arrives(t) /\ pc'[t] = "load" /\ job'[t] = j /\ DataInv'
    BY <2>1, <2>2, StartArrives DEF j
  <2> QED BY <2>1, <2>2, <2>3 DEF Start
<1> QED BY <1>1, <1>2, <1>3 DEF Edits

\* A dump of a user or of the daemon.
LEMMA DumpStartsShape ==
    ASSUME Shape, NEW t \in Tasks, NEW s \in Schedules \cup {None}, DumpStarts(t, s),
           t = Daemon => s \in Schedules
    PROVE  Arrives(t) /\ pc'[t] = "dumping" /\ job'[t] = Work("index", "append", NewId, s, clock)
           /\ NewId \in BackupIds \ used
<1>1. NewId \in Unused
  BY DEF DumpStarts, NewId
<1>2. NewId \in BackupIds \ used
  BY <1>1 DEF Unused
<1> DEFINE j == Work("index", "append", NewId, s, clock)
<1>3. Moves(t) /\ pc'[t] = "dumping" /\ job'[t] = j
  BY DEF DumpStarts, Goto, Moves, Shape, TaskInv
<1>4. j \in Jobs /\ JobOK(t, j, "dumping")
  BY <1>2, Constants DEF Work, Jobs, Files, JobOK, Shape, DataInv
<1>5. CopyOK(job'[t], pc'[t], copy'[t])
  BY <1>3 DEF CopyOK, Busy
<1> QED BY <1>2, <1>3, <1>4, <1>5 DEF Arrives, Labels

LEMMA DumpStartsData ==
    ASSUME Shape, NEW t \in Tasks, NEW s \in Schedules \cup {None}, DumpStarts(t, s),
           due' \subseteq Schedules, fired' = fired \/ fired' \in [Schedules -> [last : Instants \cup {None}, before : Instants \cup {None}]]
    PROVE  DataInv'
  BY Constants DEF DumpStarts, Shape, DataInv

LEMMA DumpEndsShape ==
    ASSUME Shape, NEW t \in Tasks, DumpEnds(t)
    PROVE  /\ Arrives(t) /\ DataInv' /\ pc[t] = "dumping" /\ job[t].do = "append"
           /\ \/ /\ pc'[t] = "load" /\ job'[t] = job[t]
                 /\ archive' = [archive EXCEPT ![job[t].name] =
                                 IF @ = "partial" THEN job[t].id ELSE @]
              \/ Ended(t) /\ copy'[t] = None /\ archive' = archive
<1>0. job[t] \in Jobs /\ JobOK(t, job[t], "dumping") /\ pc[t] = "dumping" /\ job[t].do = "append"
  BY DEF DumpEnds, Shape, TaskInv, JobOK
<1>1. CASE EndsClean(t) /\ archive' = archive
  <2>1. Ended(t) /\ Arrives(t) /\ copy'[t] = None
    BY <1>1, EndsEnded
  <2>2. DataInv'
    BY <1>1 DEF DumpEnds, history, Shape, DataInv
  <2> QED BY <2>1, <2>2, <1>0, <1>1
<1>2. CASE /\ archive' = [archive EXCEPT ![job[t].name] = IF @ = "partial" THEN job[t].id ELSE @]
           /\ Goto(t, "load") /\ UNCHANGED <<job, copy, faults>>
  <2>1. Moves(t) /\ pc'[t] = "load" /\ job'[t] = job[t]
    BY <1>2 DEF Goto, Moves, Shape, TaskInv
  <2>2. JobOK(t, job[t], "load")
    BY <1>0 DEF JobOK
  <2>3. CopyOK(job'[t], pc'[t], copy'[t])
    BY <2>1 DEF CopyOK, Busy
  <2>4. job[t].id \in BackupIds
    BY <1>0 DEF JobOK
  <2>5. DataInv'
    BY <1>2, <2>4 DEF DumpEnds, history, Shape, DataInv
  <2> QED BY <1>0, <1>2, <2>1, <2>2, <2>3, <2>5 DEF Arrives, Labels
<1> QED BY <1>1, <1>2 DEF DumpEnds

\* What an edit finds in its file.
Found(f) == IF fstate[f] = "ok" THEN Content(f) ELSE EmptyContent(f)

LEMMA FoundType ==
    ASSUME DataInv, NEW f \in Files
    PROVE  /\ f = "schedules" => Found(f) \in Table /\ Content(f) = next
           /\ f = "index" => Found(f) \subseteq Entries /\ Content(f) = index
  BY DEF DataInv, Found, Content, EmptyContent, Files, Table

Loads(t) ==
  /\ fstate[job[t].file] \in {"missing", "ok"} /\ Known(job[t], Found(job[t].file))
  /\ copy'[t] = Found(job[t].file) /\ job'[t] = job[t]
  /\ pc'[t] = CASE job[t].do = "delete" -> "unlink" [] job[t].do = "restore" -> "restore"
                [] OTHER -> "save"

Turned(t) ==
  /\ fstate[job[t].file] = "torn" \/ ~Known(job[t], Found(job[t].file))
  /\ Ended(t) /\ copy'[t] = None

LEMMA LoadShape ==
    ASSUME Shape, NEW t \in Tasks, Load(t)
    PROVE  /\ Arrives(t) /\ DataInv' /\ pc[t] = "load"
           /\ Loads(t) \/ Turned(t)
<1>0. job[t] \in Jobs /\ JobOK(t, job[t], "load") /\ pc[t] = "load"
  BY DEF Load, Shape, TaskInv
<1>1. job[t].file \in Files
  BY <1>0 DEF Jobs
<1>2. DataInv'
  BY <1>1 DEF Load, Shape, DataInv, disk
<1>3. CASE EndsClean(t) /\ (fstate[job[t].file] = "torn" \/ ~Known(job[t], Found(job[t].file)))
  BY <1>0, <1>2, <1>3, EndsEnded DEF Turned
<1>4. CASE /\ fstate[job[t].file] \in {"missing", "ok"} /\ Known(job[t], Found(job[t].file))
           /\ copy' = [copy EXCEPT ![t] = Found(job[t].file)]
           /\ Goto(t, CASE job[t].do = "delete" -> "unlink" [] job[t].do = "restore" -> "restore"
                        [] OTHER -> "save")
           /\ job' = job
  <2>1. Moves(t) /\ Loads(t)
    BY <1>4 DEF Goto, Moves, Loads, Shape, TaskInv
  <2>2. pc'[t] \in Labels /\ JobOK(t, job[t], pc'[t])
    BY <2>1, <1>0 DEF Loads, JobOK, Jobs, Labels
  <2>3. Found(job[t].file) \in Table \/ job[t].file # "schedules"
    BY <1>1, FoundType DEF Shape
  <2>4. Found(job[t].file) \subseteq Entries \/ job[t].file # "index"
    BY <1>1, FoundType DEF Shape
  <2>5. ASSUME pc'[t] \in {"unlink", "restore"}
        PROVE  \E e \in Found(job[t].file) : e.id = job[t].id
    <3>1. job[t].do \in {"delete", "restore"}
      BY <2>1, <2>5 DEF Loads
    <3> QED BY <3>1, <1>4 DEF Known, Indexed
  <2>6. job[t].do = "mark" => Found(job[t].file)[job[t].id] # None
    BY <1>4 DEF Known
  <2>7. CopyOK(job'[t], pc'[t], copy'[t])
    BY <2>1, <2>3, <2>4, <2>5, <2>6 DEF CopyOK, Loads
  <2> QED BY <1>0, <1>2, <2>1, <2>2, <2>7 DEF Arrives, Loads
<1> QED BY <1>3, <1>4 DEF Load, Found

LEMMA UnlinkShape ==
    ASSUME Shape, NEW t \in Tasks, Unlink(t)
    PROVE  /\ Arrives(t) /\ DataInv' /\ pc[t] = "unlink" /\ pc'[t] = "save"
           /\ job[t].do = "delete" /\ job'[t] = job[t] /\ copy'[t] = copy[t]
<1>0. /\ job[t] \in Jobs /\ JobOK(t, job[t], "unlink") /\ CopyOK(job[t], "unlink", copy[t])
      /\ pc[t] = "unlink"
  BY DEF Unlink, Shape, TaskInv
<1>1. Moves(t) /\ pc'[t] = "save" /\ job'[t] = job[t] /\ copy'[t] = copy[t]
  BY DEF Unlink, Goto, Moves, Shape, TaskInv
<1>2. job[t].do = "delete" /\ JobOK(t, job[t], "save") /\ CopyOK(job[t], "save", copy[t])
  BY <1>0 DEF JobOK, CopyOK, Busy
<1>3. DataInv'
  BY <1>0, <1>2 DEF Unlink, Shape, DataInv, JobOK
<1> QED BY <1>0, <1>1, <1>2, <1>3 DEF Arrives, Labels

LEMMA TruncateShape ==
    ASSUME Shape, NEW t \in Tasks, Truncate(t)
    PROVE  /\ Arrives(t) /\ DataInv' /\ pc[t] = "save" /\ pc'[t] = "write"
           /\ job'[t] = job[t] /\ copy'[t] = copy[t]
<1>0. /\ job[t] \in Jobs /\ JobOK(t, job[t], "save") /\ CopyOK(job[t], "save", copy[t])
      /\ pc[t] = "save"
  BY DEF Truncate, Shape, TaskInv
<1>1. Moves(t) /\ pc'[t] = "write" /\ job'[t] = job[t] /\ copy'[t] = copy[t]
  BY DEF Truncate, Goto, Moves, Shape, TaskInv
<1>2. JobOK(t, job[t], "write") /\ CopyOK(job[t], "write", copy[t])
  BY <1>0 DEF JobOK, CopyOK, Busy
<1>3. DataInv'
  BY <1>0 DEF Truncate, Shape, DataInv, Jobs, history
<1> QED BY <1>0, <1>1, <1>2, <1>3 DEF Arrives, Labels

\* What a Write makes of a file.
LEMMA EditedType ==
    ASSUME NEW t, NEW j \in Jobs, NEW l \in {"save", "write"}, NEW c, JobOK(t, j, l), CopyOK(j, l, c)
    PROVE  /\ j.file = "schedules" => /\ Edited(j, c) \in Table /\ j.id \in Schedules
                                      /\ j.do \in {"add", "remove", "mark"} /\ c \in Table
           /\ j.file = "index" => /\ Edited(j, c) \subseteq Entries
                                  /\ j.do \in {"append", "delete"} /\ c \subseteq Entries
<1>1. j.do \in {"add", "remove", "mark", "append", "delete"}
  BY DEF JobOK
<1>2. CASE j.file = "schedules"
  <2>1. j.do \in {"add", "remove", "mark"} /\ j.id \in Schedules /\ j.until \in Times /\ c \in Table
    BY <1>1, <1>2 DEF JobOK, CopyOK, Busy
  <2> QED BY <1>2, <2>1 DEF Edited, Table
<1>3. CASE j.file = "index"
  <2>1. j.do \in {"append", "delete"} /\ j.id \in BackupIds /\ j.name \in Names /\ c \subseteq Entries
    BY <1>1, <1>3 DEF JobOK, CopyOK, Busy, Jobs
  <2> QED BY <1>3, <2>1 DEF Edited, Entries, Entry
<1> QED BY <1>2, <1>3

LEMMA WriteShape ==
    ASSUME Shape, NEW t \in Tasks, Write(t)
    PROVE  /\ Arrives(t) /\ DataInv' /\ Ended(t) /\ copy'[t] = None /\ pc[t] = "write"
<1>0. /\ job[t] \in Jobs /\ JobOK(t, job[t], "write") /\ CopyOK(job[t], "write", copy[t])
      /\ pc[t] = "write"
  BY DEF Write, Shape, TaskInv
<1>1. Ended(t) /\ Arrives(t) /\ copy'[t] = None
  BY EndsEnded DEF Write
<1>2. CASE job[t].file = "schedules"
  <2>1. Edited(job[t], copy[t]) \in Table /\ job[t].id \in Schedules
    BY <1>0, <1>2, EditedType
  <2>2. job[t].do = "remove" \/ job[t].until \in Times
    BY <1>0, <1>2, EditedType DEF JobOK
  <2>3. wanted' \in Table
    BY <1>2, <2>1, <2>2 DEF Write, Shape, DataInv, Table
  <2> QED BY <1>0, <1>1, <1>2, <2>1, <2>3 DEF Write, Shape, DataInv, Files
<1>3. CASE job[t].file = "index"
  <2>1. Edited(job[t], copy[t]) \subseteq Entries
    BY <1>0, <1>3, EditedType
  <2> QED BY <1>0, <1>1, <1>3, <2>1 DEF Write, Shape, DataInv, Files
<1> QED BY <1>0, <1>2, <1>3 DEF Jobs, Files

\* The steps after which a task's job is over and the files are as they were.
Leaves(t) == Restore(t) \/ WriteFails(t)

LEMMA LeavesShape ==
    ASSUME Shape, NEW t \in Tasks, Leaves(t)
    PROVE  /\ Arrives(t) /\ DataInv' /\ Ended(t) /\ copy'[t] = None
           /\ Restore(t) => job[t].do = "restore"
<1>1. CASE Restore(t)
  <2>1. Ended(t) /\ Arrives(t) /\ copy'[t] = None
    BY <1>1, EndsEnded DEF Restore
  <2> QED BY <1>1, <2>1 DEF Restore, Shape, DataInv, TaskInv, JobOK, disk, history
<1>2. CASE WriteFails(t)
  <2>1. Ended(t) /\ Arrives(t) /\ copy'[t] = None
    BY <1>2, EndsEnded DEF WriteFails
  <2>2. job[t].file \in Files
    BY DEF Shape, TaskInv, Jobs
  <2> QED BY <1>2, <2>1, <2>2 DEF WriteFails, Restore, Shape, DataInv, disk
<1> QED BY <1>1, <1>2 DEF Leaves

LEMMA CrashShape ==
    ASSUME Shape, NEW t \in Tasks, Crash(t)
    PROVE  Arrives(t) /\ DataInv' /\ job'[t] = NoJob /\ pc'[t] = "idle"
<1>1. Moves(t) /\ job'[t] = NoJob /\ pc'[t] = "idle"
  BY DEF Crash, Moves, Shape, TaskInv
<1>2. JobOK(t, job'[t], pc'[t]) /\ CopyOK(job'[t], pc'[t], copy'[t])
  BY <1>1, NoJobFields DEF JobOK, CopyOK, Busy
<1>3. job[t].file \in Files
  BY DEF Shape, TaskInv, Jobs
<1>4. DataInv'
  BY <1>3 DEF Crash, Shape, DataInv, disk, Files
<1> QED BY <1>1, <1>2, <1>4, NoJobFields DEF Arrives, Labels

LEMMA RunDueShape ==
    ASSUME Shape, RunDue
    PROVE  /\ Arrives(Daemon) /\ DataInv' /\ pc'[Daemon] = "pass" /\ job' = job /\ copy' = copy
           /\ pc[Daemon] = "idle" /\ job[Daemon] = NoJob
<1> USE Constants
<1>1. /\ Moves(Daemon) /\ pc'[Daemon] = "pass" /\ job' = job /\ copy' = copy
      /\ pc[Daemon] = "idle" /\ job[Daemon] = NoJob
  BY DEF RunDue, Goto, Moves, Shape, TaskInv, JobOK
<1>2. JobOK(Daemon, job'[Daemon], "pass") /\ CopyOK(job'[Daemon], "pass", copy'[Daemon])
  BY <1>1, NoJobFields DEF JobOK, CopyOK, Busy
<1>3. DataInv'
  BY DEF RunDue, Shape, DataInv, disk, history, Scheduled
<1> QED BY <1>1, <1>2, <1>3, NoJobFields DEF Arrives, Labels

\* The daemon marks a schedule it has taken a snapshot for, or dumps for it.
Snaps(s) ==
  /\ job' = [job EXCEPT ![Daemon] = MarkRan(s)]
  /\ Goto(Daemon, "load")
  /\ UNCHANGED <<clock, disk, copy, at, faults, wanted, used, starts, gone, troubles>>

LEMMA FireShape ==
    ASSUME Shape, Fire
    PROVE  \E s \in due :
             /\ Arrives(Daemon) /\ DataInv' /\ pc[Daemon] = "pass" /\ job[Daemon] = NoJob
             /\ due' = due \ {s} /\ fired' = [fired EXCEPT ![s] = [last |-> at, before |-> @.last]]
             /\ DumpStarts(Daemon, s) \/ Snaps(s)
             /\ Snaps(s) => job'[Daemon] = MarkRan(s) /\ pc'[Daemon] = "load"
<1> USE Constants
<1>1. PICK s \in due :
        /\ due' = due \ {s}
        /\ fired' = [fired EXCEPT ![s] = [last |-> at, before |-> @.last]]
        /\ DumpStarts(Daemon, s) \/ Snaps(s)
  BY DEF Fire, Snaps
<1>2. s \in Schedules /\ pc[Daemon] = "pass" /\ job[Daemon] = NoJob /\ at \in Instants
  BY DEF Fire, Shape, DataInv, TaskInv, JobOK
<1>3. fired' \in [Schedules -> [last : Instants \cup {None}, before : Instants \cup {None}]]
  BY <1>1, <1>2 DEF Shape, DataInv
<1>4. due' \subseteq Schedules
  BY <1>1 DEF Shape, DataInv
<1>5. CASE DumpStarts(Daemon, s)
  <2>1. Arrives(Daemon) /\ pc'[Daemon] = "dumping"
    BY <1>2, <1>5, DumpStartsShape
  <2>2. DataInv'
    BY <1>2, <1>3, <1>4, <1>5, DumpStartsData
  <2>3. ~Snaps(s)
    BY <2>1 DEF Snaps, Goto, Shape, TaskInv
  <2> QED BY <1>1, <1>2, <2>1, <2>2, <2>3
<1>6. CASE Snaps(s)
  <2>1. /\ Moves(Daemon) /\ job'[Daemon] = MarkRan(s) /\ pc'[Daemon] = "load"
    BY <1>6 DEF Snaps, Goto, Moves, Shape, TaskInv
  <2>2. at + Interval \in Times
    BY <1>2
  <2>3. MarkRan(s) \in Jobs /\ JobOK(Daemon, MarkRan(s), "load")
    BY <1>2, <2>2 DEF MarkRan, Edit, Work, Jobs, Files, JobOK
  <2>4. CopyOK(job'[Daemon], pc'[Daemon], copy'[Daemon])
    BY <2>1 DEF CopyOK, Busy
  <2>5. DataInv'
    BY <1>3, <1>4, <1>6 DEF Snaps, disk, Shape, DataInv
  <2> QED BY <1>1, <1>2, <2>1, <2>3, <2>4, <2>5 DEF Arrives, Labels
<1> QED BY <1>1, <1>5, <1>6

\* The steps of Next, a disjunct for each of the lemmas above.
LEMMA NextCases ==
    ASSUME Next
    PROVE  \/ Tick \/ RunDue \/ Fire
           \/ \E t \in Users : Edits(t) \/ Backup(t)
           \/ \E t \in Tasks : DumpEnds(t) \/ Load(t) \/ Unlink(t) \/ Truncate(t) \/ Write(t)
                               \/ Leaves(t) \/ Crash(t)
  BY Constants DEF Next, DaemonStep, Step, Edits, Leaves

\* A step that is not the clock's is one task's.
LEMMA StepShape ==
    ASSUME Shape, Next
    PROVE  DataInv' /\ ((pc' = pc /\ job' = job /\ copy' = copy) \/ \E t \in Tasks : Arrives(t))
<1>1. CASE Tick
  BY <1>1, Constants DEF Tick, Shape, DataInv, disk, tasks, history, Instants
<1>2. CASE RunDue
  BY <1>2, RunDueShape, Constants
<1>3. CASE Fire
  BY <1>3, FireShape, Constants
<1>4. ASSUME NEW t \in Users, Edits(t) PROVE Arrives(t) /\ DataInv'
  BY <1>4, EditsShape
<1>5. ASSUME NEW t \in Users, Backup(t) PROVE Arrives(t) /\ DataInv'
  <2>1. DumpStarts(t, None) /\ due' = due /\ fired' = fired /\ t # Daemon /\ t \in Tasks
    BY <1>5, Constants DEF Backup
  <2>2. due' \subseteq Schedules
    BY <2>1 DEF Shape, DataInv
  <2> QED BY <2>1, <2>2, DumpStartsShape, DumpStartsData
<1>6. ASSUME NEW t \in Tasks, DumpEnds(t) \/ Load(t) \/ Unlink(t) \/ Truncate(t) \/ Write(t)
                              \/ Leaves(t) \/ Crash(t)
      PROVE  Arrives(t) /\ DataInv'
  BY <1>6, DumpEndsShape, LoadShape, UnlinkShape, TruncateShape, WriteShape, LeavesShape, CrashShape
<1> QED BY <1>1, <1>2, <1>3, <1>4, <1>5, <1>6, NextCases, Constants

LEMMA ShapeStep == Shape /\ [Next]_vars => Shape'
<1>1. ASSUME Shape, Next PROVE Shape'
  <2>1. CASE pc' = pc /\ job' = job /\ copy' = copy
    BY <1>1, <2>1, StepShape DEF Shape, TaskInv
  <2>2. CASE \E t \in Tasks : Arrives(t)
    BY <1>1, <2>2, StepShape, ArrivesTask DEF Shape
  <2> QED BY <1>1, <2>1, <2>2, StepShape
<1>2. ASSUME Shape, UNCHANGED vars PROVE Shape'
  BY <1>2 DEF Shape, DataInv, TaskInv, vars, disk, tasks, history
<1> QED BY <1>1, <1>2

LEMMA InitShape == Init => Shape
  BY Constants, NoJobFields
     DEF Init, Shape, DataInv, TaskInv, JobOK, CopyOK, Busy, Labels, Table, Files, Instants, Names

-----------------------------------------------------------------------------
(* One editor for each file.                                               *)

LEMMA OtherTasks ==
    ASSUME Shape, NEW t \in Tasks, Arrives(t), NEW u \in Tasks, u # t
    PROVE  pc'[u] = pc[u] /\ job'[u] = job[u] /\ copy'[u] = copy[u]
  BY DEF Shape, TaskInv, Arrives, Moves

\* A task that does not change the file and starts no edit of it.
LEMMA FileKept ==
    ASSUME Shape, NEW t \in Tasks, Arrives(t), NEW f \in Files, FileInv(f),
           next' = next, index' = index, fstate' = fstate, troubles \subseteq troubles',
           f \in troubles' \/ ~(pc[t] = "write" /\ job[t].file = f),
           Editing(t, f)' => Editing(t, f) /\ copy'[t] = copy[t]
    PROVE  FileInv(f)'
<1>1. \A u \in Tasks \ {t} : pc'[u] = pc[u] /\ job'[u] = job[u] /\ copy'[u] = copy[u]
  BY OtherTasks
<1>2. Content(f)' = Content(f) /\ EmptyContent(f)' = EmptyContent(f)
  BY DEF Content, EmptyContent
<1>3. \A u \in Tasks : Editing(u, f)' => Editing(u, f) /\ copy'[u] = copy[u]
  BY <1>1 DEF Editing
<1>4. CASE f \in troubles'
  BY <1>2, <1>4 DEF FileInv
<1>5. CASE f \notin troubles'
  <2>1. fstate'[f] = "torn" => \E u \in Tasks : pc'[u] = "write" /\ job'[u].file = f
    BY <1>1, <1>5 DEF FileInv
  <2> QED BY <1>2, <1>3, <1>5, <2>1 DEF FileInv
<1> QED BY <1>4, <1>5


LEMMA EndedEdits == ASSUME NEW t \in Tasks, NEW f, Ended(t) PROVE ~Editing(t, f)'
  BY DEF Ended, Editing

LEMMA LoadEdit ==
    ASSUME Shape, EditInv, NEW t \in Tasks, Load(t)
    PROVE  EditInv'
<1>0. /\ Arrives(t) /\ pc[t] = "load" /\ (Loads(t) \/ Turned(t))
      /\ next' = next /\ index' = index /\ fstate' = fstate /\ troubles \subseteq troubles'
      /\ job[t] \in Jobs
  BY LoadShape DEF Load, disk, Shape, TaskInv
<1>1. ASSUME NEW f \in Files PROVE FileInv(f)'
  <2>1. FileInv(f) /\ ~Editing(t, f)
    BY <1>0 DEF EditInv, Editing
  <2>2. CASE ~Editing(t, f)'
    BY <1>0, <2>1, <2>2, FileKept
  <2>3. CASE Editing(t, f)'
    <3>1. Loads(t) /\ job[t].file = f /\ copy'[t] = Found(f)
      BY <1>0, <2>3, EndedEdits DEF Turned, Loads, Editing
    <3>2. job[t].do # "restore"
      BY <2>3, <3>1 DEF Loads, Editing
    <3>3. f \notin troubles' => \A u \in Tasks \ {t} : ~Editing(u, f)
      BY <3>1, <3>2 DEF Load
    <3>4. f \notin troubles' => \A u \in Tasks \ {t} : ~Editing(u, f)'
      BY <3>3, <1>0, OtherTasks DEF Editing
    <3>5. Found(f) = Content(f) /\ Content(f)' = Content(f) /\ EmptyContent(f)' = EmptyContent(f)
      BY <1>0, <2>1, <3>1 DEF FileInv, Loads, Found, Content, EmptyContent
    <3>6. fstate'[f] # "torn"
      BY <1>0, <3>1 DEF Loads
    <3> QED BY <1>0, <2>1, <3>1, <3>4, <3>5, <3>6 DEF FileInv
  <2> QED BY <2>2, <2>3
<1> QED BY <1>1 DEF EditInv

LEMMA TruncateEdit ==
    ASSUME Shape, EditInv, NEW t \in Tasks, Truncate(t)
    PROVE  EditInv'
<1>0. /\ Arrives(t) /\ pc[t] = "save" /\ pc'[t] = "write" /\ job'[t] = job[t] /\ copy'[t] = copy[t]
      /\ next' = next /\ index' = index /\ troubles' = troubles
      /\ fstate' = [fstate EXCEPT ![job[t].file] = "torn"] /\ job[t].file \in Files
  BY TruncateShape DEF Truncate, history, Shape, TaskInv, Jobs
<1>1. ASSUME NEW f \in Files PROVE FileInv(f)'
  <2>1. FileInv(f) /\ Content(f)' = Content(f) /\ EmptyContent(f)' = EmptyContent(f)
    BY <1>0 DEF EditInv, Content, EmptyContent
  <2>2. \A u \in Tasks : /\ job'[u].file = job[u].file /\ copy'[u] = copy[u]
                         /\ Editing(u, f)' <=> Editing(u, f)
                         /\ pc[u] = "write" => pc'[u] = "write"
    BY <1>0, OtherTasks DEF Editing
  <2>3. fstate'[f] = "missing" => fstate[f] = "missing"
    BY <1>0 DEF Shape, DataInv
  <2>4. fstate'[f] = "torn" => fstate[f] = "torn" \/ job[t].file = f
    BY <1>0 DEF Shape, DataInv
  <2>5. f \notin troubles' /\ fstate'[f] = "torn" => \E u \in Tasks : pc'[u] = "write" /\ job'[u].file = f
    BY <1>0, <2>1, <2>2, <2>4 DEF FileInv
  <2> QED BY <1>0, <2>1, <2>2, <2>3, <2>5 DEF FileInv
<1> QED BY <1>1 DEF EditInv

LEMMA WriteEdit ==
    ASSUME Shape, EditInv, NEW t \in Tasks, Write(t)
    PROVE  EditInv'
<1>0. /\ Arrives(t) /\ pc[t] = "write" /\ Ended(t) /\ troubles' = troubles
      /\ fstate' = [fstate EXCEPT ![job[t].file] = "ok"] /\ job[t].file \in Files
  BY WriteShape DEF Write, Shape, TaskInv, Jobs
<1>1. ASSUME NEW f \in Files PROVE FileInv(f)'
  <2>1. FileInv(f) /\ ~Editing(t, f)' /\ EmptyContent(f)' = EmptyContent(f)
    BY <1>0, EndedEdits DEF EditInv, EmptyContent
  <2>2. \A u \in Tasks \ {t} : pc'[u] = pc[u] /\ job'[u] = job[u] /\ copy'[u] = copy[u]
    BY <1>0, OtherTasks
  <2>3. \A u \in Tasks : Editing(u, f)' => u # t /\ Editing(u, f) /\ copy'[u] = copy[u]
    BY <2>1, <2>2 DEF Editing
  <2>4. CASE f = job[t].file
    <3>1. Editing(t, f) /\ fstate'[f] = "ok"
      BY <1>0, <2>4 DEF Editing, Shape, DataInv
    <3>2. f \notin troubles' => \A u \in Tasks : ~Editing(u, f)'
      BY <1>0, <2>1, <2>3, <3>1 DEF FileInv
    <3> QED BY <3>1, <3>2 DEF FileInv
  <2>5. CASE f # job[t].file
    <3>1. Content(f)' = Content(f) /\ fstate'[f] = fstate[f]
      BY <1>0, <2>5 DEF Content, Write, Shape, DataInv, Files
    <3>2. f \notin troubles' /\ fstate'[f] = "torn" => \E u \in Tasks : pc'[u] = "write" /\ job'[u].file = f
      BY <1>0, <2>1, <2>2, <2>5, <3>1 DEF FileInv
    <3> QED BY <1>0, <2>1, <2>3, <3>1, <3>2 DEF FileInv
  <2> QED BY <2>4, <2>5
<1> QED BY <1>1 DEF EditInv

\* The steps that touch no file, or a file in trouble.
LEMMA OtherEdit ==
    ASSUME Shape, EditInv, NEW t \in Tasks, Arrives(t),
           next' = next, index' = index, fstate' = fstate, troubles \subseteq troubles',
           pc[t] = "write" => job[t].file \in troubles',
           pc'[t] \notin {"save", "write"} \/ (pc[t] = "unlink" /\ job'[t] = job[t] /\ copy'[t] = copy[t]),
           pc'[t] # "unlink"
    PROVE  EditInv'
<1>1. ASSUME NEW f \in Files PROVE FileInv(f)'
  <2>1. FileInv(f) /\ (Editing(t, f)' => Editing(t, f) /\ copy'[t] = copy[t])
    BY DEF EditInv, Editing
  <2> QED BY <2>1, FileKept
<1> QED BY <1>1 DEF EditInv

LEMMA EditStep == Shape /\ EditInv /\ [Next]_vars => EditInv'
<1> SUFFICES ASSUME Shape, EditInv, [Next]_vars PROVE EditInv'
  OBVIOUS
<1> USE Constants
<1>1. CASE Tick
  BY <1>1 DEF Tick, disk, tasks, history, EditInv, FileInv, Content, EmptyContent, Editing
<1>2. CASE RunDue
  BY <1>2, RunDueShape, OtherEdit DEF RunDue, disk, history
<1>3. CASE Fire
  <2>1. PICK s \in due : /\ Arrives(Daemon) /\ pc[Daemon] = "pass"
                         /\ DumpStarts(Daemon, s) \/ Snaps(s)
                         /\ Snaps(s) => pc'[Daemon] = "load"
    BY <1>3, FireShape
  <2>2. s \in Schedules
    BY DEF Shape, DataInv
  <2>3. CASE DumpStarts(Daemon, s)
    BY <2>1, <2>2, <2>3, DumpStartsShape, OtherEdit DEF DumpStarts
  <2>4. CASE Snaps(s)
    BY <2>1, <2>4, OtherEdit DEF Snaps, disk
  <2> QED BY <2>1, <2>3, <2>4
<1>4. ASSUME NEW t \in Users, Edits(t) PROVE EditInv'
  BY <1>4, EditsShape, OtherEdit DEF disk
<1>5. ASSUME NEW t \in Users, Backup(t) PROVE EditInv'
  <2>1. DumpStarts(t, None) /\ pc[t] = "idle" /\ t # Daemon /\ t \in Tasks
    BY <1>5 DEF Backup
  <2> QED BY <2>1, DumpStartsShape, OtherEdit DEF DumpStarts
<1>6. ASSUME NEW t \in Tasks, DumpEnds(t) PROVE EditInv'
  <2>1. Arrives(t) /\ pc[t] = "dumping" /\ pc'[t] \in {"load", "idle", "pass"}
    BY <1>6, DumpEndsShape DEF Ended
  <2> QED BY <1>6, <2>1, OtherEdit DEF DumpEnds, history
<1>7. ASSUME NEW t \in Tasks, Unlink(t) PROVE EditInv'
  BY <1>7, UnlinkShape, OtherEdit DEF Unlink
<1>8. ASSUME NEW t \in Tasks, Leaves(t) PROVE EditInv'
  <2>1. Arrives(t) /\ pc'[t] \in {"load", "idle", "pass"}
    BY <1>8, LeavesShape DEF Ended
  <2> QED BY <1>8, <2>1, OtherEdit DEF Leaves, Restore, WriteFails, disk, history
<1>9. ASSUME NEW t \in Tasks, Crash(t) PROVE EditInv'
  BY <1>9, CrashShape, OtherEdit DEF Crash, disk
<1>10. CASE UNCHANGED vars
  BY <1>10 DEF vars, disk, tasks, history, EditInv, FileInv, Content, EmptyContent, Editing
<1> QED BY <1>1, <1>2, <1>3, <1>4, <1>5, <1>6, <1>7, <1>8, <1>9, <1>10, LoadEdit, TruncateEdit,
           WriteEdit, NextCases

-----------------------------------------------------------------------------
(* Schedules and the passes of the daemon.                                 *)

\* A step that leaves the schedules and the pass, and whose task forgets no
\* schedule it still has to mark.
LEMMA ScheduleKept ==
    ASSUME DaemonInv, ScheduleInv, next' = next, wanted' = wanted, fired' = fired, at' = at,
           due' \subseteq due, used \subseteq used', troubles \subseteq troubles',
           \A u \in Tasks, s \in Schedules : Adding(u, s)' => Adding(u, s),
           \A s \in Schedules : Firing(s)' => Firing(s),
           "schedules" \notin troubles' =>
             \A s \in Schedules : Firing(s) => Firing(s)' \/ next[s] = None,
           job'[Daemon].do = "mark" => job'[Daemon].until = at + Interval
    PROVE  DaemonInv' /\ ScheduleInv'
<1>1. DaemonInv'
  BY DEF DaemonInv
<1>2. ASSUME "schedules" \notin troubles'
      PROVE  ScheduleInv'
  <2>1. "schedules" \notin troubles
    BY <1>2
  <2>2. \A s \in Schedules : New(s) => New(s)'
    BY DEF New
  <2> QED BY <1>2, <2>1, <2>2 DEF ScheduleInv
<1> QED BY <1>1, <1>2 DEF ScheduleInv

\* A task whose job is over adds nothing; the daemon marks what it has dumped.
LEMMA EndedFires ==
    ASSUME Shape, DaemonInv, NEW t \in Tasks, Arrives(t), Ended(t)
    PROVE  /\ \A u \in Tasks, s \in Schedules : Adding(u, s)' => u # t /\ Adding(u, s)
           /\ \A s \in Schedules : Firing(s)' => Firing(s)
           /\ \A s \in Schedules : Firing(s) /\ ~(t = Daemon /\ job[t].do = "mark") => Firing(s)'
           /\ job'[Daemon].do = "mark" => job'[Daemon].until = at + Interval
<1>1. \A u \in Tasks \ {t} : job'[u] = job[u]
  BY OtherTasks
<1>2. \/ job'[t] = NoJob /\ (t = Daemon => job[t].do # "append")
      \/ t = Daemon /\ job[t].do = "append" /\ job'[t] = MarkRan(job[t].until)
  BY DEF Ended
<1>3. CASE job'[t] = NoJob /\ (t = Daemon => job[t].do # "append")
  BY <1>1, <1>3, NoJobFields, Constants DEF Adding, Firing, DaemonInv
<1>4. CASE t = Daemon /\ job[t].do = "append" /\ job'[t] = MarkRan(job[t].until)
  <2>1. /\ job'[t].do = "mark" /\ job'[t].id = job[t].until /\ job'[t].until = at + Interval
    BY <1>4 DEF MarkRan, Edit, Work
  <2> QED BY <1>1, <1>4, <2>1 DEF Adding, Firing
<1> QED BY <1>2, <1>3, <1>4

SchedInv == DaemonInv /\ ScheduleInv

\* Steps that end a job and change neither the schedules nor the pass.
LEMMA EndedSchedule ==
    ASSUME Shape, SchedInv, NEW t \in Tasks, Arrives(t), Ended(t),
           next' = next, wanted' = wanted, fired' = fired, at' = at, due' = due,
           used' = used, troubles \subseteq troubles',
           t = Daemon /\ job[t].do = "mark" =>
             "schedules" \in troubles' \/ next[job[t].id] = None
    PROVE  SchedInv'
<1>1. /\ \A u \in Tasks, s \in Schedules : Adding(u, s)' => u # t /\ Adding(u, s)
      /\ \A s \in Schedules : Firing(s)' => Firing(s)
      /\ \A s \in Schedules : Firing(s) /\ ~(t = Daemon /\ job[t].do = "mark") => Firing(s)'
      /\ job'[Daemon].do = "mark" => job'[Daemon].until = at + Interval
  BY EndedFires DEF SchedInv
<1>2. "schedules" \notin troubles' =>
         \A s \in Schedules : Firing(s) => Firing(s)' \/ next[s] = None
  BY <1>1 DEF Firing
<1> QED BY <1>1, <1>2, ScheduleKept DEF SchedInv

\* Steps of a task that goes on with its job.
LEMMA SameJobSchedule ==
    ASSUME Shape, SchedInv, job' = job, next' = next, wanted' = wanted, fired' = fired,
           at' = at, due' = due, used' = used, troubles \subseteq troubles'
    PROVE  SchedInv'
<1>1. /\ \A u \in Tasks, s \in Schedules : Adding(u, s)' <=> Adding(u, s)
      /\ \A s \in Schedules : Firing(s)' <=> Firing(s)
      /\ job'[Daemon].do = "mark" => job'[Daemon].until = at + Interval
  BY DEF Adding, Firing, SchedInv, DaemonInv
<1> QED BY <1>1, ScheduleKept DEF SchedInv

LEMMA SameJob ==
    ASSUME Shape, NEW t \in Tasks, Arrives(t), job'[t] = job[t]
    PROVE  job' = job
  BY DEF Shape, TaskInv, Arrives, Moves

LEMMA EditsSchedule ==
    ASSUME Shape, SchedInv, NEW t \in Users, Edits(t)
    PROVE  SchedInv'
<1> USE Constants
<1>0. /\ Arrives(t) /\ t # Daemon /\ t \in Tasks
      /\ UNCHANGED <<clock, disk, due, at, wanted, starts, gone, fired, troubles>>
      /\ \A u \in Tasks \ {t} : job'[u] = job[u]
  BY EditsShape, OtherTasks
<1>1. next' = next
  BY <1>0 DEF disk
<1>2. (\A s : Firing(s)' <=> Firing(s)) /\ job'[Daemon] = job[Daemon]
  BY <1>0 DEF Firing
<1>3. CASE job'[t].do \notin {"add", "append", "mark"} /\ used' = used
  <2>1. \A u \in Tasks, s \in Schedules : Adding(u, s)' => Adding(u, s)
    BY <1>0, <1>3 DEF Adding
  <2> QED BY <1>0, <1>1, <1>2, <1>3, <2>1, ScheduleKept DEF SchedInv, DaemonInv
<1>4. CASE job'[t].do = "add" /\ job'[t].id \in Schedules \ used /\ used' = used \cup {job'[t].id}
  <2>1. \A u \in Tasks, s \in Schedules :
          Adding(u, s)' => (Adding(u, s) /\ u # t) \/ (u = t /\ s \in Schedules \ used)
    BY <1>0, <1>4 DEF Adding
  <2>2. \A s \in Schedules : New(s) <=> New(s)'
    BY <1>0, <1>1 DEF New
  <2>3. \A s \in Schedules : Adding(t, s)' => s = job'[t].id
    BY DEF Adding
  <2>4. DaemonInv'
    BY <1>0, <1>2 DEF SchedInv, DaemonInv
  <2>5. ASSUME "schedules" \notin troubles
        PROVE  \A u \in Tasks, s \in Schedules : Adding(u, s)' =>
                 s \in used' /\ New(s)' /\ \A v \in Tasks : Adding(v, s)' => v = u
    BY <1>4, <2>1, <2>2, <2>3, <2>5 DEF SchedInv, ScheduleInv
  <2>6. ScheduleInv'
    BY <1>0, <1>1, <1>2, <1>4, <2>2, <2>5 DEF SchedInv, ScheduleInv
  <2> QED BY <2>4, <2>6 DEF SchedInv
<1> QED BY <1>3, <1>4, EditsShape

\* A mark that finds its schedule gone, or its file torn by an edit.
LEMMA LoadSchedule ==
    ASSUME Shape, EditInv, SchedInv, NEW t \in Tasks, Load(t)
    PROVE  SchedInv'
<1>0. /\ Arrives(t) /\ pc[t] = "load" /\ (Loads(t) \/ Turned(t)) /\ next' = next /\ at' = at
      /\ due' = due /\ wanted' = wanted /\ used' = used /\ fired' = fired
      /\ troubles \subseteq troubles'
  BY LoadShape DEF Load, disk
<1>1. CASE Loads(t)
  BY <1>0, <1>1, SameJob, SameJobSchedule DEF Loads
<1>2. CASE Turned(t)
  <2>1. ASSUME t = Daemon, job[t].do = "mark", "schedules" \notin troubles'
        PROVE  next[job[t].id] = None
    <3>1. job[t].file = "schedules" /\ job[t].id \in Schedules /\ "schedules" \in Files
      BY <2>1 DEF Shape, TaskInv, JobOK, Files
    <3>2. \A u \in Tasks \ {t} : ~Editing(u, "schedules")
      BY <2>1, <3>1 DEF Load
    <3>3. ~Editing(t, "schedules") /\ pc[t] # "write"
      BY <1>0 DEF Editing
    <3>4. fstate["schedules"] # "torn"
      <4>1. FileInv("schedules") /\ "schedules" \notin troubles
        BY <1>0, <2>1, <3>1 DEF EditInv
      <4> QED BY <4>1, <3>2, <3>3 DEF FileInv, Editing
    <3>5. ~Known(job[t], Found("schedules"))
      BY <1>2, <3>1, <3>4 DEF Turned
    <3>6. Found("schedules")[job[t].id] = None
      BY <2>1, <3>5 DEF Known
    <3>7. FileInv("schedules")
      BY <3>1 DEF EditInv
    <3>8. Found("schedules") = next
      BY <3>1, <3>4, <3>7 DEF Found, Content, EmptyContent, FileInv, Shape, DataInv
    <3> QED BY <3>6, <3>8
  <2> QED BY <1>0, <1>2, <2>1, EndedSchedule DEF Turned
<1> QED BY <1>0, <1>1, <1>2

\* A write of schedules.json with nothing amiss: the entry of one schedule.
LEMMA WriteEntry ==
    ASSUME Shape, EditInv, SchedInv, NEW t \in Tasks, Write(t),
           job[t].file = "schedules", "schedules" \notin troubles
    PROVE  \E v \in Times \cup {None} :
             /\ next' = [next EXCEPT ![job[t].id] = v] /\ wanted' = next' /\ job[t].id \in Schedules
             /\ v = IF job[t].do = "remove" THEN None ELSE job[t].until
             /\ job[t].do \in {"add", "remove", "mark"}
             /\ job[t].do = "mark" => next[job[t].id] # None
<1>0. /\ job[t] \in Jobs /\ JobOK(t, job[t], "write") /\ CopyOK(job[t], "write", copy[t])
      /\ pc[t] = "write" /\ next \in Table
  BY DEF Write, Shape, TaskInv, DataInv
<1>1. /\ job[t].id \in Schedules /\ job[t].do \in {"add", "remove", "mark"}
      /\ job[t].do = "mark" => copy[t][job[t].id] # None
  BY <1>0, EditedType DEF CopyOK
<1>2. copy[t] = next
  <2>1. FileInv("schedules") /\ Editing(t, "schedules")
    BY <1>0 DEF EditInv, Files, Editing
  <2> QED BY <2>1 DEF FileInv, Content
<1>3. next = wanted
  BY DEF SchedInv, ScheduleInv
<1> DEFINE v == IF job[t].do = "remove" THEN None ELSE job[t].until
<1>4. v \in Times \cup {None}
  BY <1>0, <1>1 DEF JobOK
<1>5. next' = [next EXCEPT ![job[t].id] = v]
  BY <1>1, <1>2 DEF Write, Edited
<1>6. wanted' = [next EXCEPT ![job[t].id] = v]
  BY <1>1, <1>2, <1>3 DEF Write
<1> QED BY <1>1, <1>2, <1>4, <1>5, <1>6

LEMMA WriteSchedule ==
    ASSUME Shape, EditInv, SchedInv, NEW t \in Tasks, Write(t)
    PROVE  SchedInv'
<1> USE Constants
<1>0. /\ Arrives(t) /\ Ended(t) /\ pc[t] = "write" /\ at' = at /\ due' = due
      /\ used' = used /\ fired' = fired /\ troubles' = troubles /\ job[t] \in Jobs
      /\ JobOK(t, job[t], "write")
  BY WriteShape DEF Write, Shape, TaskInv
<1>1. /\ \A u \in Tasks, s \in Schedules : Adding(u, s)' => u # t /\ Adding(u, s)
      /\ \A s \in Schedules : Firing(s)' => Firing(s)
      /\ \A s \in Schedules : Firing(s) /\ ~(t = Daemon /\ job[t].do = "mark") => Firing(s)'
      /\ job'[Daemon].do = "mark" => job'[Daemon].until = at + Interval
  BY <1>0, EndedFires DEF SchedInv
<1>2. CASE job[t].file # "schedules"
  <2>1. next' = next /\ wanted' = wanted
    BY <1>2 DEF Write
  <2>2. job[t].do # "mark"
    BY <1>0, <1>2 DEF JobOK
  <2> QED BY <1>0, <2>1, <2>2, EndedSchedule
<1>3. CASE job[t].file = "schedules"
  <2>1. DaemonInv'
    BY <1>0, <1>1 DEF SchedInv, DaemonInv
  <2>2. ASSUME "schedules" \notin troubles
        PROVE  ScheduleInv'
    <3>1. PICK v \in Times \cup {None} :
             /\ next' = [next EXCEPT ![job[t].id] = v] /\ wanted' = next' /\ job[t].id \in Schedules
             /\ v = IF job[t].do = "remove" THEN None ELSE job[t].until
             /\ job[t].do \in {"add", "remove", "mark"}
             /\ job[t].do = "mark" => next[job[t].id] # None
      BY <1>3, <2>2, WriteEntry
    <3>2. PICK i \in Schedules : i = job[t].id
      BY <3>1
    <3>3. next \in Table /\ next'[i] = v /\ \A s \in Schedules \ {i} : next'[s] = next[s]
      BY <3>1, <3>2 DEF Shape, DataInv, Table
    <3>4. job[t].do = "add" => Adding(t, i)
      BY <3>2 DEF Adding
    <3>5. job[t].do = "mark" => t = Daemon /\ Firing(i) /\ v = at + Interval
      BY <1>0, <3>1, <3>2 DEF JobOK, Firing, SchedInv, DaemonInv
    <3>6. \A s \in Schedules \ {i} : Firing(s) => Firing(s)'
      BY <1>1, <3>2 DEF Firing
    <3>7. v = None \/ (i \in used /\ \A u \in Tasks \ {t} : ~Adding(u, i))
      <4>1. CASE job[t].do = "add"
        BY <2>2, <3>4, <4>1 DEF SchedInv, ScheduleInv
      <4>2. CASE job[t].do = "mark"
        <5>1. ~New(i)
          BY <3>1, <3>2, <4>2 DEF New
        <5> QED BY <2>2, <5>1 DEF SchedInv, ScheduleInv
      <4> QED BY <3>1, <4>1, <4>2
    <3>8. \A s \in Schedules : s # i \/ v = None => (New(s) => New(s)')
      BY <1>0, <3>3 DEF New
    <3>9. \A s \in Schedules : s \notin used' => New(s)'
      BY <1>0, <2>2, <3>7, <3>8 DEF SchedInv, ScheduleInv
    <3>10. \A u \in Tasks, s \in Schedules : Adding(u, s)' =>
             s \in used' /\ New(s)' /\ \A w \in Tasks : Adding(w, s)' => w = u
      <4>1. ASSUME NEW u \in Tasks, NEW s \in Schedules, Adding(u, s)'
            PROVE  /\ u # t /\ Adding(u, s) /\ New(s) /\ s \in used
                   /\ \A w \in Tasks : Adding(w, s) => w = u
        BY <1>1, <2>2, <4>1 DEF SchedInv, ScheduleInv
      <4> QED BY <4>1, <1>0, <1>1, <3>7, <3>8
    <3>11. fired[i].last # None /\ v # None => fired[i].last + Interval <= v
      <4>1. CASE job[t].do = "add"
        BY <2>2, <3>4, <4>1 DEF SchedInv, ScheduleInv, New
      <4>2. CASE job[t].do = "mark"
        <5>1. fired[i].last = at /\ at \in Nat
          BY <3>5, <4>2 DEF SchedInv, DaemonInv, Shape, DataInv
        <5> QED BY <3>5, <4>2, <5>1
      <4> QED BY <3>1, <4>1, <4>2
    <3>12. \A s \in Schedules :
             fired[s].last # None /\ ~Firing(s)' /\ next'[s] # None => fired[s].last + Interval <= next'[s]
      <4>1. ASSUME NEW s \in Schedules, s # i, fired[s].last # None, ~Firing(s)', next'[s] # None
            PROVE  fired[s].last + Interval <= next'[s]
        BY <2>2, <3>3, <3>6, <4>1 DEF SchedInv, ScheduleInv
      <4> QED BY <3>3, <3>11, <4>1
    <3> QED BY <1>0, <2>2, <3>1, <3>9, <3>10, <3>12 DEF SchedInv, ScheduleInv
  <2> QED BY <1>0, <2>1, <2>2 DEF SchedInv, ScheduleInv
<1> QED BY <1>2, <1>3

LEMMA RunDueSchedule ==
    ASSUME Shape, SchedInv, RunDue
    PROVE  SchedInv'
<1> USE Constants
<1>1. /\ next' = next /\ wanted' = wanted /\ fired' = fired /\ used' = used /\ troubles' = troubles
      /\ job' = job /\ at' = clock /\ due' = {s \in Scheduled(next) : next[s] <= clock}
      /\ job[Daemon] = NoJob
  BY RunDueShape DEF RunDue, disk, history
<1>2. (\A s : ~Firing(s) /\ ~Firing(s)') /\ job'[Daemon].do # "mark"
  BY <1>1, NoJobFields DEF Firing
<1>3. \A u \in Tasks, s \in Schedules : Adding(u, s)' <=> Adding(u, s)
  BY <1>1 DEF Adding
<1>4. DaemonInv'
  BY <1>2 DEF DaemonInv
<1>5. ASSUME "schedules" \notin troubles
      PROVE  ScheduleInv'
  <2>1. \A s \in Schedules : New(s) => New(s)'
    BY <1>1 DEF New, Scheduled
  <2>2. ASSUME NEW s \in due', fired[s].last # None
        PROVE  fired[s].last + Interval <= clock
    <3>1. s \in Schedules /\ next[s] # None /\ next[s] <= clock
      BY <1>1, <2>2 DEF Scheduled
    <3>2. fired[s].last + Interval <= next[s]
      BY <1>2, <1>5, <2>2, <3>1 DEF SchedInv, ScheduleInv
    <3>3. fired[s].last \in Nat /\ next[s] \in Nat /\ clock \in Nat
      BY <2>2, <3>1 DEF Shape, DataInv, Table
    <3> QED BY <3>1, <3>2, <3>3
  <2> QED BY <1>1, <1>2, <1>3, <1>5, <2>1, <2>2 DEF SchedInv, ScheduleInv
<1> QED BY <1>1, <1>4, <1>5 DEF SchedInv, ScheduleInv

LEMMA FireSchedule ==
    ASSUME Shape, SchedInv, Fire
    PROVE  SchedInv'
<1> USE Constants
<1>1. PICK s \in due :
        /\ Arrives(Daemon) /\ job[Daemon] = NoJob
        /\ fired' = [fired EXCEPT ![s] = [last |-> at, before |-> @.last]]
        /\ due' = due \ {s}
        /\ DumpStarts(Daemon, s) \/ Snaps(s)
        /\ Snaps(s) => job'[Daemon] = MarkRan(s) /\ pc'[Daemon] = "load"
  BY FireShape
<1>2. s \in Schedules
  BY DEF Shape, DataInv
<1>3. /\ next' = next /\ wanted' = wanted /\ at' = at /\ troubles' = troubles /\ used \subseteq used'
      /\ Firing(s)' /\ \A x \in Schedules \ {s} : ~Firing(x)'
      /\ job'[Daemon].do = "mark" => job'[Daemon].until = at + Interval
      /\ job'[Daemon].do # "add"
  <2>1. CASE DumpStarts(Daemon, s)
    <3>1. job'[Daemon] = Work("index", "append", NewId, s, clock)
      BY <1>2, <2>1, DumpStartsShape
    <3> QED BY <2>1, <3>1 DEF DumpStarts, Firing, Work
  <2>2. CASE Snaps(s)
    <3>1. job'[Daemon] = Edit("schedules", "mark", s, at + Interval)
      BY <1>1, <2>2 DEF MarkRan
    <3> QED BY <2>2, <3>1 DEF Snaps, disk, Firing, Edit, Work
  <2> QED BY <1>1, <2>1, <2>2
<1>4. \A x : ~Firing(x)
  BY <1>1, NoJobFields DEF Firing
<1>5. \A u \in Tasks, x \in Schedules : Adding(u, x)' => Adding(u, x)
  BY <1>1, <1>3, OtherTasks DEF Adding
<1>6. fired'[s] = [last |-> at, before |-> fired[s].last] /\ \A x \in Schedules \ {s} : fired'[x] = fired[x]
  BY <1>1, <1>2 DEF Shape, DataInv
<1>7. DaemonInv'
  BY <1>3, <1>6 DEF DaemonInv
<1>8. ASSUME "schedules" \notin troubles
      PROVE  ScheduleInv'
  <2>1. \A x \in Schedules : New(x) => x # s /\ New(x)'
    BY <1>1, <1>2, <1>3, <1>6 DEF New
  <2>2. \A x \in due' : x \in due /\ x # s /\ x \in Schedules
    BY <1>1 DEF Shape, DataInv
  <2>3. \A x \in due' : fired'[x].last # None => fired'[x].last + Interval <= at'
    BY <1>3, <1>6, <1>8, <2>2 DEF SchedInv, ScheduleInv
  <2>4. \A x \in Schedules :
          fired'[x].last # None /\ ~Firing(x)' /\ next'[x] # None => fired'[x].last + Interval <= next'[x]
    BY <1>3, <1>4, <1>6, <1>8 DEF SchedInv, ScheduleInv
  <2>5. \A x \in Schedules : fired'[x].before # None => fired'[x].before + Interval <= fired'[x].last
    BY <1>6, <1>8 DEF SchedInv, ScheduleInv
  <2>6. \A x \in Schedules : x \notin used' => New(x)'
    BY <1>3, <1>8, <2>1 DEF SchedInv, ScheduleInv
  <2>7. \A u \in Tasks, x \in Schedules : Adding(u, x)' =>
          x \in used' /\ New(x)' /\ \A v \in Tasks : Adding(v, x)' => v = u
    BY <1>3, <1>5, <1>8, <2>1 DEF SchedInv, ScheduleInv
  <2>8. next' = wanted'
    BY <1>3, <1>8 DEF SchedInv, ScheduleInv
  <2> QED BY <2>3, <2>4, <2>5, <2>6, <2>7, <2>8 DEF ScheduleInv
<1> QED BY <1>3, <1>7, <1>8 DEF SchedInv, ScheduleInv

LEMMA SchedStep == Shape /\ EditInv /\ SchedInv /\ [Next]_vars => SchedInv'
<1> SUFFICES ASSUME Shape, EditInv, SchedInv, [Next]_vars PROVE SchedInv'
  OBVIOUS
<1> USE Constants
<1>1. CASE Tick
  BY <1>1, SameJobSchedule DEF Tick, disk, tasks, history
<1>2. ASSUME NEW t \in Users, Backup(t) PROVE SchedInv'
  <2>1. DumpStarts(t, None) /\ t # Daemon /\ t \in Tasks /\ due' = due /\ fired' = fired
    BY <1>2 DEF Backup
  <2>2. Arrives(t) /\ job'[t].do = "append"
    <3>1. Arrives(t) /\ job'[t] = Work("index", "append", NewId, None, clock)
      BY <2>1, DumpStartsShape
    <3> QED BY <3>1 DEF Work
  <2>3. /\ job'[Daemon] = job[Daemon] /\ \A s : Firing(s)' <=> Firing(s)
        /\ \A u \in Tasks, s \in Schedules : Adding(u, s)' => Adding(u, s)
    BY <2>1, <2>2, OtherTasks DEF Firing, Adding
  <2> QED BY <2>1, <2>3, ScheduleKept DEF SchedInv, DaemonInv, DumpStarts
<1>3. ASSUME NEW t \in Tasks, DumpEnds(t) PROVE SchedInv'
  <2>1. /\ Arrives(t) /\ job[t].do = "append"
        /\ Ended(t) \/ job'[t] = job[t]
        /\ UNCHANGED <<next, wanted, fired, at, due, used, troubles>>
    BY <1>3, DumpEndsShape DEF DumpEnds, history
  <2> QED BY <2>1, EndedSchedule, SameJob, SameJobSchedule
<1>4. ASSUME NEW t \in Tasks, Unlink(t) \/ Truncate(t) PROVE SchedInv'
  <2>1. job' = job
    BY <1>4 DEF Unlink, Truncate
  <2> QED BY <1>4, <2>1, SameJobSchedule DEF Unlink, Truncate, history
<1>5. ASSUME NEW t \in Tasks, Restore(t) PROVE SchedInv'
  <2>1. Arrives(t) /\ Ended(t) /\ job[t].do = "restore"
    BY <1>5, LeavesShape DEF Leaves
  <2> QED BY <1>5, <2>1, EndedSchedule DEF Restore, disk, history
<1>6. ASSUME NEW t \in Tasks, WriteFails(t) PROVE SchedInv'
  <2>1. Arrives(t) /\ Ended(t) /\ JobOK(t, job[t], pc[t])
    BY <1>6, LeavesShape DEF Leaves, Shape, TaskInv
  <2>2. job[t].do = "mark" => "schedules" \in troubles'
    BY <1>6, <2>1 DEF WriteFails, JobOK
  <2> QED BY <1>6, <2>1, <2>2, EndedSchedule DEF WriteFails, disk
<1>7. ASSUME NEW t \in Tasks, Crash(t) PROVE SchedInv'
  <2>1. Arrives(t) /\ job'[t] = NoJob
    BY <1>7, CrashShape
  <2>2. /\ \A u \in Tasks, s \in Schedules : Adding(u, s)' => Adding(u, s)
        /\ \A s : Firing(s)' => Firing(s)
        /\ t # Daemon => job'[Daemon] = job[Daemon] /\ \A s : Firing(s) => Firing(s)'
        /\ t = Daemon => job'[Daemon].do # "mark"
    BY <2>1, OtherTasks, NoJobFields DEF Adding, Firing
  <2>3. (t = Daemon => "schedules" \in troubles') /\ due' \subseteq due /\ troubles \subseteq troubles'
    BY <1>7 DEF Crash
  <2> QED BY <1>7, <2>2, <2>3, ScheduleKept DEF Crash, SchedInv, DaemonInv, disk
<1>8. CASE UNCHANGED vars
  BY <1>8, SameJobSchedule DEF vars, disk, tasks, history
<1> QED BY <1>1, <1>2, <1>3, <1>4, <1>5, <1>6, <1>7, <1>8, EditsSchedule, LoadSchedule,
           WriteSchedule, RunDueSchedule, FireSchedule, NextCases DEF Leaves

LEMMA InitSchedules == Init => EditInv /\ SchedInv
<1> SUFFICES ASSUME Init PROVE EditInv /\ SchedInv
  OBVIOUS
<1>1. \A t \in Tasks : job[t].do = "none" /\ pc[t] = "idle"
  BY NoJobFields DEF Init
<1>2. EditInv
  BY <1>1 DEF Init, EditInv, FileInv, Editing, Content, EmptyContent, Files
<1>3. SchedInv
  BY <1>1, Constants DEF Init, SchedInv, DaemonInv, ScheduleInv, Firing, Adding, New
<1> QED BY <1>2, <1>3

AutoInv == Shape /\ EditInv /\ SchedInv

LEMMA SchedulesFollow == AutoInv => SchedulesAreKept
<1> SUFFICES ASSUME AutoInv PROVE SchedulesAreKept
  OBVIOUS
<1>1. TypeOK
  BY Constants DEF AutoInv, Shape, DataInv, TaskInv, TypeOK, Instants, Table, Entries, Labels, Files
<1>2. FiresSpaced
  BY DEF AutoInv, SchedInv, ScheduleInv, FiresSpaced
<1>3. ASSUME Quiet, "schedules" \notin troubles
      PROVE  next = wanted /\ (fstate["schedules"] = "ok" \/ Scheduled(wanted) = {})
  <2>1. next = wanted /\ FileInv("schedules")
    BY <1>3 DEF AutoInv, SchedInv, ScheduleInv, EditInv, Files
  <2>2. fstate["schedules"] # "torn"
    BY <1>3, <2>1 DEF Quiet, FileInv
  <2>3. CASE fstate["schedules"] = "missing"
    BY <2>1, <2>3 DEF FileInv, Content, EmptyContent, Scheduled
  <2> QED BY <2>1, <2>2, <2>3 DEF AutoInv, Shape, DataInv, Files
<1> QED BY <1>1, <1>2, <1>3 DEF SchedulesAreKept, SchedulesSurvive

\* schedules.json holds exactly what was added, not removed and marked, and no
\* schedule fires twice within its interval (scheduler.go:98-181), unless the
\* edits of the file overlapped or were cut short.
THEOREM SchedulesAreKeptAlways == Spec => []SchedulesAreKept
<1>1. Init => AutoInv
  BY InitShape, InitSchedules DEF AutoInv
<1>2. AutoInv /\ [Next]_vars => AutoInv'
  BY ShapeStep, EditStep, SchedStep DEF AutoInv
<1> QED BY <1>1, <1>2, SchedulesFollow, PTL DEF Spec

-----------------------------------------------------------------------------
(* The archives and their index.                                           *)

ArchInv == ClaimInv /\ AppendInv /\ ArchiveInv

LEMMA EntryFields ==
    \A b \in BackupIds, n \in Names :
      Entry(b, n) \in Entries /\ Entry(b, n).id = b /\ Entry(b, n).name = n
  BY DEF Entry, Entries

\* A deletion that has removed its archive and has still to save the index.
Deleting(t) == job[t].do = "delete" /\ pc[t] \in {"save", "write"}

\* A step that leaves the archives and the index, and starts no dump and no
\* deletion; one that ends because of a trouble may also forget what it did.
LEMMA ArchiveKept ==
    ASSUME ArchInv, archive' = archive, starts' = starts, gone' = gone, index' = index,
           used \subseteq used', troubles \subseteq troubles',
           \A e \in Entries : ListedIn(e)' => ListedIn(e),
           \A u \in Tasks : job'[u].do = "append" =>
             job[u] = job'[u] /\ (pc'[u] = "dumping" <=> pc[u] = "dumping"),
           \A u \in Tasks : Deleting(u)' => Deleting(u) /\ job'[u].id = job[u].id,
           "index" \notin troubles' =>
             /\ \A u \in Tasks : Deleting(u) => Deleting(u)' /\ job'[u].id = job[u].id
             /\ \A u \in Tasks, e \in Entries : Appending(u, e) /\ Stored(e) => Appending(u, e)'
    PROVE  ArchInv'
<1>1. \A u \in Tasks, e \in Entries :
        Appending(u, e)' => Appending(u, e) /\ (pc'[u] = "dumping" <=> pc[u] = "dumping")
  BY DEF Appending
<1>2. \A e \in Entries : Stored(e)' <=> Stored(e)
  BY DEF Stored
<1>3. \A e \in Entries : Claim(e)' => Claim(e)
  BY <1>1, <1>2 DEF Claim
<1>4. ClaimInv'
  BY <1>3 DEF ArchInv, ClaimInv
<1>5. AppendInv'
  BY <1>1, <1>2 DEF ArchInv, AppendInv
<1>6. ArchiveInv'
  <2>1. \A e \in Entries : ListedIn(e)' /\ starts'[e.name] = 1 =>
          Stored(e)' \/ (e.id \in gone' /\ archive'[e.name] = None)
    BY <1>2 DEF ArchInv, ArchiveInv
  <2>2. \A e \in Entries : Stored(e)' => e.id \notin gone'
    BY <1>2 DEF ArchInv, ArchiveInv
  <2>3. \A u \in Tasks : Deleting(u)' => job'[u].id \in gone'
    BY DEF ArchInv, ArchiveInv, Deleting
  <2>4. ASSUME "index" \notin troubles'
        PROVE  \A e \in index' : e.id \in gone' => \E u \in Tasks : Deleting(u)' /\ job'[u].id = e.id
    <3>1. ASSUME NEW e \in index, e.id \in gone
          PROVE  \E u \in Tasks : Deleting(u) /\ job[u].id = e.id
      BY <2>4, <3>1 DEF ArchInv, ArchiveInv, Deleting
    <3> QED BY <2>4, <3>1
  <2>5. ASSUME "index" \notin troubles'
        PROVE  \A e \in Entries : Stored(e)' => e \in index' \/ \E u \in Tasks : Appending(u, e)'
    BY <1>2, <2>5 DEF ArchInv, ArchiveInv
  <2> QED BY <2>1, <2>2, <2>3, <2>4, <2>5 DEF ArchiveInv, Deleting
<1> QED BY <1>4, <1>5, <1>6 DEF ArchInv

\* One task moves, the index stays, and what the task has loaded was listed.
LEMMA ListedKept ==
    ASSUME Shape, NEW t \in Tasks, Arrives(t), index' = index,
           \A e \in Entries : Holding(t)' /\ job'[t].file = "index" /\ e \in copy'[t] => ListedIn(e)
    PROVE  \A e \in Entries : ListedIn(e)' => ListedIn(e)
  BY OtherTasks DEF ListedIn, Holding

\* The steps that only end a job.
LEMMA EndedArchive ==
    ASSUME Shape, ArchInv, NEW t \in Tasks, Arrives(t), Ended(t) \/ (pc'[t] = "idle" /\ job'[t] = NoJob),
           UNCHANGED <<archive, starts, gone, index, used>>, troubles \subseteq troubles',
           job[t].do = "append" => pc[t] = "dumping" \/ "index" \in troubles',
           Deleting(t) => "index" \in troubles'
    PROVE  ArchInv'
<1>1. job'[t].do \notin {"append", "delete"} /\ pc'[t] \notin Busy
  BY NoJobFields DEF Ended, MarkRan, Edit, Work, Busy
<1>2. \A e \in Entries : ListedIn(e)' => ListedIn(e)
  BY <1>1, ListedKept DEF Holding
<1>3. \A u \in Tasks : job'[u].do = "append" =>
        job[u] = job'[u] /\ (pc'[u] = "dumping" <=> pc[u] = "dumping")
  BY <1>1, OtherTasks
<1>4. \A u \in Tasks : Deleting(u)' => Deleting(u) /\ job'[u].id = job[u].id
  BY <1>1, OtherTasks DEF Deleting
<1>5. \A u \in Tasks, e \in Entries : Appending(u, e) /\ Stored(e) =>
        Appending(u, e)' \/ "index" \in troubles'
  <2>1. ASSUME NEW e \in Entries, Appending(t, e), Stored(e) PROVE "index" \in troubles'
    BY <2>1 DEF ArchInv, AppendInv, Appending
  <2> QED BY <2>1, OtherTasks DEF Appending
<1>6. \A u \in Tasks : Deleting(u) => "index" \in troubles' \/ (Deleting(u)' /\ job'[u].id = job[u].id)
  BY OtherTasks DEF Deleting
<1> QED BY <1>2, <1>3, <1>4, <1>5, <1>6, ArchiveKept

\* A dump starts under a new id.
LEMMA DumpStartsArchive ==
    ASSUME Shape, ArchInv, NEW t \in Tasks, NEW s \in Schedules \cup {None}, DumpStarts(t, s),
           t = Daemon => s \in Schedules, pc[t] \in {"idle", "pass"}
    PROVE  ArchInv'
<1> USE Constants
<1>1. PICK b \in BackupIds : b = NewId /\ b \notin used
  BY DumpStartsShape
<1>2. /\ Arrives(t) /\ pc'[t] = "dumping" /\ job[t] = NoJob
      /\ job'[t] = Work("index", "append", b, s, clock)
  BY <1>1, DumpStartsShape DEF Shape, TaskInv, JobOK
<1>3. job'[t].do = "append" /\ job'[t].id = b /\ job'[t].name = clock /\ job[t].do = "none"
  BY <1>2, NoJobFields DEF Work
<1>4. /\ index' = index /\ gone' = gone /\ troubles' = troubles /\ used' = used \cup {b}
      /\ starts' = [starts EXCEPT ![clock] = @ + 1] /\ clock \in Names
      /\ archive'[clock] \in {"partial", "mixed"}
      /\ \A n \in Names \ {clock} : archive'[n] = archive[n]
      /\ archive'[clock] = "mixed" => \E u \in Tasks : pc[u] = "dumping" /\ job[u].name = clock
  BY <1>1 DEF DumpStarts, Shape, DataInv
<1>5. PICK e0 \in Entries : e0.id = b /\ e0.name = clock
  BY <1>4, EntryFields
<1>6. \A u \in Tasks \ {t} : pc'[u] = pc[u] /\ job'[u] = job[u] /\ copy'[u] = copy[u]
  BY <1>2, OtherTasks
<1>7. \A e \in Entries : ListedIn(e)' => ListedIn(e)
  BY <1>2, <1>4, ListedKept DEF Holding, Busy
<1>8. \A e \in Entries : Stored(e)' => Stored(e) /\ e.name # clock
  BY <1>4, AutomationAssumption DEF Stored, Entries
<1>9. \A u \in Tasks, e \in Entries :
        Appending(u, e)' => (u # t /\ Appending(u, e)) \/ (u = t /\ e = e0)
  BY <1>3, <1>5, <1>6 DEF Appending, Entries
<1>10. \A e \in Entries : Claim(e)' => Claim(e) \/ e = e0
  BY <1>7, <1>8, <1>9 DEF Claim
<1>11. \A e \in Entries : Claim(e) => e.id # b /\ e.id \in used /\ starts[e.name] > 0
  BY <1>1 DEF ArchInv, ClaimInv
<1>12. \A n \in Names : starts[n] \in Nat /\ starts'[n] = IF n = clock THEN starts[n] + 1 ELSE starts[n]
  BY <1>4 DEF Shape, DataInv
<1>13. \A e \in Entries : Claim(e) /\ starts'[e.name] = 1 => e.name # clock /\ starts[e.name] = 1
  <2>1. ASSUME NEW e \in Entries, Claim(e), starts'[e.name] = 1
        PROVE  e.name # clock /\ starts[e.name] = 1
    <3>1. e.name \in Names /\ starts[e.name] > 0
      BY <1>11, <2>1 DEF Entries
    <3>2. /\ starts[e.name] \in Nat
          /\ starts'[e.name] = IF e.name = clock THEN starts[e.name] + 1 ELSE starts[e.name]
      BY <1>12, <3>1
    <3> HIDE Constants
    <3> QED BY <2>1, <3>1, <3>2
  <2> QED BY <2>1
<1>14. starts'[clock] = 1 => archive'[clock] = "partial"
  <2>1. ASSUME NEW u \in Tasks, pc[u] = "dumping", job[u].name = clock
        PROVE  starts[clock] > 0
    <3>1. job[u].do = "append" /\ job[u].id \in BackupIds
      BY <2>1 DEF Shape, TaskInv, JobOK
    <3>2. PICK e \in Entries : e.id = job[u].id /\ e.name = clock
      BY <1>4, <3>1, EntryFields
    <3> QED BY <1>11, <2>1, <3>1, <3>2 DEF Claim, Appending
  <2> QED BY <1>4, <1>12, <2>1
<1>15. ClaimInv'
  <2>1. \A e \in Entries : Claim(e)' => e.id \in used' /\ starts'[e.name] > 0
    BY <1>4, <1>5, <1>10, <1>11, <1>12 DEF Entries
  <2>2. \A e, f \in Entries : Claim(e)' /\ Claim(f)' /\ e.id = f.id => e = f
    BY <1>5, <1>10, <1>11 DEF ArchInv, ClaimInv
  <2>3. \A e, f \in Entries : Claim(e)' /\ Claim(f)' /\ e.name = f.name /\ starts'[e.name] = 1 => e = f
    BY <1>5, <1>10, <1>13 DEF ArchInv, ClaimInv
  <2>4. gone' \subseteq used'
    BY <1>4 DEF ArchInv, ClaimInv
  <2> QED BY <2>1, <2>2, <2>3, <2>4 DEF ClaimInv
<1>16. AppendInv'
  <2>1. ASSUME NEW u \in Tasks, u # t, job[u].do = "append" PROVE job[u].id # b
    <3>1. job[u].id \in BackupIds /\ job[u].name \in Names
      BY <2>1 DEF Shape, TaskInv, JobOK, Jobs
    <3>2. PICK e \in Entries : e.id = job[u].id /\ e.name = job[u].name
      BY <3>1, EntryFields
    <3> QED BY <1>11, <2>1, <3>2 DEF Claim, Appending
  <2>2. \A u, v \in Tasks : job'[u].do = "append" /\ job'[v].do = "append" /\ job'[u].id = job'[v].id => u = v
    BY <1>3, <1>6, <2>1 DEF ArchInv, AppendInv
  <2>3. ASSUME NEW u \in Tasks, NEW e \in Entries, u # t, Appending(u, e)
        PROVE  /\ ~ListedIn(e)' /\ e.id \notin gone'
               /\ pc'[u] = "dumping" => ~Stored(e)'
               /\ pc'[u] = "dumping" /\ starts'[e.name] = 1 => archive'[e.name] = "partial"
               /\ pc'[u] # "dumping" /\ starts'[e.name] = 1 => Stored(e)'
    <3>1. Claim(e)
      BY <2>3 DEF Claim
    <3>2. starts'[e.name] = 1 => starts[e.name] = 1 /\ archive'[e.name] = archive[e.name]
      BY <1>4, <1>13, <3>1 DEF Entries
    <3> QED BY <1>4, <1>6, <1>7, <1>8, <2>3, <3>2 DEF ArchInv, AppendInv, Stored
  <2>4. ~ListedIn(e0)' /\ e0.id \notin gone' /\ ~Stored(e0)'
    <3>1. ~Claim(e0)
      BY <1>5, <1>11
    <3>2. b \notin gone
      BY <1>1 DEF ArchInv, ClaimInv
    <3> QED BY <1>4, <1>5, <1>7, <1>8, <3>1, <3>2 DEF Claim
  <2> QED BY <1>2, <1>5, <1>9, <1>14, <2>2, <2>3, <2>4 DEF AppendInv
<1>17. ArchiveInv'
  <2>1. ASSUME NEW e \in Entries, ListedIn(e)', starts'[e.name] = 1
        PROVE  Stored(e)' \/ (e.id \in gone' /\ archive'[e.name] = None)
    <3>1. ListedIn(e) /\ starts[e.name] = 1 /\ archive'[e.name] = archive[e.name]
      BY <1>4, <1>7, <1>13, <2>1 DEF Claim, Entries
    <3> QED BY <1>4, <3>1 DEF ArchInv, ArchiveInv, Stored
  <2>2. \A e \in Entries : Stored(e)' => e.id \notin gone'
    BY <1>4, <1>8 DEF ArchInv, ArchiveInv
  <2>3. \A u \in Tasks : /\ Deleting(u)' <=> Deleting(u)
                         /\ Deleting(u) => job'[u].id = job[u].id
    BY <1>2, <1>3, <1>6 DEF Deleting
  <2>4. \A u \in Tasks : Deleting(u)' => job'[u].id \in gone'
    BY <1>4, <2>3 DEF ArchInv, ArchiveInv, Deleting
  <2>5. \A u \in Tasks, e \in Entries : Appending(u, e) => Appending(u, e)'
    BY <1>3, <1>6 DEF Appending
  <2>6. ASSUME "index" \notin troubles'
        PROVE  \A e \in index' : e.id \in gone' => \E u \in Tasks : Deleting(u)' /\ job'[u].id = e.id
    <3>1. ASSUME NEW e \in index, e.id \in gone
          PROVE  \E u \in Tasks : Deleting(u) /\ job[u].id = e.id
      BY <1>4, <2>6, <3>1 DEF ArchInv, ArchiveInv, Deleting
    <3> QED BY <1>4, <2>3, <3>1
  <2>7. ASSUME "index" \notin troubles'
        PROVE  \A e \in Entries : Stored(e)' => e \in index' \/ \E u \in Tasks : Appending(u, e)'
    BY <1>4, <1>8, <2>5, <2>7 DEF ArchInv, ArchiveInv
  <2> QED BY <2>1, <2>2, <2>4, <2>6, <2>7 DEF ArchiveInv, Deleting
<1> QED BY <1>15, <1>16, <1>17 DEF ArchInv

\* A dump completes its archive.
LEMMA DumpEndsArchive ==
    ASSUME Shape, ArchInv, NEW t \in Tasks, DumpEnds(t)
    PROVE  ArchInv'
<1>0. /\ Arrives(t) /\ pc[t] = "dumping" /\ job[t].do = "append" /\ job[t] \in Jobs
      /\ JobOK(t, job[t], pc[t])
      /\ UNCHANGED <<index, starts, gone, used, troubles>>
  BY DumpEndsShape DEF DumpEnds, history, Shape, TaskInv
<1>1. CASE Ended(t) /\ archive' = archive
  <2>1. ~Deleting(t)
    BY <1>0 DEF Deleting
  <2> QED BY <1>0, <1>1, <2>1, EndedArchive
<1>2. CASE /\ pc'[t] = "load" /\ job'[t] = job[t]
           /\ archive' = [archive EXCEPT ![job[t].name] = IF @ = "partial" THEN job[t].id ELSE @]
  <2>1. PICK e0 \in Entries : e0.id = job[t].id /\ e0.name = job[t].name
    BY <1>0, EntryFields DEF JobOK, Jobs
  <2>2. job' = job /\ Appending(t, e0)
    BY <1>0, <1>2, <2>1, SameJob DEF Appending
  <2>3. \A u \in Tasks, e \in Entries :
          /\ Appending(u, e)' <=> Appending(u, e)
          /\ Appending(u, e) => (u # t /\ (pc'[u] = "dumping" <=> pc[u] = "dumping")) \/ (u = t /\ e = e0)
    BY <1>0, <2>1, <2>2, OtherTasks DEF Appending, Entries
  <2>4. \A e \in Entries : ListedIn(e)' => ListedIn(e)
    BY <1>0, <1>2, ListedKept DEF Holding, Busy
  <2>5. /\ \A n \in Names \ {e0.name} : archive'[n] = archive[n]
        /\ archive'[e0.name] = IF archive[e0.name] = "partial" THEN e0.id ELSE archive[e0.name]
    BY <1>0, <1>2, <2>1 DEF Shape, DataInv, Entries
  <2>6. \A e \in Entries : Stored(e)' => Stored(e) \/ e = e0
    BY <2>5 DEF Stored, Entries
  <2>7. \A e \in Entries : Claim(e)' => Claim(e)
    BY <2>2, <2>3, <2>4, <2>6 DEF Claim
  <2>8. ClaimInv'
    BY <1>0, <2>7 DEF ArchInv, ClaimInv
  <2>9. \A e \in Entries : e # e0 /\ Claim(e) /\ starts[e.name] = 1 => e.name # e0.name
    BY <2>2 DEF ArchInv, ClaimInv, Claim
  <2>10. \A e \in Entries : e # e0 /\ Claim(e) /\ starts[e.name] = 1 =>
           archive'[e.name] = archive[e.name]
    BY <2>5, <2>9 DEF Entries
  <2>11. AppendInv'
    <3>1. ASSUME NEW u \in Tasks, NEW e \in Entries, u # t, Appending(u, e)
          PROVE  /\ ~ListedIn(e)' /\ e.id \notin gone'
                 /\ pc'[u] = "dumping" => ~Stored(e)'
                 /\ pc'[u] = "dumping" /\ starts'[e.name] = 1 => archive'[e.name] = "partial"
                 /\ pc'[u] # "dumping" /\ starts'[e.name] = 1 => Stored(e)'
      <4>1. Claim(e)
        BY <3>1 DEF Claim
      <4>2. e # e0
        BY <2>2, <3>1 DEF ArchInv, AppendInv, Appending
      <4>3. pc'[u] = pc[u]
        BY <1>0, <3>1, OtherTasks
      <4>4. starts[e.name] = 1 => archive'[e.name] = archive[e.name]
        BY <2>10, <4>1, <4>2
      <4> QED BY <1>0, <2>4, <2>6, <3>1, <4>2, <4>3, <4>4 DEF ArchInv, AppendInv, Stored
    <3>2. /\ ~ListedIn(e0)' /\ e0.id \notin gone'
          /\ starts'[e0.name] = 1 => Stored(e0)'
      BY <1>0, <2>2, <2>4, <2>5 DEF ArchInv, AppendInv, Stored
    <3>3. \A u, v \in Tasks : job'[u].do = "append" /\ job'[v].do = "append" /\ job'[u].id = job'[v].id => u = v
      BY <2>2 DEF ArchInv, AppendInv
    <3> QED BY <1>2, <2>3, <3>1, <3>2, <3>3 DEF AppendInv
  <2>12. ArchiveInv'
    <3>1. ASSUME NEW e \in Entries, ListedIn(e)', starts'[e.name] = 1
          PROVE  Stored(e)' \/ (e.id \in gone' /\ archive'[e.name] = None)
      <4>1. ListedIn(e) /\ Claim(e) /\ starts[e.name] = 1
        BY <1>0, <2>4, <3>1 DEF Claim
      <4>2. e # e0
        BY <2>2, <4>1 DEF ArchInv, AppendInv
      <4>3. archive'[e.name] = archive[e.name]
        BY <2>10, <4>1, <4>2
      <4> QED BY <1>0, <4>1, <4>3 DEF ArchInv, ArchiveInv, Stored
    <3>2. \A e \in Entries : Stored(e)' => e.id \notin gone'
      BY <1>0, <2>2, <2>6 DEF ArchInv, ArchiveInv, AppendInv
    <3>3. \A u \in Tasks : /\ Deleting(u)' <=> Deleting(u)
                           /\ job'[u].id = job[u].id
      BY <1>0, <1>2, <2>2, OtherTasks DEF Deleting
    <3>4. \A u \in Tasks : Deleting(u)' => job'[u].id \in gone'
      BY <1>0, <3>3 DEF ArchInv, ArchiveInv, Deleting
    <3>5. ASSUME "index" \notin troubles'
          PROVE  /\ \A e \in index' : e.id \in gone' => \E u \in Tasks : Deleting(u)' /\ job'[u].id = e.id
                 /\ \A e \in Entries : Stored(e)' => e \in index' \/ \E u \in Tasks : Appending(u, e)'
      <4>1. ASSUME NEW e \in index, e.id \in gone
            PROVE  \E u \in Tasks : Deleting(u) /\ job[u].id = e.id
        BY <1>0, <3>5, <4>1 DEF ArchInv, ArchiveInv, Deleting
      <4>2. \A e \in Entries : Stored(e)' => e \in index' \/ \E u \in Tasks : Appending(u, e)'
        BY <1>0, <2>2, <2>3, <2>6, <3>5 DEF ArchInv, ArchiveInv
      <4> QED BY <1>0, <3>3, <4>1, <4>2
    <3> QED BY <3>1, <3>2, <3>4, <3>5 DEF ArchiveInv, Deleting
  <2> QED BY <2>8, <2>11, <2>12 DEF ArchInv
<1> QED BY <1>1, <1>2, DumpEndsShape

\* A deletion removes the archive of the entry it has found.
LEMMA UnlinkArchive ==
    ASSUME Shape, ArchInv, NEW t \in Tasks, Unlink(t)
    PROVE  ArchInv'
<1>0. /\ Arrives(t) /\ pc[t] = "unlink" /\ pc'[t] = "save" /\ job[t].do = "delete"
      /\ job' = job /\ copy' = copy /\ job[t].file = "index"
      /\ copy[t] \subseteq Entries /\ \E e \in copy[t] : e.id = job[t].id
      /\ UNCHANGED <<index, starts, used, troubles>> /\ gone' = gone \cup {job[t].id}
      /\ archive' = [archive EXCEPT ![NameOf(t)] = None]
  BY UnlinkShape DEF Unlink, Shape, TaskInv, JobOK, CopyOK, Busy
<1>1. PICK e0 \in Entries : e0 \in copy[t] /\ e0.id = job[t].id /\ e0.name = NameOf(t)
  BY <1>0 DEF NameOf
<1>2. ListedIn(e0) /\ Claim(e0)
  BY <1>0, <1>1 DEF ListedIn, Holding, Busy, Claim
<1>3. archive'[e0.name] = None /\ \A n \in Names \ {e0.name} : archive'[n] = archive[n]
  BY <1>0, <1>1 DEF Shape, DataInv, Entries
<1>4. \A e \in Entries : Stored(e)' => Stored(e) /\ e # e0
  BY <1>3, Constants DEF Stored, Entries
<1>5. \A e \in Entries : ListedIn(e)' => ListedIn(e)
  BY <1>0, OtherTasks DEF ListedIn, Holding, Busy
<1>6. \A u \in Tasks, e \in Entries : Appending(u, e)' <=> Appending(u, e)
  BY <1>0 DEF Appending
<1>7. \A u \in Tasks : pc'[u] = "dumping" <=> pc[u] = "dumping"
  BY <1>0, OtherTasks
<1>8. \A e \in Entries : Claim(e)' => Claim(e)
  BY <1>4, <1>5, <1>6 DEF Claim
<1>9. \A e \in Entries : Claim(e) /\ e.id \in gone' => e.id \in gone \/ e = e0
  BY <1>0, <1>1, <1>2 DEF ArchInv, ClaimInv
<1>10. \A e \in Entries : Claim(e) /\ starts[e.name] = 1 /\ e # e0 => archive'[e.name] = archive[e.name]
  BY <1>2, <1>3 DEF ArchInv, ClaimInv, Entries
<1>11. ClaimInv'
  BY <1>0, <1>1, <1>2, <1>8 DEF ArchInv, ClaimInv
<1>12. AppendInv'
  <2>1. ASSUME NEW u \in Tasks, NEW e \in Entries, Appending(u, e)
        PROVE  /\ ~ListedIn(e)' /\ e.id \notin gone'
               /\ pc'[u] = "dumping" => ~Stored(e)'
               /\ pc'[u] = "dumping" /\ starts'[e.name] = 1 => archive'[e.name] = "partial"
               /\ pc'[u] # "dumping" /\ starts'[e.name] = 1 => Stored(e)'
    <3>1. Claim(e) /\ ~ListedIn(e) /\ e.id \notin gone
      BY <2>1 DEF ArchInv, AppendInv, Claim
    <3>2. e # e0
      BY <1>2, <3>1
    <3>3. starts[e.name] = 1 => archive'[e.name] = archive[e.name]
      BY <1>10, <3>1, <3>2
    <3> QED BY <1>0, <1>4, <1>5, <1>7, <1>9, <2>1, <3>1, <3>2, <3>3 DEF ArchInv, AppendInv, Stored
  <2>2. \A u, v \in Tasks : job'[u].do = "append" /\ job'[v].do = "append" /\ job'[u].id = job'[v].id => u = v
    BY <1>0 DEF ArchInv, AppendInv
  <2> QED BY <1>6, <2>1, <2>2 DEF AppendInv
<1>13. ArchiveInv'
  <2>1. ASSUME NEW e \in Entries, ListedIn(e)', starts'[e.name] = 1
        PROVE  Stored(e)' \/ (e.id \in gone' /\ archive'[e.name] = None)
    <3>1. ListedIn(e) /\ Claim(e) /\ starts[e.name] = 1
      BY <1>0, <1>5, <2>1 DEF Claim
    <3>2. CASE e = e0
      BY <1>0, <1>1, <1>3, <3>2
    <3>3. CASE e # e0
      BY <1>0, <1>10, <3>1, <3>3 DEF ArchInv, ArchiveInv, Stored
    <3> QED BY <3>2, <3>3
  <2>2. \A e \in Entries : Stored(e)' => e.id \notin gone'
    BY <1>4, <1>9 DEF ArchInv, ArchiveInv, Claim
  <2>3. \A u \in Tasks : Deleting(u)' <=> Deleting(u) \/ u = t
    BY <1>0, OtherTasks DEF Deleting
  <2>4. \A u \in Tasks : Deleting(u)' => job'[u].id \in gone'
    BY <1>0, <2>3 DEF ArchInv, ArchiveInv, Deleting
  <2>5. ASSUME "index" \notin troubles', NEW e \in index', e.id \in gone'
        PROVE  \E u \in Tasks : Deleting(u)' /\ job'[u].id = e.id
    <3>1. CASE e.id = job[t].id
      BY <1>0, <2>3, <3>1
    <3>2. CASE e.id \in gone
      <4>1. PICK u \in Tasks : Deleting(u) /\ job[u].id = e.id
        BY <1>0, <2>5, <3>2 DEF ArchInv, ArchiveInv, Deleting
      <4> QED BY <1>0, <2>3, <4>1
    <3> QED BY <1>0, <2>5, <3>1, <3>2
  <2>6. ASSUME "index" \notin troubles'
        PROVE  \A e \in Entries : Stored(e)' => e \in index' \/ \E u \in Tasks : Appending(u, e)'
    BY <1>0, <1>4, <1>6, <2>6 DEF ArchInv, ArchiveInv
  <2> QED BY <2>1, <2>2, <2>4, <2>5, <2>6 DEF ArchiveInv, Deleting
<1> QED BY <1>11, <1>12, <1>13 DEF ArchInv

\* A write of the index: the entry of a backup joins it, or leaves it.
LEMMA WriteArchive ==
    ASSUME Shape, EditInv, ArchInv, NEW t \in Tasks, Write(t)
    PROVE  ArchInv'
<1>0. /\ Arrives(t) /\ Ended(t) /\ pc[t] = "write" /\ job[t] \in Jobs /\ JobOK(t, job[t], "write")
      /\ CopyOK(job[t], "write", copy[t])
      /\ UNCHANGED <<archive, starts, gone, used, troubles>>
  BY WriteShape DEF Write, Shape, TaskInv
<1>1. CASE job[t].file = "schedules"
  <2>1. index' = index /\ job[t].do # "append" /\ ~Deleting(t)
    BY <1>0, <1>1 DEF Write, JobOK, Deleting
  <2> QED BY <1>0, <2>1, EndedArchive
<1>2. CASE job[t].file = "index"
  <2>1. /\ index' = Edited(job[t], copy[t]) /\ job[t].do \in {"append", "delete"}
        /\ copy[t] \subseteq Entries /\ job[t].id \in BackupIds /\ job[t].name \in Names
    BY <1>0, <1>2, EditedType DEF Write, JobOK, Jobs
  <2>2. PICK e0 \in Entries : e0 = Entry(job[t].id, job[t].name) /\ e0.id = job[t].id /\ e0.name = job[t].name
    BY <2>1, EntryFields
  <2>3. /\ job[t].do = "append" => index' = copy[t] \cup {e0} /\ Appending(t, e0)
        /\ job[t].do = "delete" => index' = {e \in copy[t] : e.id # e0.id} /\ Deleting(t)
    BY <1>0, <2>1, <2>2 DEF Edited, Appending, Deleting
  <2>4. job'[t].do \notin {"append", "delete"} /\ pc'[t] \notin Busy
    BY <1>0, NoJobFields DEF Ended, MarkRan, Edit, Work, Busy
  <2>5. \A u \in Tasks \ {t} : pc'[u] = pc[u] /\ job'[u] = job[u] /\ copy'[u] = copy[u]
    BY <1>0, OtherTasks
  <2>6. \A e \in copy[t] : ListedIn(e)
    BY <1>0, <1>2 DEF ListedIn, Holding, Busy
  <2>7. \A e \in Entries : ListedIn(e)' => ListedIn(e) \/ (job[t].do = "append" /\ e = e0)
    BY <2>1, <2>3, <2>4, <2>5, <2>6 DEF ListedIn, Holding
  <2>8. \A u \in Tasks, e \in Entries : Appending(u, e)' <=> u # t /\ Appending(u, e)
    BY <2>4, <2>5 DEF Appending
  <2>9. \A u \in Tasks : Deleting(u)' <=> u # t /\ Deleting(u)
    BY <2>4, <2>5 DEF Deleting
  <2>10. \A e \in Entries : Stored(e)' <=> Stored(e)
    BY <1>0 DEF Stored
  <2>11. \A e \in Entries : Claim(e)' => Claim(e)
    BY <2>3, <2>7, <2>8, <2>10 DEF Claim
  <2>12. ClaimInv'
    BY <1>0, <2>11 DEF ArchInv, ClaimInv
  <2>13. AppendInv'
    <3>1. \A u, v \in Tasks : job'[u].do = "append" /\ job'[v].do = "append" /\ job'[u].id = job'[v].id => u = v
      BY <2>4, <2>5 DEF ArchInv, AppendInv
    <3>2. ASSUME NEW u \in Tasks, NEW e \in Entries, u # t, Appending(u, e)
          PROVE  ~ListedIn(e)'
      <4>1. job[t].do = "append" => e # e0
        BY <2>3, <3>2 DEF ArchInv, AppendInv, Appending
      <4> QED BY <2>7, <3>2, <4>1 DEF ArchInv, AppendInv
    <3> QED BY <1>0, <2>5, <2>8, <2>10, <3>1, <3>2 DEF ArchInv, AppendInv
  <2>14. ArchiveInv'
    <3>1. ASSUME NEW e \in Entries, ListedIn(e)', starts'[e.name] = 1
          PROVE  Stored(e)' \/ (e.id \in gone' /\ archive'[e.name] = None)
      <4>1. CASE ListedIn(e)
        BY <1>0, <2>10, <3>1, <4>1 DEF ArchInv, ArchiveInv
      <4>2. CASE job[t].do = "append" /\ e = e0
        BY <1>0, <2>3, <2>10, <3>1, <4>2 DEF ArchInv, AppendInv
      <4> QED BY <2>7, <3>1, <4>1, <4>2
    <3>2. \A e \in Entries : Stored(e)' => e.id \notin gone'
      BY <1>0, <2>10 DEF ArchInv, ArchiveInv
    <3>3. \A u \in Tasks : Deleting(u)' => job'[u].id \in gone'
      BY <1>0, <2>5, <2>9 DEF ArchInv, ArchiveInv, Deleting
    <3>4. ASSUME "index" \notin troubles'
          PROVE  copy[t] = index
      <4>1. FileInv("index") /\ Editing(t, "index")
        BY <1>0, <1>2 DEF EditInv, Files, Editing
      <4> QED BY <1>0, <3>4, <4>1 DEF FileInv, Content
    <3>5. ASSUME "index" \notin troubles', NEW e \in index', e.id \in gone'
          PROVE  \E u \in Tasks : Deleting(u)' /\ job'[u].id = e.id
      <4>1. e \in index
        <5>1. CASE job[t].do = "append"
          <6>1. e0.id \notin gone
            BY <2>3, <5>1 DEF ArchInv, AppendInv
          <6> QED BY <1>0, <2>3, <3>4, <3>5, <5>1, <6>1
        <5>2. CASE job[t].do = "delete"
          BY <2>3, <3>4, <3>5, <5>2
        <5> QED BY <2>1, <5>1, <5>2
      <4>2. PICK u \in Tasks : Deleting(u) /\ job[u].id = e.id
        BY <1>0, <3>5, <4>1 DEF ArchInv, ArchiveInv, Deleting
      <4>3. u # t
        BY <2>2, <2>3, <3>5, <4>2 DEF Deleting
      <4> QED BY <2>5, <2>9, <4>2, <4>3
    <3>6. ASSUME "index" \notin troubles', NEW e \in Entries, Stored(e)'
          PROVE  e \in index' \/ \E u \in Tasks : Appending(u, e)'
      <4>1. e \in index \/ \E u \in Tasks : Appending(u, e)
        BY <1>0, <2>10, <3>6 DEF ArchInv, ArchiveInv
      <4>2. CASE e \in index
        <5>1. job[t].do = "delete" => e.id # e0.id
          BY <2>2, <2>3, <2>10, <3>6 DEF ArchInv, ArchiveInv, Deleting
        <5> QED BY <2>1, <2>3, <3>4, <3>6, <4>2, <5>1
      <4>3. ASSUME NEW u \in Tasks, Appending(u, e)
            PROVE  e \in index' \/ \E v \in Tasks : Appending(v, e)'
        <5>1. CASE u = t
          BY <2>1, <2>2, <2>3, <4>3, <5>1 DEF Appending, Entries
        <5>2. CASE u # t
          BY <2>8, <4>3, <5>2
        <5> QED BY <5>1, <5>2
      <4> QED BY <4>1, <4>2, <4>3
    <3> QED BY <3>1, <3>2, <3>3, <3>5, <3>6 DEF ArchiveInv, Deleting
  <2> QED BY <2>12, <2>13, <2>14 DEF ArchInv
<1> QED BY <1>0, <1>1, <1>2 DEF Jobs, Files

\* Steps that keep every job and copy.
LEMMA SameTasksArchive ==
    ASSUME Shape, ArchInv, job' = job, index' = index,
           UNCHANGED <<archive, starts, gone, used>>, troubles \subseteq troubles',
           \A u \in Tasks : pc'[u] = "dumping" <=> pc[u] = "dumping",
           \A u \in Tasks : Deleting(u)' <=> Deleting(u),
           \A e \in Entries : ListedIn(e)' => ListedIn(e)
    PROVE  ArchInv'
<1>1. \A u \in Tasks, e \in Entries : Appending(u, e) => Appending(u, e)'
  BY DEF Appending
<1> QED BY <1>1, ArchiveKept

LEMMA LoadArchive ==
    ASSUME Shape, EditInv, ArchInv, NEW t \in Tasks, Load(t)
    PROVE  ArchInv'
<1>0. /\ Arrives(t) /\ pc[t] = "load" /\ job[t] \in Jobs /\ JobOK(t, job[t], "load")
      /\ UNCHANGED <<archive, starts, gone, index, used, fstate>> /\ troubles \subseteq troubles'
      /\ Loads(t) \/ Turned(t)
  BY LoadShape DEF Load, disk, Shape, TaskInv
<1>1. CASE Turned(t)
  <2>1. ASSUME job[t].do = "append", "index" \notin troubles'
        PROVE  FALSE
    <3>1. job[t].file = "index"
      BY <1>0, <2>1 DEF JobOK
    <3>2. fstate["index"] = "torn"
      BY <1>1, <2>1, <3>1 DEF Turned, Known
    <3>3. \A u \in Tasks : ~Editing(u, "index")
      BY <1>0, <2>1, <3>1 DEF Load, Editing
    <3>4. FileInv("index")
      BY DEF EditInv, Files
    <3> QED BY <1>0, <2>1, <3>2, <3>3, <3>4 DEF FileInv, Editing
  <2>2. ~Deleting(t)
    BY <1>0 DEF Deleting
  <2> QED BY <1>0, <1>1, <2>1, <2>2, EndedArchive DEF Turned
<1>2. CASE Loads(t)
  <2>1. job' = job /\ pc'[t] \in {"unlink", "restore", "save"}
    BY <1>0, <1>2, SameJob DEF Loads
  <2>2. \A e \in Entries : ListedIn(e)' => ListedIn(e)
    <3>1. job[t].file = "index" => copy'[t] \subseteq index
      BY <1>2 DEF Loads, Found, Content, EmptyContent
    <3> QED BY <1>0, <2>1, <3>1, ListedKept DEF ListedIn
  <2>3. job[t].do = "delete" => pc'[t] = "unlink"
    BY <1>2 DEF Loads
  <2>4. \A u \in Tasks : /\ pc'[u] = "dumping" <=> pc[u] = "dumping"
                         /\ Deleting(u)' <=> Deleting(u)
    BY <1>0, <2>1, <2>3, OtherTasks DEF Deleting
  <2> QED BY <1>0, <2>1, <2>2, <2>4, SameTasksArchive
<1> QED BY <1>0, <1>1, <1>2

\* A task that had no job starts one that is not a dump, or none.
LEMMA FreshArchive ==
    ASSUME Shape, ArchInv, NEW t \in Tasks, Arrives(t), pc[t] \in {"idle", "pass"},
           job'[t].do # "append", pc'[t] \in {"pass", "load"},
           UNCHANGED <<archive, starts, gone, index>>, used \subseteq used', troubles \subseteq troubles'
    PROVE  ArchInv'
<1>1. job[t].do = "none"
  BY NoJobFields DEF Shape, TaskInv, JobOK
<1>2. \A e \in Entries : ListedIn(e)' => ListedIn(e)
  BY ListedKept DEF Holding, Busy
<1>3. \A u \in Tasks : job'[u].do = "append" =>
        job[u] = job'[u] /\ (pc'[u] = "dumping" <=> pc[u] = "dumping")
  BY OtherTasks
<1>4. \A u \in Tasks : Deleting(u)' <=> Deleting(u)
  BY <1>1, OtherTasks DEF Deleting
<1>5. \A u \in Tasks : Deleting(u) => job'[u].id = job[u].id
  BY <1>1, OtherTasks DEF Deleting
<1>6. \A u \in Tasks, e \in Entries : Appending(u, e) => Appending(u, e)'
  BY <1>1, OtherTasks DEF Appending
<1> QED BY <1>2, <1>3, <1>4, <1>5, <1>6, ArchiveKept

LEMMA ArchStep == Shape /\ EditInv /\ ArchInv /\ [Next]_vars => ArchInv'
<1> SUFFICES ASSUME Shape, EditInv, ArchInv, [Next]_vars PROVE ArchInv'
  OBVIOUS
<1> USE Constants
<1>1. ASSUME UNCHANGED <<disk, tasks, history>> PROVE ArchInv'
  <2>1. (\A u \in Tasks : Deleting(u)' <=> Deleting(u)) /\ \A e \in Entries : ListedIn(e)' => ListedIn(e)
    BY <1>1 DEF disk, tasks, Deleting, ListedIn, Holding
  <2> QED BY <1>1, <2>1, SameTasksArchive DEF disk, tasks, history
<1>2. CASE RunDue
  <2>1. job'[Daemon].do # "append"
    BY <1>2, RunDueShape, NoJobFields
  <2> QED BY <1>2, <2>1, RunDueShape, FreshArchive DEF RunDue, disk, history
<1>3. CASE Fire
  <2>1. PICK s \in due : /\ Arrives(Daemon) /\ pc[Daemon] = "pass"
                         /\ DumpStarts(Daemon, s) \/ Snaps(s)
                         /\ Snaps(s) => job'[Daemon] = MarkRan(s) /\ pc'[Daemon] = "load"
    BY <1>3, FireShape
  <2>2. s \in Schedules
    BY DEF Shape, DataInv
  <2>3. CASE DumpStarts(Daemon, s)
    BY <2>1, <2>2, <2>3, DumpStartsArchive
  <2>4. CASE Snaps(s)
    <3>1. job'[Daemon].do # "append"
      BY <2>1, <2>4 DEF MarkRan, Edit, Work
    <3> QED BY <2>1, <2>4, <3>1, FreshArchive DEF Snaps, disk
  <2> QED BY <2>1, <2>3, <2>4
<1>4. ASSUME NEW t \in Users, Edits(t) PROVE ArchInv'
  <2>1. /\ Arrives(t) /\ pc[t] = "idle" /\ pc'[t] = "load" /\ job'[t].do # "append" /\ used \subseteq used'
        /\ UNCHANGED <<disk, starts, gone, troubles>>
    BY <1>4, EditsShape
  <2> QED BY <2>1, FreshArchive DEF disk
<1>5. ASSUME NEW t \in Users, Backup(t) PROVE ArchInv'
  <2>1. DumpStarts(t, None) /\ pc[t] = "idle" /\ t # Daemon /\ t \in Tasks
    BY <1>5 DEF Backup
  <2> QED BY <2>1, DumpStartsArchive
<1>6. ASSUME NEW t \in Tasks, Truncate(t) PROVE ArchInv'
  <2>1. /\ Arrives(t) /\ pc[t] = "save" /\ pc'[t] = "write" /\ job' = job /\ copy' = copy
        /\ UNCHANGED <<index, archive, starts, gone, used, troubles>>
    BY <1>6, TruncateShape DEF Truncate, history
  <2>2. \A u \in Tasks : /\ pc'[u] = "dumping" <=> pc[u] = "dumping"
                         /\ Deleting(u)' <=> Deleting(u)
                         /\ Holding(u)' <=> Holding(u)
    BY <2>1, OtherTasks DEF Deleting, Holding, Busy
  <2>3. \A e \in Entries : ListedIn(e)' => ListedIn(e)
    BY <2>1, <2>2 DEF ListedIn
  <2> QED BY <2>1, <2>2, <2>3, SameTasksArchive
<1>7. ASSUME NEW t \in Tasks, Restore(t) PROVE ArchInv'
  <2>1. Arrives(t) /\ Ended(t) /\ job[t].do = "restore"
    BY <1>7, LeavesShape DEF Leaves
  <2> QED BY <1>7, <2>1, EndedArchive DEF Restore, disk, history, Deleting
<1>8. ASSUME NEW t \in Tasks, WriteFails(t) PROVE ArchInv'
  <2>1. Arrives(t) /\ Ended(t) /\ JobOK(t, job[t], pc[t])
    BY <1>8, LeavesShape DEF Leaves, Shape, TaskInv
  <2>2. job[t].do \in {"append", "delete"} => "index" \in troubles'
    BY <1>8, <2>1 DEF WriteFails, JobOK
  <2> QED BY <1>8, <2>1, <2>2, EndedArchive DEF WriteFails, disk, Deleting
<1>9. ASSUME NEW t \in Tasks, Crash(t) PROVE ArchInv'
  <2>1. Arrives(t) /\ job'[t] = NoJob /\ pc'[t] = "idle" /\ JobOK(t, job[t], pc[t])
    BY <1>9, CrashShape DEF Shape, TaskInv
  <2>2. job[t].do \in {"append", "delete"} => "index" \in troubles'
    BY <1>9, <2>1 DEF Crash, JobOK
  <2> QED BY <1>9, <2>1, <2>2, EndedArchive DEF Crash, disk, Deleting
<1>10. CASE Tick
  BY <1>1, <1>10 DEF Tick
<1>11. CASE UNCHANGED vars
  BY <1>1, <1>11 DEF vars
<1> QED BY <1>2, <1>3, <1>4, <1>5, <1>6, <1>7, <1>8, <1>9, <1>10, <1>11, DumpEndsArchive,
           UnlinkArchive, WriteArchive, LoadArchive, NextCases DEF Leaves

LEMMA InitArchives == Init => ArchInv
<1> SUFFICES ASSUME Init PROVE ArchInv
  OBVIOUS
<1>1. \A t \in Tasks : job[t].do = "none" /\ pc[t] = "idle"
  BY NoJobFields DEF Init
<1>2. \A e \in Entries : ~ListedIn(e) /\ ~Stored(e) /\ \A t \in Tasks : ~Appending(t, e)
  BY <1>1, Constants DEF Init, ListedIn, Stored, Appending, Holding, Busy, Entries
<1> QED BY <1>1, <1>2 DEF Init, ArchInv, ClaimInv, AppendInv, ArchiveInv, Claim

\* What a task has loaded has an entry under the id it looks for.
LEMMA ArchivesFollow == Shape /\ ArchInv => ArchivesAreKept
<1> SUFFICES ASSUME Shape, ArchInv PROVE ArchivesAreKept
  OBVIOUS
<1>1. \A e \in Entries : starts[e.name] \in Nat /\ (Claim(e) => starts[e.name] > 0)
  BY DEF Shape, DataInv, ArchInv, ClaimInv, Entries
<1>2. \A e \in Entries : Claim(e) => starts[e.name] = 1 \/ Shared(e.name)
  BY <1>1 DEF Shared
<1>3. \A e \in index : e \in Entries /\ ListedIn(e) /\ Claim(e)
  BY DEF Shape, DataInv, ListedIn, Claim
<1>4. EntryHasArchive
  BY <1>2, <1>3 DEF ArchInv, ArchiveInv, EntryHasArchive, Stored
<1>5. ASSUME NEW n \in Names, archive[n] \in BackupIds, "index" \notin troubles
      PROVE  \/ Entry(archive[n], n) \in index
             \/ \E t \in Tasks : job[t].do = "append" /\ job[t].id = archive[n]
  <2>1. /\ Entry(archive[n], n) \in Entries /\ Stored(Entry(archive[n], n))
        /\ Entry(archive[n], n).id = archive[n]
    BY <1>5, EntryFields DEF Stored
  <2> QED BY <1>5, <2>1 DEF ArchInv, ArchiveInv, Appending
<1>6. ASSUME NEW t \in Tasks, pc[t] = "restore"
      PROVE  archive[NameOf(t)] \in {job[t].id, None} \/ Shared(NameOf(t))
  <2>1. job[t].file = "index" /\ copy[t] \subseteq Entries /\ \E e \in copy[t] : e.id = job[t].id
    BY <1>6 DEF Shape, TaskInv, JobOK, CopyOK, Busy
  <2>2. PICK e \in copy[t] : e.id = job[t].id /\ e.name = NameOf(t)
    BY <2>1 DEF NameOf
  <2>3. e \in Entries /\ ListedIn(e) /\ Claim(e)
    BY <1>6, <2>1 DEF ListedIn, Claim, Holding, Busy
  <2> QED BY <1>2, <2>2, <2>3 DEF ArchInv, ArchiveInv, Stored
<1> QED BY <1>4, <1>5, <1>6, Constants DEF ArchivesAreKept, ArchiveIsIndexed, RestoreReadsOwn

\* An entry of the index has its own archive, a complete archive is in the index,
\* and a restore reads what its entry names (backups.go:60-164, delete.go:33-44),
\* unless two backups began in one second, a task is at work on the entry, or
\* edits of the index overlapped or were cut short.
THEOREM ArchivesAreKeptAlways == Spec => []ArchivesAreKept
<1> DEFINE I == AutoInv /\ ArchInv
<1>1. Init => I
  BY InitShape, InitSchedules, InitArchives DEF AutoInv
<1>2. I /\ [Next]_vars => I'
  BY ShapeStep, EditStep, SchedStep, ArchStep DEF AutoInv
<1>3. I => ArchivesAreKept
  BY ArchivesFollow DEF AutoInv
<1> HIDE DEF I
<1> QED BY <1>1, <1>2, <1>3, PTL DEF Spec
=============================================================================
