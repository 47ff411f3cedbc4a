------------------------------ MODULE ScopeLock ------------------------------
(***************************************************************************)
(* The scope lock of internal/snapshot/scopelock.go, one file operation    *)
(* per step: withScopeLock creates <scope>/.index.lock exclusively, writes *)
(* its PID into it, runs the critical section and removes the file by      *)
(* path; a process that finds the file stats it, reads the PID, asks the   *)
(* kernel whether that PID lives and removes the file when it looks        *)
(* abandoned.  The file is named by its path only, so a removal hits       *)
(* whatever file is there at that moment; and no removal's error is read.  *)
(***************************************************************************)
EXTENDS Naturals, FiniteSets

CONSTANTS Procs,       \* the processes that contend for one scope's lock
          None,        \* no process
          MaxDeaths    \* bound: how many processes may exit or crash

ASSUME LockAssumption == /\ None \notin Procs
                         /\ MaxDeaths \in Nat

VARIABLES file,        \* creator of the lock file at the path, None if absent
          pidWritten,  \* the file holds its creator's PID
          aged,        \* the file is older than scopeLockStaleAge
          left,        \* its creator has released the lock and could not remove it
          alive,       \* processes that have not exited
          pc,          \* where each process is in withScopeLock
          sawAged,     \* Stat's modification time was past the threshold
          pidRead,     \* the PID readLockPID returned, None when it failed
          seen,        \* which of the two looked at the file that is there now
          mishaps      \* history: a removal that hit another file than the one
                       \* looked at, a holder slower than scopeLockStaleAge

fileVars == <<file, pidWritten, aged, left>>
lookVars == <<sawAged, pidRead, seen>>
vars == <<fileVars, lookVars, alive, pc, mishaps>>

Labels == {"idle", "open", "write", "critical", "stat", "readPid", "checkAlive",
           "remove", "wait", "refused", "dead"}

TypeOK == /\ file \in Procs \cup {None}
          /\ {pidWritten, aged, left} \subseteq BOOLEAN
          /\ alive \subseteq Procs
          /\ pc \in [Procs -> Labels]
          /\ sawAged \in [Procs -> BOOLEAN]
          /\ pidRead \in [Procs -> Procs \cup {None}]
          /\ seen \in [Procs -> SUBSET {"stat", "pid"}]
          /\ mishaps \subseteq {"overtaken", "slow"}
          /\ pidWritten \/ aged \/ left => file # None

Init == /\ file = None
        /\ pidWritten = FALSE /\ aged = FALSE /\ left = FALSE
        /\ alive = Procs
        /\ pc = [p \in Procs |-> "idle"]
        /\ sawAged = [p \in Procs |-> FALSE]
        /\ pidRead = [p \in Procs |-> None]
        /\ seen = [p \in Procs |-> {}]
        /\ mishaps = {}

Goto(p, from, to) == /\ pc[p] = from
                     /\ pc' = [pc EXCEPT ![p] = to]

InCritical(p) == pc[p] \in {"write", "critical"}

\* Who has looked at the file has looked at one that is no more.
RemoveFile == /\ file' = None
              /\ pidWritten' = FALSE /\ aged' = FALSE /\ left' = FALSE
              /\ seen' = [p \in Procs |-> {}]

-----------------------------------------------------------------------------
(* withScopeLock *)

\* An operation enters withScopeLock: its deadline starts.
Begin(p) == /\ Goto(p, pc[p], "open")
            /\ pc[p] \in {"idle", "refused"}
            /\ UNCHANGED <<fileVars, lookVars, alive, mishaps>>

\* Mutant of CreateFile: O_EXCL is missing.
CreateFile_NoExcl(p) == /\ Goto(p, "open", "write")
                        /\ file' = p
                        /\ pidWritten' = FALSE /\ aged' = FALSE
                        /\ UNCHANGED <<left, lookVars, alive, mishaps>>

\* OpenFile(O_CREATE|O_EXCL) succeeds: the file exists, still empty.
CreateFile(p) == /\ Goto(p, "open", "write")
                 /\ file = None
                 /\ file' = p
                 /\ UNCHANGED <<pidWritten, aged, left, lookVars, alive, mishaps>>

\* OpenFile fails with ErrExist: is the file abandoned?
FileExists(p) == /\ Goto(p, "open", "stat")
                 /\ file # None
                 /\ UNCHANGED <<fileVars, lookVars, alive, mishaps>>

\* OpenFile fails in any other way: the operation returns that error.
OpenFails(p) == /\ Goto(p, "open", "refused")
                /\ UNCHANGED <<fileVars, lookVars, alive, mishaps>>

\* Fprintf writes to the file this process created, wherever its name went.
WritePid(p) == /\ Goto(p, "write", "critical")
               /\ pidWritten' = (pidWritten \/ file = p)
               /\ UNCHANGED <<file, aged, left, lookVars, alive, mishaps>>

\* fn returned: the deferred os.Remove(path), whoever's file that is.
ReleaseLock(p) == /\ Goto(p, "critical", "idle")
                  /\ RemoveFile
                  /\ UNCHANGED <<sawAged, pidRead, alive, mishaps>>

\* That os.Remove fails, and nobody hears of it.
ReleaseFails(p) == /\ Goto(p, "critical", "idle")
                   /\ left' = (left \/ file = p)
                   /\ UNCHANGED <<file, pidWritten, aged, lookVars, alive, mishaps>>

\* Not reclaimable and the deadline has passed: the operation fails.
GiveUp(p) == /\ Goto(p, "wait", "idle")
             /\ UNCHANGED <<fileVars, lookVars, alive, mishaps>>

\* Not reclaimable: sleep 20ms and try again.
Retry(p) == /\ Goto(p, "wait", "open")
            /\ UNCHANGED <<fileVars, lookVars, alive, mishaps>>

-----------------------------------------------------------------------------
(* reclaimIfStale *)

\* What a call of it has learnt ends with the call.
Forget(p) == /\ sawAged' = [sawAged EXCEPT ![p] = FALSE]
             /\ pidRead' = [pidRead EXCEPT ![p] = None]

\* os.Stat: the file is already gone, or its modification time is noted.
StatFile(p) == /\ Goto(p, "stat", IF file = None THEN "wait" ELSE "readPid")
               /\ sawAged' = [sawAged EXCEPT ![p] = aged]
               /\ seen' = [seen EXCEPT ![p] = IF file = None THEN {} ELSE {"stat"}]
               /\ UNCHANGED <<fileVars, pidRead, alive, mishaps>>

\* readLockPID: fails on a missing file and on one whose PID is not yet there.
ReadPid(p) == /\ Goto(p, "readPid", "checkAlive")
              /\ pidRead' = [pidRead EXCEPT ![p] = IF pidWritten THEN file ELSE None]
              /\ seen' = [seen EXCEPT ![p] = IF file = None THEN {} ELSE @ \cup {"pid"}]
              /\ UNCHANGED <<fileVars, sawAged, alive, mishaps>>

\* Mutant of HolderLooksDead: a lock file without a PID counts as abandoned.
HolderLooksDead_EmptyIsDead(p) == pidRead[p] \notin alive

\* processAlive asks the kernel about the PID read a moment ago.
HolderLooksDead(p) == pidRead[p] \in Procs \ alive

\* Mutant of CheckAlive: only the age of the file counts.
CheckAlive_AgeOnly(p) ==
    /\ IF sawAged[p]
       THEN Goto(p, "checkAlive", "remove") /\ UNCHANGED lookVars
       ELSE /\ Goto(p, "checkAlive", "wait") /\ Forget(p)
            /\ seen' = [seen EXCEPT ![p] = {}]
    /\ UNCHANGED <<fileVars, alive, mishaps>>

CheckAlive(p) ==
    /\ IF HolderLooksDead(p) \/ sawAged[p]
       THEN Goto(p, "checkAlive", "remove") /\ UNCHANGED lookVars
       ELSE /\ Goto(p, "checkAlive", "wait") /\ Forget(p)
            /\ seen' = [seen EXCEPT ![p] = {}]
    /\ UNCHANGED <<fileVars, alive, mishaps>>

\* None of the grounds for the removal was seen on the file that is now at the path.
Overtaken(p) == /\ file # None
                /\ ~(sawAged[p] /\ "stat" \in seen[p])
                /\ ~(HolderLooksDead(p) /\ "pid" \in seen[p])

\* os.Remove(path); then the acquiring loop tries again at once.
RemoveStale(p) == /\ Goto(p, "remove", "open")
                  /\ Forget(p)
                  /\ RemoveFile
                  /\ mishaps' = IF Overtaken(p) THEN mishaps \cup {"overtaken"} ELSE mishaps
                  /\ UNCHANGED alive

\* That os.Remove fails: its error is dropped, and the loop tries again at once all the
\* same, without a look at its deadline.
RemoveFails(p) == /\ Goto(p, "remove", "open")
                  /\ file # None
                  /\ Forget(p)
                  /\ seen' = [seen EXCEPT ![p] = {}]
                  /\ UNCHANGED <<fileVars, alive, mishaps>>

-----------------------------------------------------------------------------
(* The environment *)

\* A process finishes normally or crashes, anywhere.
Die(p) == /\ p \in alive
          /\ Cardinality(Procs \ alive) < MaxDeaths
          /\ alive' = alive \ {p}
          /\ pc' = [pc EXCEPT ![p] = "dead"]
          /\ Forget(p) /\ seen' = [seen EXCEPT ![p] = {}]
          /\ UNCHANGED <<fileVars, mishaps>>

\* Two minutes pass since the lock file was created.
Age == /\ file # None
       /\ ~aged
       /\ aged' = TRUE
       /\ mishaps' = IF InCritical(file) THEN mishaps \cup {"slow"} ELSE mishaps
       /\ UNCHANGED <<file, pidWritten, left, lookVars, alive, pc>>

Acquiring(p) == \/ CreateFile(p) \/ FileExists(p) \/ OpenFails(p) \/ WritePid(p)
                \/ StatFile(p) \/ ReadPid(p) \/ CheckAlive(p)
                \/ RemoveStale(p) \/ RemoveFails(p) \/ GiveUp(p) \/ Retry(p)

Next == \/ \E p \in Procs : Begin(p) \/ Acquiring(p) \/ ReleaseLock(p) \/ ReleaseFails(p) \/ Die(p)
        \/ Age

Spec == Init /\ [][Next]_vars

\* A live process that is acquiring the lock keeps being scheduled; when it comes to the
\* deadline check again and again it is past the deadline in the end, and when it tries
\* to create the file again and again it is the first one in the end.
LockFairness(p) == WF_vars(Acquiring(p)) /\ SF_vars(GiveUp(p)) /\ SF_vars(CreateFile(p))

\* Moreover nothing stands in the way of its removals for ever.
RemovalWorks(p) == SF_vars(RemoveStale(p))

-----------------------------------------------------------------------------
MutualExclusion ==
    \A p, q \in Procs : InCritical(p) /\ InCritical(q) => p = q

\* A live process in its critical section still owns the file at the path: its lock
\* was not taken away under it ("a live PID and an age still under the threshold is
\* left alone").
HolderKeepsFile == \A p \in Procs : InCritical(p) => file = p

\* The comment on withScopeLock: the lock is exclusive, so no two processes run their
\* read-index -> mutate -> write-index section at once. For any interleaving, crash and
\* failing removal this is lost by one of the two mishaps only.
ExclusiveUntilMishap == mishaps = {} => MutualExclusion /\ HolderKeepsFile

\* The comment on reclaimIfStale: two independent signals tell an abandoned lock "rather
\* than one genuinely still held", and no live holder loses its lock but by its own
\* slowness. Three processes, one of them dead, refute it.
TakeoverIsExclusive == "slow" \notin mishaps => MutualExclusion

\* reclaimIfStale is "never unboundedly stuck": a process that tries for the lock of a
\* dead holder, when the PID is on file or two minutes have passed, sees that file go
\* away in this very attempt, unless the file cannot be opened; it never times out on it.
AbandonedReclaimed(p) ==
    (pc[p] = "open" /\ file \notin alive \cup {None} /\ (pidWritten \/ aged))
        ~> (file \in alive \cup {None} \/ pc[p] \in {"refused", "dead"})

\* "scopeLockTimeout bounds how long acquiring a scope's cross-process lock waits":
\* an attempt ends, with the lock or with an error.
AttemptEnds(p) == pc[p] = "open" ~> pc[p] \in {"critical", "idle", "refused", "dead"}

\* The file protocol implements the abstract lock until a mishap: each file operation
\* is an acquire, a release by the holder, the reclaiming of a dead holder's lock, or
\* invisible.  Whoever is in its critical section holds the lock, whatever has become
\* of its file; a file that a release left behind belongs to nobody.
Critical == {p \in Procs : InCritical(p)}
LockHolder == IF Critical = {} THEN IF left THEN None ELSE file
              ELSE IF \E p \in Procs : Critical = {p}
                   THEN CHOOSE p \in Procs : Critical = {p}
                   ELSE Critical

Mutex == INSTANCE ScopeMutex WITH holder <- LockHolder
ImplementsMutex == Mutex!MutexInit /\ [][mishaps' = {} => Mutex!MutexNext]_(Mutex!mutexVars)
=============================================================================
