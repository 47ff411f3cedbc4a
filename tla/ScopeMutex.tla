----------------------------- MODULE ScopeMutex -----------------------------
(***************************************************************************)
(* What withScopeLock (internal/snapshot/scopelock.go) promises its        *)
(* callers: at most one live process holds a scope's lock, only the        *)
(* holder gives it up, and a lock whose holder has died can be taken away  *)
(* from the dead.  ScopeLock implements this specification file operation  *)
(* by file operation; SnapshotScope uses its actions.                      *)
(***************************************************************************)
CONSTANTS Procs,    \* the processes that work on one scope
          None      \* nobody

VARIABLES holder,   \* who the lock file belongs to, None when there is no file
          alive     \* the processes that have not exited

mutexVars == <<holder, alive>>

MutexTypeOK == /\ holder \in Procs \cup {None}
               /\ alive \subseteq Procs

MutexInit == /\ holder = None
             /\ alive = Procs

\* The O_CREATE|O_EXCL open succeeds.
Acquire(p) == /\ p \in alive
              /\ holder = None
              /\ holder' = p
              /\ UNCHANGED alive

\* The deferred os.Remove of the holder.
Release(p) == /\ p \in alive
              /\ holder = p
              /\ holder' = None
              /\ UNCHANGED alive

\* Another process removes the file of a dead one.
Reclaim(p) == /\ p \in alive
              /\ holder \in Procs \ alive
              /\ holder' = None
              /\ UNCHANGED alive

\* A process exits, is killed or crashes: a file it left stays on disk.
Die(p) == /\ p \in alive
          /\ alive' = alive \ {p}
          /\ UNCHANGED holder

MutexNext == \E p \in Procs : Acquire(p) \/ Release(p) \/ Reclaim(p) \/ Die(p)

MutexSpec == MutexInit /\ [][MutexNext]_mutexVars
=============================================================================
