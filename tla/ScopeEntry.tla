----------------------------- MODULE ScopeEntry -----------------------------
\* Entering a scope, as Create, Tag, GC and restore do: first the directory and
\* its backend (ScopeDirectory), then the scope's lock (ScopeLock). The lock file
\* lies in the directory that the first part has found, and nothing moves that
\* directory any more, so that a behaviour is about one part or the other.
EXTENDS ScopeLock

CONSTANTS Users, Scopes, MaxDead,  \* of ScopeDirectory
          Contender                \* any process: the one whose attempts are followed

ASSUME DirectoryAssumption ==
    IsFiniteSet(Scopes) /\ "legacy" \notin Scopes /\ "old" \notin Users

ASSUME ContenderAssumption == Contender \in Procs

VARIABLES exists, saved, marker, recorded, user, found, overlaps,
          part    \* the part this behaviour is about

Dirs == INSTANCE ScopeDirectory

directoryVars == <<exists, saved, marker, recorded, user, found, overlaps>>
entryVars == <<vars, directoryVars, part>>

\* The directory of a behaviour that is about the lock: it does not matter which.
AnyScope == CHOOSE s \in Scopes : TRUE

EntryInit ==
    /\ part \in {"directory", "lock"}
    /\ Init /\ Dirs!Init
    /\ part = "lock" => exists = {} /\ \A u \in Users : user[u].goal = "read" /\ user[u].scope = AnyScope

EntryNext ==
    /\ \/ part = "directory" /\ Dirs!Next /\ UNCHANGED vars
       \/ part = "lock" /\ Next /\ UNCHANGED directoryVars
    /\ UNCHANGED part

EntrySpec == EntryInit /\ [][EntryNext]_entryVars /\ LockFairness(Contender) /\ RemovalWorks(Contender)

-----------------------------------------------------------------------------
\* ScopeDirectory: an old history is taken over once, and later operations open
\* the backend that earlier ones have saved in.
DirectoryIsSound == Dirs!DirectoryIsSound

\* ScopeLock: a dead holder's lock is taken over by the first attempt that finds it
\* abandoned, and no attempt goes on for ever.
LockIsAvailable == AbandonedReclaimed(Contender) /\ AttemptEnds(Contender)
=============================================================================
