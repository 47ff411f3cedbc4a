--------------------------- MODULE ScopeDirectory ---------------------------
\* What every operation on a scope does first, before there is a lock: it finds
\* or makes the directory (scopeDir), taking over the one an older version made,
\* and finds or chooses the backend (OpenBackend, OpenBackendForRemote). Create,
\* restore, GC and diff ask for no kind and get bolt in a new scope; "remote-init"
\* needs fs.
EXTENDS Naturals, FiniteSets

CONSTANTS Users,   \* operations, each in a process of its own
          Scopes,  \* pairs of connection and database with one sanitized name
          MaxDead  \* processes that may die

Places == Scopes \cup {"legacy"}

VARIABLES
    exists,   \* the directories there are
    saved,    \* the snapshots in each directory: who made it, in which backend
    marker,   \* backend.json of each directory
    recorded, \* identity.json of each directory
    user,     \* the operations
    found,    \* history: the directories there were at the start
    overlaps  \* history: scopes whose backend a "remote-init" and another first
              \* user chose at the same time

disk == <<exists, saved, marker, recorded>>
vars == <<disk, user, found, overlaps>>

Goals == {"read", "create", "remote"}
Ended == {"done", "failed", "dead"}
Old   == <<"old", "bolt">>

\* An older version has left its directory, a newer one perhaps its own, or there
\* is nothing yet.
Init ==
    /\ exists \in SUBSET Places
    /\ found = exists
    /\ saved = [d \in Places |-> IF d \in exists THEN {Old} ELSE {}]
    /\ marker = [d \in Places |-> IF d \in exists THEN "bolt" ELSE "absent"]
    /\ recorded = [d \in Places |-> IF d \in exists \cap Scopes THEN d ELSE "absent"]
    /\ user \in [Users -> [at : {"stat-dir"}, scope : Scopes, goal : Goals, kind : {"bolt"}]]
    /\ overlaps = {}

-----------------------------------------------------------------------------
Dir(u) == user[u].scope

At(u, s) == user[u].at = s

Goto(u, s) == user' = [user EXCEPT ![u].at = s]

\* Any of these calls may return an error, which leaves a file it had opened empty.
Fails(u) ==
    /\ user[u].at \notin Ended
    /\ Goto(u, "failed")
    /\ UNCHANGED disk

Die(u) ==
    /\ user[u].at \notin Ended
    /\ Cardinality({v \in Users : At(v, "dead")}) < MaxDead
    /\ Goto(u, "dead")
    /\ UNCHANGED disk

-----------------------------------------------------------------------------
\* scopeDir.

\* Mutant of StatDir: a directory that is missing is made at once.
StatDir_ForgetsLegacy(u) ==
    /\ At(u, "stat-dir") /\ Goto(u, "mkdir")
    /\ UNCHANGED disk

StatDir(u) ==
    /\ At(u, "stat-dir")
    /\ Goto(u, IF Dir(u) \in exists THEN "mkdir" ELSE "stat-legacy")
    /\ UNCHANGED disk

StatLegacy(u) ==
    /\ At(u, "stat-legacy")
    /\ Goto(u, IF "legacy" \in exists THEN "rename" ELSE "mkdir")
    /\ UNCHANGED disk

\* Mutant of Rename: the old directory is copied.
Rename_Copies(u) ==
    /\ At(u, "rename") /\ "legacy" \in exists /\ Dir(u) \notin exists
    /\ exists' = exists \cup {Dir(u)}
    /\ saved' = [saved EXCEPT ![Dir(u)] = saved["legacy"]]
    /\ marker' = [marker EXCEPT ![Dir(u)] = marker["legacy"]]
    /\ Goto(u, "mkdir")
    /\ UNCHANGED recorded

\* Another operation may have been faster: then there is nothing to rename.
Rename(u) ==
    /\ At(u, "rename")
    /\ IF "legacy" \in exists /\ Dir(u) \notin exists
       THEN /\ exists' = (exists \ {"legacy"}) \cup {Dir(u)}
            /\ saved' = [saved EXCEPT ![Dir(u)] = saved["legacy"], !["legacy"] = {}]
            /\ marker' = [marker EXCEPT ![Dir(u)] = marker["legacy"], !["legacy"] = "absent"]
            /\ Goto(u, "mkdir")
       ELSE Goto(u, "failed") /\ UNCHANGED <<exists, saved, marker>>
    /\ UNCHANGED recorded

MkdirAll(u) ==
    /\ At(u, "mkdir")
    /\ exists' = exists \cup {Dir(u)}
    /\ Goto(u, "identity")
    /\ UNCHANGED <<saved, marker, recorded>>

\* A file that is there counts as written.
WriteIdentityIfMissing(u) ==
    /\ At(u, "identity")
    /\ IF recorded[Dir(u)] = "absent"
       THEN /\ recorded' = [recorded EXCEPT ![Dir(u)] = "torn"]
            /\ Goto(u, "write-identity")
       ELSE /\ Goto(u, IF user[u].goal = "remote" THEN "check-remote" ELSE "read-marker")
            /\ UNCHANGED recorded
    /\ UNCHANGED <<exists, saved, marker>>

WriteIdentity(u) ==
    /\ At(u, "write-identity")
    /\ recorded' = [recorded EXCEPT ![Dir(u)] = Dir(u)]
    /\ Goto(u, IF user[u].goal = "remote" THEN "check-remote" ELSE "read-marker")
    /\ UNCHANGED <<exists, saved, marker>>

-----------------------------------------------------------------------------
\* OpenBackend and OpenBackendForRemote.

\* Mutant of OpenBackendForRemote: a bolt scope is not refused but converted.
OpenBackendForRemote_Converts(u) ==
    /\ At(u, "check-remote")
    /\ user' = [user EXCEPT ![u].at = "create-marker", ![u].kind = "fs"]
    /\ UNCHANGED disk

\* The marker is read here, and again by OpenBackend.
OpenBackendForRemote(u) ==
    /\ At(u, "check-remote")
    /\ Goto(u, IF marker[Dir(u)] \in {"absent", "fs"} THEN "read-marker" ELSE "failed")
    /\ UNCHANGED disk

\* A marker that does not parse is an error, for every operation from now on.
ReadMarker(u) ==
    /\ At(u, "read-marker")
    /\ \/ /\ marker[Dir(u)] = "torn"
          /\ Goto(u, "failed")
       \/ /\ marker[Dir(u)] \in {"bolt", "fs"}
          /\ user' = [user EXCEPT ![u].at = "work", ![u].kind = marker[Dir(u)]]
       \/ /\ marker[Dir(u)] = "absent"
          /\ user' = [user EXCEPT ![u].at = "create-marker",
                                  ![u].kind = IF user[u].goal = "remote" THEN "fs" ELSE "bolt"]
    /\ UNCHANGED disk

\* os.WriteFile: open with O_TRUNC, then write.
CreateMarker(u) ==
    /\ At(u, "create-marker")
    /\ marker' = [marker EXCEPT ![Dir(u)] = "torn"]
    /\ Goto(u, "write-marker")
    /\ UNCHANGED <<exists, saved, recorded>>

WriteMarker(u) ==
    /\ At(u, "write-marker")
    /\ marker' = [marker EXCEPT ![Dir(u)] = user[u].kind]
    /\ Goto(u, "work")
    /\ UNCHANGED <<exists, saved, recorded>>

\* The operation itself: a Create, something that reads snapshots, or git init.
Work(u) ==
    /\ At(u, "work")
    /\ saved' = IF user[u].goal = "create"
                THEN [saved EXCEPT ![Dir(u)] = @ \cup {<<u, user[u].kind>>}] ELSE saved
    /\ Goto(u, "done")
    /\ UNCHANGED <<exists, marker, recorded>>

-----------------------------------------------------------------------------
\* An operation that may have found no marker and has not written one yet.
Chooses(u) == \/ user[u].at \in {"create-marker", "write-marker"}
              \/ At(u, "read-marker") /\ user[u].goal = "remote"

Overlapping == {d \in Scopes : \E u, v \in Users :
    /\ Dir(u) = d /\ user[u].goal = "remote" /\ Chooses(u)
    /\ Dir(v) = d /\ user[v].goal # "remote" /\ Chooses(v)}

Next ==
    /\ \E u \in Users :
         \/ StatDir(u) \/ StatLegacy(u) \/ Rename(u) \/ MkdirAll(u)
         \/ WriteIdentityIfMissing(u) \/ WriteIdentity(u)
         \/ OpenBackendForRemote(u) \/ ReadMarker(u) \/ CreateMarker(u) \/ WriteMarker(u)
         \/ Work(u) \/ Fails(u) \/ Die(u)
    /\ overlaps' = overlaps \cup Overlapping'
    /\ UNCHANGED found

Spec == Init /\ [][Next]_vars

-----------------------------------------------------------------------------
\* The history an older version left is taken over by the first operation and by
\* it alone: it is neither lost nor doubled, and nobody starts over with an empty
\* directory beside it (scope.go:55-59), whoever else starts, fails or dies.
LegacyIsTaken ==
    /\ Cardinality({d \in exists : Old \in saved[d]}) = Cardinality(found)
    /\ "legacy" \in exists => \A d \in exists \cap Scopes : d \in found

\* What operations have saved is in the backend that all later ones open, and a
\* scope that is set up for git has the fs backend - unless a "remote-init" and
\* another first user of a scope overlap. A marker that its writer left empty hides
\* everything, but tells no lie.
BackendIsOne ==
    \A d \in Scopes \ overlaps :
        /\ \A s \in saved[d] : marker[d] \in {s[2], "torn"}
        /\ \A u \in Users : /\ Dir(u) = d /\ At(u, "done") /\ user[u].goal = "remote"
                            => marker[d] \in {"fs", "torn"}

DirectoryIsSound == LegacyIsTaken /\ BackendIsOne
=============================================================================
