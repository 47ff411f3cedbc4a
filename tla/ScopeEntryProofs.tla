-------------------------- MODULE ScopeEntryProofs --------------------------
(***************************************************************************)
(* The scope lock, for any number of processes, deaths and failed removals:*)
(* it excludes and implements ScopeMutex until one of two mishaps, namely  *)
(* a removal that hits another file than the one that was judged, and a    *)
(* holder slower than scopeLockStaleAge.  Before the lock, for any         *)
(* operations and scopes: an older version's directory is taken over once, *)
(* and a scope has one backend unless two first users choose it together.  *)
(***************************************************************************)
EXTENDS ScopeEntry, TLAPS, FiniteSetTheorems

-----------------------------------------------------------------------------
\* ScopeLock.

\* Every variable keeps its type, and nothing is known of an absent file.
THEOREM TypeCorrect == Spec => []TypeOK
<1>1. Init => TypeOK
  BY LockAssumption DEF Init, TypeOK, Labels
<1>2. ASSUME TypeOK, [Next]_vars
      PROVE  TypeOK'
  <2> USE <1>2, LockAssumption DEF TypeOK, Labels, Goto, fileVars, lookVars
  <2>1. ASSUME NEW p \in Procs, Begin(p) PROVE TypeOK'
    BY <2>1 DEF Begin
  <2>2. ASSUME NEW p \in Procs, CreateFile(p) PROVE TypeOK'
    BY <2>2 DEF CreateFile
  <2>3. ASSUME NEW p \in Procs, FileExists(p) PROVE TypeOK'
    BY <2>3 DEF FileExists
  <2>4. ASSUME NEW p \in Procs, WritePid(p) PROVE TypeOK'
    BY <2>4 DEF WritePid
  <2>5. ASSUME NEW p \in Procs, StatFile(p) PROVE TypeOK'
    BY <2>5 DEF StatFile
  <2>6. ASSUME NEW p \in Procs, ReadPid(p) PROVE TypeOK'
    BY <2>6 DEF ReadPid
  <2>7. ASSUME NEW p \in Procs, CheckAlive(p) PROVE TypeOK'
    BY <2>7 DEF CheckAlive, Forget
  <2>8. ASSUME NEW p \in Procs, RemoveStale(p) PROVE TypeOK'
    BY <2>8 DEF RemoveStale, RemoveFile, Forget
  <2>9. ASSUME NEW p \in Procs, RemoveFails(p) PROVE TypeOK'
    BY <2>9 DEF RemoveFails, Forget
  <2>10. ASSUME NEW p \in Procs, OpenFails(p) \/ GiveUp(p) \/ Retry(p) PROVE TypeOK'
    <3>1. \E l \in {"refused", "idle", "open"} : pc' = [pc EXCEPT ![p] = l]
      BY <2>10 DEF OpenFails, GiveUp, Retry
    <3>2. UNCHANGED <<fileVars, lookVars, alive, mishaps>>
      BY <2>10 DEF OpenFails, GiveUp, Retry
    <3> QED BY <3>1, <3>2
  <2>11. ASSUME NEW p \in Procs, ReleaseLock(p) PROVE TypeOK'
    BY <2>11 DEF ReleaseLock, RemoveFile
  <2>12. ASSUME NEW p \in Procs, ReleaseFails(p) PROVE TypeOK'
    BY <2>12 DEF ReleaseFails
  <2>13. ASSUME NEW p \in Procs, Die(p) PROVE TypeOK'
    BY <2>13 DEF Die, Forget
  <2>14. CASE Age
    BY <2>14 DEF Age
  <2>15. CASE UNCHANGED vars
    BY <2>15 DEF vars, fileVars, lookVars
  <2> QED
    BY <2>1, <2>2, <2>3, <2>4, <2>5, <2>6, <2>7, <2>8, <2>9, <2>10, <2>11,
       <2>12, <2>13, <2>14, <2>15 DEF Next, Acquiring
<1> QED
  BY <1>1, <1>2, PTL DEF Spec

-----------------------------------------------------------------------------
\* A process that is not dead is alive.
Living == \A p \in Procs : pc[p] # "dead" => p \in alive

\* What is true of the file that is now at the path: its creator is the holder, unless it
\* has died or left the file behind; it has not grown old under its holder.
FileInv == /\ HolderKeepsFile
           /\ aged \/ left => ~InCritical(file)
           /\ file \in alive /\ ~left => InCritical(file)

\* What a process has learnt of that file is true of it still.
LookInv == \A p \in Procs : /\ "stat" \in seen[p] /\ sawAged[p] => aged
                            /\ "pid" \in seen[p] => pidRead[p] \in {file, None}

LockInv == Living /\ (mishaps = {} => FileInv /\ LookInv)

\* No step makes a mishap undone.
LEMMA MishapsStay == ASSUME TypeOK, [Next]_vars PROVE mishaps \subseteq mishaps'
<1> USE DEF fileVars, lookVars
<1>1. CASE \E p \in Procs : RemoveStale(p)
  BY <1>1 DEF RemoveStale
<1>2. CASE Age
  BY <1>2 DEF Age
<1>3. CASE ~Age /\ ~ \E p \in Procs : RemoveStale(p)
  BY <1>3 DEF Next, Acquiring, Begin, CreateFile, FileExists, OpenFails, WritePid, StatFile,
              ReadPid, CheckAlive, RemoveFails, GiveUp, Retry, ReleaseLock, ReleaseFails, Die, vars
<1> QED BY <1>1, <1>2, <1>3

LEMMA LivingStep == ASSUME TypeOK, Living, [Next]_vars PROVE Living'
<1> USE LockAssumption DEF TypeOK, Labels, Goto, Living, fileVars, lookVars
<1>1. CASE \E p \in Procs : Die(p)
  BY <1>1 DEF Die
<1>2. CASE \E p \in Procs : Begin(p) \/ CheckAlive(p) \/ StatFile(p)
  BY <1>2 DEF Begin, CheckAlive, StatFile, Forget
<1>3. CASE \E p \in Procs : CreateFile(p) \/ FileExists(p) \/ OpenFails(p) \/ WritePid(p) \/ ReadPid(p)
  BY <1>3 DEF CreateFile, FileExists, OpenFails, WritePid, ReadPid
<1>4. CASE \E p \in Procs : RemoveStale(p) \/ RemoveFails(p) \/ GiveUp(p) \/ Retry(p)
  BY <1>4 DEF RemoveStale, RemoveFails, GiveUp, Retry
<1>5. CASE \E p \in Procs : ReleaseLock(p) \/ ReleaseFails(p)
  BY <1>5 DEF ReleaseLock, ReleaseFails
<1>6. CASE Age \/ UNCHANGED vars
  BY <1>6 DEF Age, vars
<1> QED BY <1>1, <1>2, <1>3, <1>4, <1>5, <1>6 DEF Next, Acquiring

\* A removal that hits the very file that was judged hits nobody's lock.
LEMMA RemovalIsJust ==
  ASSUME TypeOK, LockInv, mishaps = {}, NEW p \in Procs, ~Overtaken(p), file # None
  PROVE  ~InCritical(file)
<1>1. CASE sawAged[p] /\ "stat" \in seen[p]
  BY <1>1 DEF LockInv, LookInv, FileInv
<1>2. CASE HolderLooksDead(p) /\ "pid" \in seen[p]
  <2>1. pidRead[p] = file /\ file \in Procs \ alive
    BY <1>2, LockAssumption DEF LockInv, LookInv, HolderLooksDead, TypeOK
  <2> QED BY <2>1 DEF LockInv, Living, InCritical
<1> QED BY <1>1, <1>2 DEF Overtaken

LEMMA LockInvStep == ASSUME TypeOK, LockInv, [Next]_vars PROVE LockInv'
<1>1. Living' /\ (mishaps' = {} => mishaps = {})
  BY LivingStep, MishapsStay DEF LockInv
<1> SUFFICES ASSUME mishaps' = {} PROVE FileInv' /\ LookInv'
  BY <1>1 DEF LockInv
<1> USE LockAssumption DEF TypeOK, Labels, Goto, HolderKeepsFile, InCritical, FileInv, LookInv, Living,
                           fileVars, lookVars
<1>2. mishaps = {} /\ Living /\ FileInv /\ LookInv
  BY <1>1 DEF LockInv
<1>3. ASSUME NEW p \in Procs, Begin(p) \/ FileExists(p) \/ OpenFails(p) \/ GiveUp(p) \/ Retry(p)
      PROVE  FileInv' /\ LookInv'
  BY <1>2, <1>3 DEF Begin, FileExists, OpenFails, GiveUp, Retry
<1>4. ASSUME NEW p \in Procs, CreateFile(p) PROVE FileInv' /\ LookInv'
  BY <1>2, <1>4 DEF CreateFile
<1>5. ASSUME NEW p \in Procs, WritePid(p) PROVE FileInv' /\ LookInv'
  BY <1>2, <1>5 DEF WritePid
<1>6. ASSUME NEW p \in Procs, StatFile(p) PROVE FileInv' /\ LookInv'
  BY <1>2, <1>6 DEF StatFile
<1>7. ASSUME NEW p \in Procs, ReadPid(p) PROVE FileInv' /\ LookInv'
  BY <1>2, <1>7 DEF ReadPid
<1>8. ASSUME NEW p \in Procs, CheckAlive(p) PROVE FileInv' /\ LookInv'
  BY <1>2, <1>8 DEF CheckAlive, Forget
<1>9. ASSUME NEW p \in Procs, RemoveStale(p) PROVE FileInv' /\ LookInv'
  <2>1. ~Overtaken(p) /\ file' = None /\ ~aged' /\ ~left' /\ alive' = alive /\ pc' = [pc EXCEPT ![p] = "open"]
        /\ seen' = [q \in Procs |-> {}]
    BY <1>9, <1>2 DEF RemoveStale, RemoveFile
  <2>2. \A q \in Procs : ~InCritical(q)
    BY <1>2, <2>1, RemovalIsJust DEF LockInv
  <2> QED BY <1>2, <2>1, <2>2
<1>10. ASSUME NEW p \in Procs, RemoveFails(p) PROVE FileInv' /\ LookInv'
  BY <1>2, <1>10 DEF RemoveFails, Forget
<1>11. ASSUME NEW p \in Procs, ReleaseLock(p) PROVE FileInv' /\ LookInv'
  BY <1>2, <1>11 DEF ReleaseLock, RemoveFile
<1>12. ASSUME NEW p \in Procs, ReleaseFails(p) PROVE FileInv' /\ LookInv'
  BY <1>2, <1>12 DEF ReleaseFails
<1>13. ASSUME NEW p \in Procs, Die(p) PROVE FileInv' /\ LookInv'
  BY <1>2, <1>13 DEF Die, Forget
<1>14. CASE Age
  BY <1>2, <1>14 DEF Age
<1>15. CASE UNCHANGED vars
  BY <1>2, <1>15 DEF vars
<1> QED
  BY <1>3, <1>4, <1>5, <1>6, <1>7, <1>8, <1>9, <1>10, <1>11, <1>12, <1>13, <1>14, <1>15
     DEF Next, Acquiring

LEMMA LockInvAlways == Spec => [](TypeOK /\ LockInv)
<1>1. Init => LockInv
  BY LockAssumption DEF Init, LockInv, Living, FileInv, LookInv, HolderKeepsFile, InCritical
<1> QED BY <1>1, LockInvStep, TypeCorrect, PTL DEF Spec

\* The comment on withScopeLock, for every set of processes, any deaths and removals that
\* fail: the lock is exclusive, and a holder keeps its file, until a removal hits another
\* file than the one it judged or a holder is slower than scopeLockStaleAge.
THEOREM ExclusiveUntilMishapAlways == Spec => []ExclusiveUntilMishap
<1>1. LockInv => ExclusiveUntilMishap
  BY DEF LockInv, FileInv, ExclusiveUntilMishap, HolderKeepsFile, MutualExclusion
<1> QED BY <1>1, LockInvAlways, PTL

-----------------------------------------------------------------------------
\* The abstract holder is the file's creator.
LEMMA HolderIsCreator ==
  ASSUME TypeOK, FileInv PROVE LockHolder = IF left THEN None ELSE file
<1>1. CASE Critical = {}
  BY <1>1 DEF LockHolder
<1>2. CASE Critical # {}
  <2>1. PICK p \in Procs : p \in Critical
    BY <1>2 DEF Critical
  <2>2. file = p /\ InCritical(file)
    BY <2>1 DEF FileInv, HolderKeepsFile, Critical
  <2>3. Critical = {file} /\ ~left
    BY <2>1, <2>2 DEF FileInv, HolderKeepsFile, Critical
  <2>4. (CHOOSE q \in Procs : Critical = {q}) = file
    BY <2>1, <2>2, <2>3
  <2> QED BY <1>2, <2>1, <2>2, <2>3, <2>4 DEF LockHolder
<1> QED BY <1>1, <1>2

\* Who deletes, loses or leaves a file, as the abstract lock sees it.
LEMMA FileStepIsMutexStep ==
  ASSUME TypeOK, LockInv, LockInv', TypeOK', Next, mishaps' = {}
  PROVE  Mutex!MutexNext \/ UNCHANGED <<LockHolder, alive>>
<1> USE LockAssumption DEF TypeOK, Labels, Goto, InCritical, fileVars, lookVars,
                           Mutex!MutexNext, Mutex!Acquire, Mutex!Release, Mutex!Reclaim, Mutex!Die
<1>0. mishaps = {} /\ Living /\ FileInv /\ LookInv /\ FileInv'
  BY MishapsStay DEF LockInv
<1>1. /\ LockHolder = (IF left THEN None ELSE file)
      /\ LockHolder' = (IF left' THEN None ELSE file')
  <2>1. (TypeOK /\ FileInv => LockHolder = IF left THEN None ELSE file)'
    BY HolderIsCreator, PTL
  <2> QED BY <1>0, <2>1, HolderIsCreator
<1>2. ASSUME NEW p \in Procs, CreateFile(p) PROVE Mutex!Acquire(p)
  BY <1>0, <1>1, <1>2 DEF CreateFile, Living
<1>3. ASSUME NEW p \in Procs, ReleaseLock(p) PROVE Mutex!Release(p)
  BY <1>0, <1>1, <1>3 DEF ReleaseLock, RemoveFile, Living, FileInv, HolderKeepsFile
<1>4. ASSUME NEW p \in Procs, ReleaseFails(p) PROVE Mutex!Release(p)
  BY <1>0, <1>1, <1>4 DEF ReleaseFails, Living, FileInv, HolderKeepsFile
<1>5. ASSUME NEW p \in Procs, RemoveStale(p)
      PROVE  Mutex!Reclaim(p) \/ UNCHANGED <<LockHolder, alive>>
  <2>1. ~Overtaken(p) /\ file' = None /\ ~left' /\ UNCHANGED alive /\ p \in alive
    BY <1>0, <1>5 DEF RemoveStale, RemoveFile, Living
  <2>2. CASE file = None \/ left
    BY <1>1, <2>1, <2>2
  <2>3. CASE file # None /\ ~left
    <3>1. file \in Procs \ alive
      BY <1>0, <2>1, <2>3, RemovalIsJust DEF FileInv
    <3> QED BY <1>1, <2>1, <2>3, <3>1
  <2> QED BY <2>2, <2>3
<1>6. ASSUME NEW p \in Procs, Die(p) PROVE Mutex!Die(p)
  BY <1>1, <1>6 DEF Die
<1>7. ASSUME NEW p \in Procs,
             Begin(p) \/ FileExists(p) \/ OpenFails(p) \/ WritePid(p) \/ StatFile(p) \/ ReadPid(p)
             \/ CheckAlive(p) \/ RemoveFails(p) \/ GiveUp(p) \/ Retry(p)
      PROVE  UNCHANGED <<LockHolder, alive>>
  <2>1. UNCHANGED <<file, left, alive>>
    BY <1>7 DEF Begin, FileExists, OpenFails, WritePid, StatFile, ReadPid, CheckAlive, RemoveFails,
                GiveUp, Retry
  <2> QED BY <1>1, <2>1
<1>8. CASE Age
  BY <1>1, <1>8 DEF Age
<1> QED BY <1>2, <1>3, <1>4, <1>5, <1>6, <1>7, <1>8 DEF Next, Acquiring

\* The lock file implements ScopeMutex, for every set of processes, any deaths and removals
\* that fail, step by step up to the first mishap.
THEOREM FilesImplementMutex == Spec => ImplementsMutex
<1>1. Init => Mutex!MutexInit
  <2> SUFFICES ASSUME Init PROVE Mutex!MutexInit
    OBVIOUS
  <2>1. Critical = {} /\ ~left
    BY DEF Init, Critical, InCritical
  <2> QED BY <2>1 DEF Init, Mutex!MutexInit, LockHolder
<1>2. TypeOK /\ LockInv /\ TypeOK' /\ LockInv' /\ [Next]_vars
        => [mishaps' = {} => Mutex!MutexNext]_(Mutex!mutexVars)
  <2> SUFFICES ASSUME TypeOK, LockInv, TypeOK', LockInv', [Next]_vars, mishaps' = {}
               PROVE  Mutex!MutexNext \/ UNCHANGED Mutex!mutexVars
    OBVIOUS
  <2>1. CASE Next
    BY <2>1, FileStepIsMutexStep DEF Mutex!mutexVars
  <2>2. CASE UNCHANGED vars
    <3>1. UNCHANGED <<file, left, alive, Critical>>
      BY <2>2 DEF vars, fileVars, Critical, InCritical
    <3> QED BY <3>1 DEF Mutex!mutexVars, LockHolder
  <2> QED BY <2>1, <2>2
<1> QED BY <1>1, <1>2, LockInvAlways, PTL DEF Spec, ImplementsMutex

-----------------------------------------------------------------------------
\* ScopeDirectory.

Finding == {"stat-dir", "stat-legacy", "rename", "mkdir"}
Inside == {"identity", "write-identity", "check-remote", "read-marker", "create-marker",
           "write-marker", "work", "done"}

DirectoryTypeOK ==
    /\ exists \subseteq Dirs!Places /\ found \subseteq Dirs!Places /\ overlaps \subseteq Scopes
    /\ saved \in [Dirs!Places -> SUBSET ((Users \cup {"old"}) \X {"bolt", "fs"})]
    /\ marker \in [Dirs!Places -> {"absent", "torn", "bolt", "fs"}]
    /\ user \in [Users -> [at : Finding \cup Inside \cup {"failed", "dead"}, scope : Scopes,
                           goal : Dirs!Goals, kind : {"bolt", "fs"}]]

\* Who is inside has found or made the directory; who is about to make it has seen
\* that there is none to take over.
PlaceInv ==
    /\ \A u \in Users : user[u].at \in Inside => Dirs!Dir(u) \in exists
    /\ \A u \in Users : Dirs!At(u, "mkdir") => Dirs!Dir(u) \in exists \/ "legacy" \notin exists
    /\ \A d \in Dirs!Places \ exists : saved[d] = {} /\ marker[d] = "absent"
    /\ "legacy" \in exists => saved["legacy"] = {Dirs!Old} /\ marker["legacy"] = "bolt"

OldPlaces == {d \in exists : Dirs!Old \in saved[d]}
HistoryInv == /\ Cardinality(OldPlaces) = Cardinality(found)
              /\ "legacy" \in exists => exists \cap Scopes \subseteq found

\* While there is no marker nobody has got past it; who makes one has chosen its
\* kind by its goal.
MarkerInv == \A u \in Users :
    /\ marker[Dirs!Dir(u)] = "absent" => user[u].at \notin {"write-marker", "work", "done"}
    /\ user[u].at \in {"create-marker", "write-marker"} =>
          user[u].kind = IF user[u].goal = "remote" THEN "fs" ELSE "bolt"

Writing == {"create-marker", "write-marker", "work"}

\* What speaks for kind k in scope d: a snapshot, the marker, an operation at work
\* or about to write its marker; a "remote-init" always speaks for fs.
Claims(d, k) ==
    \/ \E s \in saved[d] : s[2] = k
    \/ marker[d] = k
    \/ \E u \in Users : Dirs!Dir(u) = d /\ user[u].at \in Writing /\ user[u].kind = k
    \/ k = "fs" /\ \E u \in Users :
          Dirs!Dir(u) = d /\ user[u].goal = "remote" /\ user[u].at \in {"work", "done"}

KindInv ==
    /\ Dirs!Overlapping \subseteq overlaps
    /\ \A d \in Scopes : marker[d] = "absent" => saved[d] = {}
    /\ \A d \in Scopes \ overlaps :
          /\ ~(Claims(d, "bolt") /\ Claims(d, "fs"))
          /\ \A u \in Users : Dirs!Dir(u) = d /\ Dirs!At(u, "read-marker") /\ user[u].goal = "remote" =>
                ~Claims(d, "bolt")

DirectoryInv == DirectoryTypeOK /\ PlaceInv /\ HistoryInv /\ MarkerInv /\ KindInv

AllSteps == Finding \cup Inside \cup {"failed", "dead"}

\* A step that only moves its user on.
LEMMA UserGoes ==
    ASSUME DirectoryTypeOK, NEW u \in Users, NEW l \in AllSteps, Dirs!Goto(u, l)
    PROVE  /\ user' \in [Users -> [at : AllSteps, scope : Scopes, goal : Dirs!Goals, kind : {"bolt", "fs"}]]
           /\ user'[u].at = l /\ user'[u].scope = user[u].scope
           /\ user'[u].goal = user[u].goal /\ user'[u].kind = user[u].kind
           /\ \A v \in Users \ {u} : user'[v] = user[v]
  BY DEF DirectoryTypeOK, Dirs!Goto, AllSteps

\* The steps that change no directory, snapshot or marker and lead to no claim.
Quiet(u) ==
    \/ Dirs!StatDir(u) \/ Dirs!StatLegacy(u) \/ Dirs!WriteIdentityIfMissing(u)
    \/ Dirs!WriteIdentity(u) \/ Dirs!OpenBackendForRemote(u) \/ Dirs!Fails(u) \/ Dirs!Die(u)

LEMMA QuietGoes ==
    ASSUME DirectoryTypeOK, NEW u \in Users, Quiet(u)
    PROVE  /\ UNCHANGED <<exists, saved, marker>>
           /\ \E l \in AllSteps \ (Writing \cup {"done"}) :
                 /\ Dirs!Goto(u, l)
                 /\ l \in Inside => user[u].at \in Inside
                 /\ l = "mkdir" => Dirs!Dir(u) \in exists \/ "legacy" \notin exists
                 /\ l = "read-marker" /\ user[u].goal = "remote" => marker[Dirs!Dir(u)] \in {"absent", "fs"}
<1> USE DEF Dirs!At, AllSteps, Finding, Inside, Writing
<1>1. CASE Dirs!StatDir(u)
  BY <1>1 DEF Dirs!StatDir, Dirs!disk
<1>2. CASE Dirs!StatLegacy(u)
  BY <1>2 DEF Dirs!StatLegacy, Dirs!disk
<1>3. CASE Dirs!WriteIdentityIfMissing(u)
  BY <1>3 DEF Dirs!WriteIdentityIfMissing
<1>4. CASE Dirs!WriteIdentity(u)
  BY <1>4 DEF Dirs!WriteIdentity
<1>5. CASE Dirs!OpenBackendForRemote(u)
  BY <1>5 DEF Dirs!OpenBackendForRemote, Dirs!disk
<1>6. CASE Dirs!Fails(u) \/ Dirs!Die(u)
  BY <1>6 DEF Dirs!Fails, Dirs!Die, Dirs!disk
<1> QED BY <1>1, <1>2, <1>3, <1>4, <1>5, <1>6 DEF Quiet

\* ReadMarker: it chooses the kind.
LEMMA MarkerRead ==
    ASSUME DirectoryTypeOK, NEW u \in Users, Dirs!ReadMarker(u)
    PROVE  /\ UNCHANGED <<exists, saved, marker>> /\ Dirs!At(u, "read-marker")
           /\ user' \in [Users -> [at : AllSteps, scope : Scopes, goal : Dirs!Goals, kind : {"bolt", "fs"}]]
           /\ user'[u].scope = user[u].scope /\ user'[u].goal = user[u].goal
           /\ \A v \in Users \ {u} : user'[v] = user[v]
           /\ \/ marker[Dirs!Dir(u)] = "torn" /\ user'[u].at = "failed"
              \/ /\ marker[Dirs!Dir(u)] \in {"bolt", "fs"} /\ user'[u].at = "work"
                 /\ user'[u].kind = marker[Dirs!Dir(u)]
              \/ /\ marker[Dirs!Dir(u)] = "absent" /\ user'[u].at = "create-marker"
                 /\ user'[u].kind = IF user[u].goal = "remote" THEN "fs" ELSE "bolt"
<1> USE DEF DirectoryTypeOK, Dirs!At, Dirs!Goto, AllSteps, Finding, Inside, Dirs!disk
<1>0. UNCHANGED <<exists, saved, marker>> /\ Dirs!At(u, "read-marker")
  BY DEF Dirs!ReadMarker
<1>1. CASE marker[Dirs!Dir(u)] = "torn" /\ Dirs!Goto(u, "failed")
  BY <1>0, <1>1
<1>2. CASE /\ marker[Dirs!Dir(u)] \in {"bolt", "fs"}
           /\ user' = [user EXCEPT ![u].at = "work", ![u].kind = marker[Dirs!Dir(u)]]
  BY <1>0, <1>2
<1>3. CASE /\ marker[Dirs!Dir(u)] = "absent"
           /\ user' = [user EXCEPT ![u].at = "create-marker",
                                   ![u].kind = IF user[u].goal = "remote" THEN "fs" ELSE "bolt"]
  BY <1>0, <1>3
<1> QED BY <1>1, <1>2, <1>3 DEF Dirs!ReadMarker

\* Rename: the legacy directory becomes the scope's, which was not there.
LEMMA Renamed ==
    ASSUME DirectoryTypeOK, PlaceInv, NEW u \in Users, Dirs!Rename(u)
    PROVE  \/ UNCHANGED <<exists, saved, marker>> /\ Dirs!Goto(u, "failed")
           \/ /\ "legacy" \in exists /\ Dirs!Dir(u) \in Scopes \ exists /\ Dirs!Goto(u, "mkdir")
              /\ exists' = (exists \ {"legacy"}) \cup {Dirs!Dir(u)}
              /\ saved' = [d \in Dirs!Places |-> IF d = Dirs!Dir(u) THEN {Dirs!Old}
                                             ELSE IF d = "legacy" THEN {} ELSE saved[d]]
              /\ marker' = [d \in Dirs!Places |-> IF d = Dirs!Dir(u) THEN "bolt"
                                              ELSE IF d = "legacy" THEN "absent" ELSE marker[d]]
<1>1. /\ Dirs!Dir(u) \in Scopes /\ Dirs!Dir(u) # "legacy"
      /\ Dirs!Dir(u) \in Dirs!Places /\ "legacy" \in Dirs!Places
  BY DirectoryAssumption DEF DirectoryTypeOK, Dirs!Dir, Dirs!Places
<1> QED BY <1>1 DEF DirectoryTypeOK, PlaceInv, Dirs!Rename

UserStep(u) ==
    \/ Quiet(u) \/ Dirs!Rename(u) \/ Dirs!MkdirAll(u) \/ Dirs!ReadMarker(u)
    \/ Dirs!CreateMarker(u) \/ Dirs!WriteMarker(u) \/ Dirs!Work(u)

LEMMA NextSteps ==
    ASSUME Dirs!Next
    PROVE  /\ overlaps' = overlaps \cup Dirs!Overlapping' /\ UNCHANGED found
           /\ \E u \in Users : UserStep(u)
  BY DEF Dirs!Next, UserStep, Quiet

LEMMA DirectoryTypeStep == DirectoryTypeOK /\ PlaceInv /\ [Dirs!Next]_directoryVars => DirectoryTypeOK'
<1> SUFFICES ASSUME DirectoryTypeOK, PlaceInv, [Dirs!Next]_directoryVars PROVE DirectoryTypeOK'
  OBVIOUS
<1>1. ASSUME NEW u \in Users, UserStep(u), overlaps' = overlaps \cup Dirs!Overlapping', UNCHANGED found
      PROVE  DirectoryTypeOK'
  <2>0. /\ Dirs!Dir(u) \in Dirs!Places /\ overlaps' \subseteq Scopes
        /\ <<u, user[u].kind>> \in (Users \cup {"old"}) \X {"bolt", "fs"}
        /\ Dirs!Old \in (Users \cup {"old"}) \X {"bolt", "fs"}
    BY <1>1 DEF DirectoryTypeOK, Dirs!Dir, Dirs!Places, Dirs!Overlapping, Dirs!Old
  <2>1. CASE Quiet(u)
    BY <1>1, <2>0, <2>1, QuietGoes, UserGoes DEF DirectoryTypeOK, AllSteps
  <2>2. CASE Dirs!Rename(u)
    <3>1. CASE UNCHANGED <<exists, saved, marker>> /\ Dirs!Goto(u, "failed")
      BY <1>1, <2>0, <3>1, UserGoes DEF DirectoryTypeOK, AllSteps
    <3>2. CASE /\ Dirs!Goto(u, "mkdir") /\ exists' = (exists \ {"legacy"}) \cup {Dirs!Dir(u)}
               /\ saved' = [d \in Dirs!Places |-> IF d = Dirs!Dir(u) THEN {Dirs!Old}
                                             ELSE IF d = "legacy" THEN {} ELSE saved[d]]
               /\ marker' = [d \in Dirs!Places |-> IF d = Dirs!Dir(u) THEN "bolt"
                                              ELSE IF d = "legacy" THEN "absent" ELSE marker[d]]
      BY <1>1, <2>0, <3>2, UserGoes DEF DirectoryTypeOK, AllSteps, Finding
    <3> QED BY <2>2, <3>1, <3>2, Renamed
  <2>3. CASE Dirs!MkdirAll(u)
    BY <1>1, <2>0, <2>3, UserGoes DEF Dirs!MkdirAll, DirectoryTypeOK, AllSteps, Inside
  <2>4. CASE Dirs!ReadMarker(u)
    BY <1>1, <2>0, <2>4, MarkerRead DEF DirectoryTypeOK, AllSteps
  <2>5. CASE Dirs!CreateMarker(u) \/ Dirs!WriteMarker(u)
    <3>1. user[u].kind \in {"bolt", "fs"}
      BY DEF DirectoryTypeOK
    <3> QED BY <1>1, <2>0, <2>5, <3>1, UserGoes DEF Dirs!CreateMarker, Dirs!WriteMarker,
       DirectoryTypeOK, AllSteps, Inside
  <2>6. CASE Dirs!Work(u)
    <3>1. saved' \in [Dirs!Places -> SUBSET ((Users \cup {"old"}) \X {"bolt", "fs"})]
      BY <2>0, <2>6 DEF Dirs!Work, DirectoryTypeOK
    <3> QED BY <1>1, <2>0, <2>6, <3>1, UserGoes DEF Dirs!Work, DirectoryTypeOK, AllSteps, Inside
  <2> QED BY <1>1, <2>1, <2>2, <2>3, <2>4, <2>5, <2>6 DEF UserStep
<1>2. CASE UNCHANGED directoryVars
  BY <1>2 DEF directoryVars, DirectoryTypeOK
<1> QED BY <1>1, <1>2, NextSteps

\* What a step does to the place of its user, and what it leaves alone.
LEMMA StepGoes ==
    ASSUME DirectoryTypeOK, PlaceInv, NEW u \in Users, UserStep(u), ~Dirs!Rename(u)
    PROVE  /\ user'[u].scope = user[u].scope /\ user'[u].goal = user[u].goal
           /\ \A v \in Users \ {u} : user'[v] = user[v]
           /\ \A d \in Dirs!Places \ {Dirs!Dir(u)} : saved'[d] = saved[d] /\ marker'[d] = marker[d]
           /\ exists' \in {exists, exists \cup {Dirs!Dir(u)}}
           /\ "legacy" \in exists => exists' = exists
<1> USE DEF Dirs!At, Dirs!Dir
<1>0. "legacy" # Dirs!Dir(u) /\ Dirs!Dir(u) \in Dirs!Places
  BY DirectoryAssumption DEF DirectoryTypeOK, Dirs!Places
<1>1. CASE Quiet(u)
  BY <1>1, QuietGoes, UserGoes
<1>2. CASE Dirs!MkdirAll(u)
  BY <1>2, UserGoes DEF Dirs!MkdirAll, PlaceInv, AllSteps, Inside
<1>3. CASE Dirs!ReadMarker(u)
  BY <1>3, MarkerRead
<1>4. CASE Dirs!CreateMarker(u) \/ Dirs!WriteMarker(u)
  BY <1>0, <1>4, UserGoes DEF Dirs!CreateMarker, Dirs!WriteMarker, AllSteps, Inside, DirectoryTypeOK
<1>5. CASE Dirs!Work(u)
  BY <1>0, <1>5, UserGoes DEF Dirs!Work, AllSteps, Inside, DirectoryTypeOK
<1> QED BY <1>1, <1>2, <1>3, <1>4, <1>5 DEF UserStep

LEMMA PlaceStep == DirectoryTypeOK /\ PlaceInv /\ [Dirs!Next]_directoryVars => PlaceInv'
<1> SUFFICES ASSUME DirectoryTypeOK, PlaceInv, [Dirs!Next]_directoryVars PROVE PlaceInv'
  OBVIOUS
<1> USE DEF Dirs!At, Dirs!Dir
<1>1. ASSUME NEW u \in Users, UserStep(u) PROVE PlaceInv'
  <2>0. /\ "legacy" # Dirs!Dir(u) /\ Dirs!Dir(u) \in Dirs!Places
        /\ \A v \in Users : Dirs!Dir(v) \in Scopes /\ Dirs!Dir(v) # "legacy"
    BY DirectoryAssumption DEF DirectoryTypeOK, Dirs!Places
  <2>1. CASE Dirs!Rename(u)
    <3>1. CASE UNCHANGED <<exists, saved, marker>> /\ Dirs!Goto(u, "failed")
      BY <3>1, UserGoes DEF PlaceInv, AllSteps, Inside
    <3>2. CASE /\ Dirs!Goto(u, "mkdir") /\ exists' = (exists \ {"legacy"}) \cup {Dirs!Dir(u)}
               /\ saved' = [d \in Dirs!Places |-> IF d = Dirs!Dir(u) THEN {Dirs!Old}
                                             ELSE IF d = "legacy" THEN {} ELSE saved[d]]
               /\ marker' = [d \in Dirs!Places |-> IF d = Dirs!Dir(u) THEN "bolt"
                                              ELSE IF d = "legacy" THEN "absent" ELSE marker[d]]
      <4>1. /\ user'[u].at = "mkdir" /\ user'[u].scope = user[u].scope
            /\ \A v \in Users \ {u} : user'[v] = user[v]
        BY <3>2, UserGoes DEF AllSteps, Finding
      <4>2. "legacy" \notin exists'
        BY <2>0, <3>2
      <4>3. \A v \in Users : user'[v].at \in Inside => Dirs!Dir(v)' \in exists'
        BY <2>0, <3>2, <4>1 DEF PlaceInv, Inside
      <4>4. \A d \in Dirs!Places \ exists' : saved'[d] = {} /\ marker'[d] = "absent"
        BY <2>0, <3>2 DEF PlaceInv
      <4> QED BY <4>2, <4>3, <4>4 DEF PlaceInv
    <3> QED BY <2>1, <3>1, <3>2, Renamed
  <2>2. CASE ~Dirs!Rename(u)
    <3>1. /\ user'[u].at \in Inside => Dirs!Dir(u) \in exists'
          /\ user'[u].at = "mkdir" => Dirs!Dir(u) \in exists \/ "legacy" \notin exists
          /\ Dirs!Dir(u) \notin exists' => saved'[Dirs!Dir(u)] = {} /\ marker'[Dirs!Dir(u)] = "absent"
      <4>1. CASE Quiet(u)
        BY <2>0, <4>1, QuietGoes, UserGoes DEF PlaceInv
      <4>2. CASE Dirs!MkdirAll(u)
        BY <2>0, <4>2, UserGoes DEF Dirs!MkdirAll, AllSteps, Inside
      <4>3. CASE Dirs!ReadMarker(u)
        BY <2>0, <4>3, MarkerRead DEF PlaceInv, Inside
      <4>4. CASE Dirs!CreateMarker(u) \/ Dirs!WriteMarker(u) \/ Dirs!Work(u)
        BY <2>0, <4>4, UserGoes DEF Dirs!CreateMarker, Dirs!WriteMarker, Dirs!Work, AllSteps,
           Inside, PlaceInv
      <4> QED BY <1>1, <2>2, <4>1, <4>2, <4>3, <4>4 DEF UserStep
    <3>2. exists \subseteq exists' /\ ("legacy" \in exists' => "legacy" \in exists /\ exists' = exists)
      BY <1>1, <2>0, <2>2, StepGoes
    <3>3. \A v \in Users : user'[v].at \in Inside => Dirs!Dir(v)' \in exists'
      BY <1>1, <2>2, <3>1, <3>2, StepGoes DEF PlaceInv
    <3>4. \A v \in Users : user'[v].at = "mkdir" => Dirs!Dir(v)' \in exists' \/ "legacy" \notin exists'
      BY <1>1, <2>2, <3>1, <3>2, StepGoes DEF PlaceInv
    <3>5. \A d \in Dirs!Places \ exists' : saved'[d] = {} /\ marker'[d] = "absent"
      BY <1>1, <2>2, <3>1, <3>2, StepGoes DEF PlaceInv
    <3>6. "legacy" \in exists' => saved'["legacy"] = {Dirs!Old} /\ marker'["legacy"] = "bolt"
      BY <1>1, <2>0, <2>2, <3>2, StepGoes DEF PlaceInv, Dirs!Places
    <3> QED BY <3>3, <3>4, <3>5, <3>6 DEF PlaceInv
  <2> QED BY <2>1, <2>2
<1>2. CASE UNCHANGED directoryVars
  BY <1>2 DEF directoryVars, PlaceInv
<1> QED BY <1>1, <1>2, NextSteps

LEMMA HistoryStep == DirectoryTypeOK /\ PlaceInv /\ HistoryInv /\ [Dirs!Next]_directoryVars => HistoryInv'
<1> SUFFICES ASSUME DirectoryTypeOK, PlaceInv, HistoryInv, [Dirs!Next]_directoryVars PROVE HistoryInv'
  OBVIOUS
<1>1. ASSUME NEW u \in Users, UserStep(u), UNCHANGED found PROVE HistoryInv'
  <2>0. /\ Dirs!Dir(u) \in Scopes /\ Dirs!Dir(u) # "legacy"
        /\ Dirs!Dir(u) \in Dirs!Places /\ "legacy" \in Dirs!Places
    BY DirectoryAssumption DEF DirectoryTypeOK, Dirs!Places, Dirs!Dir
  <2>1. CASE OldPlaces' = OldPlaces /\ ("legacy" \in exists' => "legacy" \in exists /\ exists' = exists)
    BY <1>1, <2>1 DEF HistoryInv
  <2>2. CASE Dirs!Rename(u)
    <3>1. CASE UNCHANGED <<exists, saved, marker>>
      BY <2>1, <3>1 DEF OldPlaces
    <3>2. CASE /\ "legacy" \in exists /\ Dirs!Dir(u) \in Scopes \ exists
               /\ exists' = (exists \ {"legacy"}) \cup {Dirs!Dir(u)}
               /\ saved' = [d \in Dirs!Places |-> IF d = Dirs!Dir(u) THEN {Dirs!Old}
                                             ELSE IF d = "legacy" THEN {} ELSE saved[d]]
      <4>1. OldPlaces' = (OldPlaces \ {"legacy"}) \cup {Dirs!Dir(u)}
        BY <2>0, <3>2 DEF OldPlaces, DirectoryTypeOK
      <4>2. "legacy" \in OldPlaces /\ Dirs!Dir(u) \notin OldPlaces \ {"legacy"}
        BY <3>2 DEF OldPlaces, PlaceInv
      <4>3. IsFiniteSet(OldPlaces)
        <5>1. IsFiniteSet(Dirs!Places)
          BY DirectoryAssumption, FS_AddElement, FS_Singleton, FS_Union DEF Dirs!Places
        <5> QED BY <5>1, FS_Subset DEF OldPlaces, DirectoryTypeOK
      <4>4. /\ IsFiniteSet(OldPlaces \ {"legacy"})
            /\ Cardinality(OldPlaces \ {"legacy"}) = Cardinality(OldPlaces) - 1
        BY <4>2, <4>3, FS_RemoveElement
      <4>5. Cardinality(OldPlaces') = Cardinality(OldPlaces \ {"legacy"}) + 1
        BY <4>1, <4>2, <4>4, FS_AddElement
      <4>6. Cardinality(OldPlaces) \in Nat
        BY <4>3, FS_CardinalityType
      <4>7. "legacy" \notin exists'
        BY <2>0, <3>2
      <4> QED BY <1>1, <4>4, <4>5, <4>6, <4>7 DEF HistoryInv
    <3> QED BY <2>2, <3>1, <3>2, Renamed
  <2>3. CASE ~Dirs!Rename(u)
    <3>1. "legacy" \in exists' => "legacy" \in exists /\ exists' = exists
      BY <1>1, <2>0, <2>3, StepGoes
    <3>2. exists \subseteq exists' /\ \A d \in exists' \ exists : d = Dirs!Dir(u)
      BY <1>1, <2>3, StepGoes
    <3>3. Dirs!Old \in saved'[Dirs!Dir(u)] <=> Dirs!Old \in saved[Dirs!Dir(u)]
      <4>1. CASE Dirs!Work(u)
        <5>1. <<u, user[u].kind>> # Dirs!Old
          BY DirectoryAssumption DEF Dirs!Old
        <5> QED BY <2>0, <4>1, <5>1 DEF Dirs!Work, DirectoryTypeOK
      <4>2. CASE ~Dirs!Work(u)
        BY <1>1, <2>3, <4>2, QuietGoes DEF UserStep, Dirs!MkdirAll, Dirs!ReadMarker,
           Dirs!CreateMarker, Dirs!WriteMarker, Dirs!disk
      <4> QED BY <4>1, <4>2
    <3>4. \A d \in Dirs!Places : Dirs!Old \in saved'[d] <=> Dirs!Old \in saved[d]
      BY <1>1, <2>3, <3>3, StepGoes
    <3>5. \A d \in exists' \ exists : Dirs!Old \notin saved[d]
      BY <2>0, <3>2 DEF PlaceInv
    <3>6. exists' \subseteq Dirs!Places
      BY <1>1, <2>0, <2>3, StepGoes DEF DirectoryTypeOK
    <3>7. OldPlaces' = OldPlaces
      BY <3>2, <3>4, <3>5, <3>6 DEF OldPlaces
    <3> QED BY <2>1, <3>1, <3>7
  <2> QED BY <2>2, <2>3
<1>2. CASE UNCHANGED directoryVars
  BY <1>2 DEF directoryVars, HistoryInv, OldPlaces
<1> QED BY <1>1, <1>2, NextSteps

LEMMA MarkerStep == DirectoryTypeOK /\ PlaceInv /\ MarkerInv /\ [Dirs!Next]_directoryVars => MarkerInv'
<1> SUFFICES ASSUME DirectoryTypeOK, PlaceInv, MarkerInv, [Dirs!Next]_directoryVars PROVE MarkerInv'
  OBVIOUS
<1> USE DEF Dirs!At, Dirs!Dir
<1>1. ASSUME NEW u \in Users, UserStep(u) PROVE MarkerInv'
  <2>0. /\ "legacy" # Dirs!Dir(u) /\ Dirs!Dir(u) \in Dirs!Places
        /\ \A v \in Users : Dirs!Dir(v) \in Dirs!Places \ {"legacy"}
    BY DirectoryAssumption DEF DirectoryTypeOK, Dirs!Places
  <2>1. CASE Dirs!Rename(u)
    <3>1. PICK l \in {"failed", "mkdir"} :
             /\ Dirs!Goto(u, l)
             /\ \A v \in Users : marker'[Dirs!Dir(v)] \in {"bolt", marker[Dirs!Dir(v)]}
      BY <2>0, <2>1, Renamed
    <3>2. /\ user'[u].at \in {"failed", "mkdir"} /\ user'[u].scope = user[u].scope
          /\ \A v \in Users \ {u} : user'[v] = user[v]
      BY <3>1, UserGoes DEF AllSteps, Finding
    <3> QED BY <3>1, <3>2 DEF MarkerInv
  <2>2. CASE ~Dirs!Rename(u)
    <3>1. \A v \in Users \ {u} : marker'[Dirs!Dir(v)] = "absent" => marker[Dirs!Dir(v)] = "absent"
      <4>1. marker'[Dirs!Dir(u)] = "absent" => marker[Dirs!Dir(u)] = "absent"
        BY <1>1, <2>0, <2>2, QuietGoes, MarkerRead DEF UserStep, Dirs!MkdirAll,
           Dirs!CreateMarker, Dirs!WriteMarker, Dirs!Work,
           DirectoryTypeOK
      <4> QED BY <1>1, <2>0, <2>2, <4>1, StepGoes
    <3>2. /\ marker'[Dirs!Dir(u)] = "absent" => user'[u].at \notin {"write-marker", "work", "done"}
          /\ user'[u].at \in {"create-marker", "write-marker"} =>
                user'[u].kind = IF user[u].goal = "remote" THEN "fs" ELSE "bolt"
      <4>1. CASE Quiet(u)
        BY <4>1, QuietGoes, UserGoes DEF Writing
      <4>2. CASE Dirs!MkdirAll(u)
        BY <4>2, UserGoes DEF Dirs!MkdirAll, AllSteps, Inside
      <4>3. CASE Dirs!ReadMarker(u)
        BY <2>0, <4>3, MarkerRead
      <4>4. CASE Dirs!CreateMarker(u)
        BY <2>0, <4>4, UserGoes DEF Dirs!CreateMarker, AllSteps, Inside, MarkerInv, DirectoryTypeOK
      <4>5. CASE Dirs!WriteMarker(u)
        <5>1. user[u].kind # "absent"
          BY DEF DirectoryTypeOK
        <5> QED BY <2>0, <4>5, <5>1, UserGoes DEF Dirs!WriteMarker, AllSteps, Inside, DirectoryTypeOK
      <4>6. CASE Dirs!Work(u)
        BY <4>6, UserGoes DEF Dirs!Work, AllSteps, Inside, MarkerInv
      <4> QED BY <1>1, <2>2, <4>1, <4>2, <4>3, <4>4, <4>5, <4>6 DEF UserStep
    <3> QED BY <1>1, <2>2, <3>1, <3>2, StepGoes DEF MarkerInv
  <2> QED BY <2>1, <2>2
<1>2. CASE UNCHANGED directoryVars
  BY <1>2 DEF directoryVars, MarkerInv
<1> QED BY <1>1, <1>2, NextSteps

\* A step of u claims nothing for the scopes of others.
LEMMA OtherScopes ==
    ASSUME DirectoryTypeOK, PlaceInv, NEW u \in Users, UserStep(u),
           NEW d \in Scopes, d # Dirs!Dir(u), NEW k
    PROVE  /\ Claims(d, k)' => Claims(d, k)
           /\ marker'[d] = marker[d] /\ saved'[d] = saved[d]
           /\ \A v \in Users : Dirs!Dir(v)' = d => user'[v] = user[v]
<1>1. /\ user'[u].scope = user[u].scope /\ \A v \in Users \ {u} : user'[v] = user[v]
      /\ marker'[d] = marker[d] /\ saved'[d] = saved[d]
  <2>0. d \in Dirs!Places /\ d # "legacy"
    BY DirectoryAssumption DEF Dirs!Places
  <2>1. CASE Dirs!Rename(u)
    BY <2>0, <2>1, Renamed, UserGoes DEF AllSteps, Finding
  <2>2. CASE ~Dirs!Rename(u)
    BY <2>0, <2>2, StepGoes
  <2> QED BY <2>1, <2>2
<1>2. \A v \in Users : Dirs!Dir(v)' = d => user'[v] = user[v] /\ Dirs!Dir(v) = d
  BY <1>1 DEF Dirs!Dir
<1>3. Claims(d, k)' => Claims(d, k)
  BY <1>1, <1>2 DEF Claims
<1> QED BY <1>1, <1>2, <1>3

LEMMA KindStep ==
    DirectoryTypeOK /\ PlaceInv /\ MarkerInv /\ KindInv /\ [Dirs!Next]_directoryVars => KindInv'
<1> SUFFICES ASSUME DirectoryTypeOK, PlaceInv, MarkerInv, KindInv, [Dirs!Next]_directoryVars PROVE KindInv'
  OBVIOUS
<1> USE DEF Dirs!At
<1>1. ASSUME NEW u \in Users, UserStep(u), overlaps' = overlaps \cup Dirs!Overlapping' PROVE KindInv'
  <2>d. PICK d0 \in Scopes : d0 = Dirs!Dir(u)
    BY DEF DirectoryTypeOK, Dirs!Dir
  <2> USE <2>d DEF Dirs!Dir
  <2>0. /\ d0 \in Scopes /\ d0 \in Dirs!Places /\ d0 # "legacy" /\ user[u].kind \in {"bolt", "fs"}
        /\ \A s \in saved[d0] : s[2] \in {"bolt", "fs"}
    BY DirectoryAssumption DEF DirectoryTypeOK, Dirs!Places
  \* It is enough to look at the scope of u.
  <2>1. SUFFICES ASSUME TRUE
        PROVE  /\ marker'[d0] = "absent" => saved'[d0] = {}
               /\ d0 \notin overlaps' =>
                     /\ ~(Claims(d0, "bolt")' /\ Claims(d0, "fs")')
                     /\ \A v \in Users :
                           Dirs!Dir(v)' = d0 /\ user'[v].at = "read-marker" /\ user'[v].goal = "remote" =>
                              ~Claims(d0, "bolt")'
    <3>1. \A d \in Scopes \ {d0} : marker'[d] = "absent" => saved'[d] = {}
      BY <1>1, OtherScopes DEF KindInv
    <3>2. \A d \in Scopes \ {d0} : d \notin overlaps' => ~(Claims(d, "bolt")' /\ Claims(d, "fs")')
      BY <1>1, OtherScopes DEF KindInv
    <3>3. \A d \in Scopes \ {d0} : d \notin overlaps' => \A v \in Users :
             Dirs!Dir(v)' = d /\ user'[v].at = "read-marker" /\ user'[v].goal = "remote" => ~Claims(d, "bolt")'
      BY <1>1, OtherScopes DEF KindInv, Dirs!Dir
    <3>4. Dirs!Overlapping' \subseteq overlaps'
      BY <1>1
    <3> QED BY <2>1, <3>1, <3>2, <3>3, <3>4 DEF KindInv
  <2>2. /\ marker[d0] = "absent" => saved[d0] = {}
        /\ d0 \notin overlaps' =>
              /\ ~(Claims(d0, "bolt") /\ Claims(d0, "fs"))
              /\ \A v \in Users :
                    Dirs!Dir(v) = d0 /\ user[v].at = "read-marker" /\ user[v].goal = "remote" =>
                       ~Claims(d0, "bolt")
    BY <1>1, <2>0 DEF KindInv
  \* In a scope without overlap a "remote-init" and another operation never choose together.
  <2>3. ASSUME d0 \notin overlaps', NEW v \in Users, NEW w \in Users, Dirs!Dir(v)' = d0, Dirs!Dir(w)' = d0,
               user'[v].goal = "remote", user'[v].at \in {"read-marker", "create-marker", "write-marker"},
               user'[w].goal # "remote", user'[w].at \in {"create-marker", "write-marker"}
        PROVE  FALSE
    <3>1. d0 \in Dirs!Overlapping'
      BY <2>0, <2>3 DEF Dirs!Overlapping, Dirs!Chooses
    <3> QED BY <1>1, <2>3, <3>1
  <2>4. CASE Quiet(u)
    <3>1. UNCHANGED <<saved, marker>>
      BY <2>4, QuietGoes
    <3>2. PICK l \in AllSteps \ (Writing \cup {"done"}) :
             /\ Dirs!Goto(u, l)
             /\ l = "read-marker" /\ user[u].goal = "remote" => marker[d0] \in {"absent", "fs"}
      BY <2>4, QuietGoes
    <3>3. /\ user'[u].at = l /\ user'[u].scope = user[u].scope /\ user'[u].goal = user[u].goal
          /\ user'[u].kind = user[u].kind /\ \A v \in Users \ {u} : user'[v] = user[v]
      BY <3>2, UserGoes
    <3>4. \A k : Claims(d0, k)' => Claims(d0, k)
      BY <3>1, <3>2, <3>3 DEF Claims, Dirs!Dir, Writing
    <3>5. ASSUME d0 \notin overlaps', l = "read-marker", user[u].goal = "remote", Claims(d0, "bolt")'
          PROVE  FALSE
      <4>1. CASE marker[d0] = "fs"
        <5>1. Claims(d0, "fs")
          BY <4>1 DEF Claims
        <5> QED BY <2>2, <3>4, <3>5, <5>1
      <4>2. CASE marker[d0] = "absent"
        <5>1. PICK v \in Users : Dirs!Dir(v)' = d0 /\ user'[v].at \in Writing /\ user'[v].kind = "bolt"
          BY <2>2, <3>1, <3>5, <4>2 DEF Claims
        <5>2. v # u /\ user'[v] = user[v] /\ Dirs!Dir(v) = d0
          BY <3>2, <3>3, <5>1 DEF Dirs!Dir
        <5>3. user[v].at = "create-marker" /\ user[v].goal # "remote"
          BY <4>2, <5>1, <5>2 DEF MarkerInv, Writing
        <5>4. Dirs!Dir(u)' = d0
          BY <3>3 DEF Dirs!Dir
        <5> QED BY <2>3, <3>3, <3>5, <5>1, <5>2, <5>3, <5>4
      <4> QED BY <3>2, <3>5, <4>1, <4>2
    <3>6. ASSUME d0 \notin overlaps', NEW v \in Users, Dirs!Dir(v)' = d0, user'[v].at = "read-marker",
                 user'[v].goal = "remote"
          PROVE  ~Claims(d0, "bolt")'
      <4>1. CASE v = u
        BY <3>3, <3>5, <3>6, <4>1
      <4>2. CASE v # u
        BY <2>2, <3>3, <3>4, <3>6, <4>2 DEF Dirs!Dir
      <4> QED BY <4>1, <4>2
    <3> QED BY <2>2, <3>1, <3>4, <3>6
  <2>5. CASE Dirs!Rename(u) /\ ~UNCHANGED <<exists, saved, marker>>
    <3>1. d0 \notin exists /\ Dirs!Goto(u, "mkdir") /\ marker'[d0] = "bolt" /\ saved'[d0] = {Dirs!Old}
      BY <2>0, <2>5, Renamed
    <3>2. /\ user'[u].at = "mkdir" /\ user'[u].scope = user[u].scope
          /\ \A v \in Users \ {u} : user'[v] = user[v]
      BY <3>1, UserGoes DEF AllSteps, Finding
    <3>3. \A v \in Users : Dirs!Dir(v)' = d0 => user'[v].at \notin Inside
      BY <3>1, <3>2 DEF PlaceInv, Dirs!Dir, Inside
    <3>4. ~Claims(d0, "fs")'
      BY <3>1, <3>3 DEF Claims, Dirs!Old, Inside, Writing
    <3> QED BY <3>1, <3>3, <3>4 DEF Inside
  <2>6. CASE (Dirs!Rename(u) /\ UNCHANGED <<exists, saved, marker>>) \/ Dirs!MkdirAll(u)
    <3>1. PICK l \in {"failed", "mkdir", "identity"} : Dirs!Goto(u, l)
      BY <2>6, Renamed DEF Dirs!MkdirAll
    <3>2. /\ user'[u].at = l /\ user'[u].scope = user[u].scope
          /\ \A v \in Users \ {u} : user'[v] = user[v]
      BY <3>1, UserGoes DEF AllSteps, Finding, Inside
    <3>3. UNCHANGED <<saved, marker>>
      BY <2>6 DEF Dirs!MkdirAll
    <3>4. \A k : Claims(d0, k)' => Claims(d0, k)
      BY <3>1, <3>2, <3>3 DEF Claims, Dirs!Dir, Writing
    <3> QED BY <2>2, <3>1, <3>2, <3>3, <3>4 DEF Dirs!Dir
  <2>7. CASE Dirs!ReadMarker(u)
    <3>1. /\ UNCHANGED <<saved, marker>> /\ user[u].at = "read-marker"
          /\ user'[u].scope = user[u].scope /\ user'[u].goal = user[u].goal
          /\ \A v \in Users \ {u} : user'[v] = user[v]
      BY <2>7, MarkerRead
    <3>2. CASE marker[d0] # "absent"
      <4>1. \/ user'[u].at = "failed"
            \/ marker[d0] \in {"bolt", "fs"} /\ user'[u].at = "work" /\ user'[u].kind = marker[d0]
        BY <2>7, <3>2, MarkerRead
      <4>2. d0 \notin overlaps' /\ user'[u].at = "work" /\ user[u].goal = "remote" => marker[d0] = "fs"
        BY <2>2, <3>1, <4>1 DEF Claims
      <4>3. ASSUME d0 \notin overlaps', NEW k \in {"bolt", "fs"}, Claims(d0, k)' PROVE Claims(d0, k)
        BY <3>1, <4>1, <4>2, <4>3 DEF Claims, Dirs!Dir, Writing
      <4> QED BY <2>2, <3>1, <4>1, <4>3 DEF Dirs!Dir
    <3>3. CASE marker[d0] = "absent"
      <4>1. /\ user'[u].at = "create-marker"
            /\ user'[u].kind = IF user[u].goal = "remote" THEN "fs" ELSE "bolt"
            /\ Dirs!Dir(u)' = d0
        BY <2>7, <3>3, MarkerRead DEF Dirs!Dir
      <4>2. ASSUME NEW k \in {"bolt", "fs"}, Claims(d0, k)'
            PROVE  \E v \in Users : /\ Dirs!Dir(v)' = d0 /\ user'[v].at = "create-marker"
                                    /\ k = IF user'[v].goal = "remote" THEN "fs" ELSE "bolt"
        <5>1. \A v \in Users : Dirs!Dir(v)' = d0 => user'[v].at \notin {"write-marker", "work", "done"}
          BY <3>1, <3>3, <4>1 DEF MarkerInv, Dirs!Dir
        <5>2. PICK v \in Users : Dirs!Dir(v)' = d0 /\ user'[v].at = "create-marker" /\ user'[v].kind = k
          BY <2>2, <3>1, <3>3, <4>2, <5>1 DEF Claims, Writing
        <5>3. k = IF user'[v].goal = "remote" THEN "fs" ELSE "bolt"
          BY <3>1, <4>1, <5>2 DEF MarkerInv
        <5> QED BY <5>2, <5>3
      <4>3. d0 \notin overlaps' => ~(Claims(d0, "bolt")' /\ Claims(d0, "fs")')
        BY <2>3, <4>2
      <4>4. ASSUME d0 \notin overlaps', NEW v \in Users, Dirs!Dir(v)' = d0, user'[v].at = "read-marker",
                   user'[v].goal = "remote"
            PROVE  ~Claims(d0, "bolt")'
        BY <2>3, <4>2, <4>4
      <4> QED BY <2>2, <3>1, <4>3, <4>4
    <3> QED BY <3>2, <3>3
  <2>8. CASE Dirs!CreateMarker(u) \/ Dirs!WriteMarker(u) \/ Dirs!Work(u)
    <3>1. PICK l \in {"write-marker", "work", "done"} :
             /\ Dirs!Goto(u, l)
             /\ user[u].at = IF l = "write-marker" THEN "create-marker"
                             ELSE IF l = "work" THEN "write-marker" ELSE "work"
             /\ marker'[d0] \in {"torn", user[u].kind, marker[d0]}
             /\ marker'[d0] = "absent" => marker[d0] = "absent"
             /\ saved'[d0] \subseteq saved[d0] \cup {<<u, user[u].kind>>}
      BY <2>0, <2>8 DEF Dirs!CreateMarker, Dirs!WriteMarker, Dirs!Work, DirectoryTypeOK
    <3>2. /\ user'[u].at = l /\ user'[u].scope = user[u].scope /\ user'[u].goal = user[u].goal
          /\ user'[u].kind = user[u].kind /\ \A v \in Users \ {u} : user'[v] = user[v]
      BY <3>1, UserGoes DEF AllSteps, Inside
    <3>3. marker'[d0] # "absent"
      BY <2>0, <2>8, <3>1 DEF MarkerInv, Dirs!CreateMarker, Dirs!WriteMarker, Dirs!Work, DirectoryTypeOK
    <3>4. Claims(d0, user[u].kind)
      BY <3>1 DEF Claims, Writing
    <3>5. user[u].goal = "remote" /\ l \in {"work", "done"} => Claims(d0, "fs")
      <4>1. CASE l = "work"
        BY <3>1, <3>4, <4>1 DEF MarkerInv
      <4>2. CASE l = "done"
        BY <3>1, <4>2 DEF Claims
      <4> QED BY <4>1, <4>2
    <3>6. ASSUME NEW k \in {"bolt", "fs"}, Claims(d0, k)' PROVE Claims(d0, k)
      <4>1. CASE \E s \in saved'[d0] : s[2] = k
        BY <3>1, <3>4, <4>1 DEF Claims
      <4>2. CASE marker'[d0] = k
        BY <3>1, <3>4, <4>2 DEF Claims
      <4>3. CASE \E v \in Users : Dirs!Dir(v)' = d0 /\ user'[v].at \in Writing /\ user'[v].kind = k
        BY <3>2, <3>4, <4>3 DEF Claims, Dirs!Dir
      <4>4. CASE k = "fs" /\ \E v \in Users :
                    Dirs!Dir(v)' = d0 /\ user'[v].goal = "remote" /\ user'[v].at \in {"work", "done"}
        BY <3>2, <3>5, <4>4 DEF Claims, Dirs!Dir
      <4> QED BY <3>6, <4>1, <4>2, <4>3, <4>4 DEF Claims
    <3> QED BY <2>2, <3>1, <3>2, <3>3, <3>6 DEF Dirs!Dir
  <2> QED BY <1>1, <2>4, <2>5, <2>6, <2>7, <2>8 DEF UserStep
<1>2. CASE UNCHANGED directoryVars
  BY <1>2 DEF directoryVars, KindInv, Claims, Dirs!Overlapping, Dirs!Chooses, Dirs!Dir
<1> QED BY <1>1, <1>2, NextSteps

LEMMA DirectoryInvInit == Dirs!Init => DirectoryInv
<1> SUFFICES ASSUME Dirs!Init PROVE DirectoryInv
  OBVIOUS
<1>1. DirectoryTypeOK
  BY DEF Dirs!Init, DirectoryTypeOK, Finding, Dirs!Old, Dirs!Goals
<1>2. PlaceInv
  BY DEF Dirs!Init, PlaceInv, Inside, Dirs!At, Dirs!Places
<1>3. HistoryInv
  <2>1. OldPlaces = found
    BY DEF Dirs!Init, OldPlaces
  <2> QED BY <2>1 DEF Dirs!Init, HistoryInv
<1>4. MarkerInv
  BY DEF Dirs!Init, MarkerInv
<1>5. KindInv
  BY DEF Dirs!Init, KindInv, Claims, Writing, Dirs!Overlapping, Dirs!Chooses, Dirs!At, Dirs!Old,
     Dirs!Places
<1> QED BY <1>1, <1>2, <1>3, <1>4, <1>5 DEF DirectoryInv

LEMMA DirectoryInvInductive == DirectoryInv /\ [Dirs!Next]_directoryVars => DirectoryInv'
  BY DirectoryTypeStep, PlaceStep, HistoryStep, MarkerStep, KindStep DEF DirectoryInv

LEMMA SameCardinality == ASSUME NEW S PROVE Dirs!Cardinality(S) = Cardinality(S)
  BY DEF Dirs!Cardinality, Cardinality

LEMMA DirectoryInvIsEnough == DirectoryInv => Dirs!DirectoryIsSound
<1> SUFFICES ASSUME DirectoryInv PROVE Dirs!DirectoryIsSound
  OBVIOUS
<1>1. Dirs!LegacyIsTaken
  BY SameCardinality DEF DirectoryInv, HistoryInv, OldPlaces, Dirs!LegacyIsTaken
<1>2. ASSUME NEW d \in Scopes \ overlaps
      PROVE  /\ \A s \in saved[d] : marker[d] \in {s[2], "torn"}
             /\ \A u \in Users : Dirs!Dir(u) = d /\ Dirs!At(u, "done") /\ user[u].goal = "remote" =>
                   marker[d] \in {"fs", "torn"}
  <2>0. /\ d \in Dirs!Places /\ marker[d] \in {"absent", "torn", "bolt", "fs"}
        /\ marker[d] = "absent" => saved[d] = {}
        /\ \A s \in saved[d] : s[2] \in {"bolt", "fs"}
    BY DEF DirectoryInv, DirectoryTypeOK, KindInv, Dirs!Places
  <2>1. ~(Claims(d, "bolt") /\ Claims(d, "fs"))
    BY DEF DirectoryInv, KindInv
  <2>2. \A s \in saved[d] : marker[d] \in {s[2], "torn"}
    BY <2>0, <2>1 DEF Claims
  <2>3. ASSUME NEW u \in Users, Dirs!Dir(u) = d, Dirs!At(u, "done"), user[u].goal = "remote"
        PROVE  marker[d] \in {"fs", "torn"}
    BY <2>0, <2>1, <2>3 DEF Claims, Dirs!At, DirectoryInv, MarkerInv
  <2> QED BY <2>2, <2>3
<1>3. Dirs!BackendIsOne
  BY <1>2 DEF Dirs!BackendIsOne
<1> QED BY <1>1, <1>3 DEF Dirs!DirectoryIsSound

\* The first operation of a scope takes over the history of an older version, once
\* and whole, and what is saved is in the backend that later operations open - whoever
\* else starts, fails or dies, unless a "remote-init" and another first user overlap.
THEOREM DirectoryIsSoundAlways == EntrySpec => []DirectoryIsSound
<1>1. EntryInit => DirectoryInv
  BY DirectoryInvInit DEF EntryInit
<1>2. DirectoryInv /\ [EntryNext]_entryVars => DirectoryInv'
  <2>1. [EntryNext]_entryVars => [Dirs!Next]_directoryVars
    BY DEF EntryNext, entryVars
  <2> QED BY <2>1, DirectoryInvInductive
<1>3. DirectoryInv => DirectoryIsSound
  BY DirectoryInvIsEnough DEF DirectoryIsSound
<1> QED BY <1>1, <1>2, <1>3, PTL DEF EntrySpec
=============================================================================
