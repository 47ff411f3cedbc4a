------------------------- MODULE SnapshotScopeProofs -------------------------
(***************************************************************************)
(* What holds of a scope for any number of processes, snapshots,           *)
(* collections and documents, whatever fails or dies; and, in the second   *)
(* half, of the scans that fill it and the diffs that read it, for any     *)
(* number of workers, any collections and any sizes of runs and batches.   *)
(***************************************************************************)
EXTENDS SnapshotScope, LiveDiff, FiniteSetTheorems, TLAPS

CreateLabels == {"scan", "refs", "manifest", "publish"}
TagLabels    == {"label", "tagIndex"}
GCLabels     == {"recover", "recoverRefs", "prune", "pruneRefs", "mark", "sweep"}

\* Each process runs the code of its operation, on a snapshot that exists.
JobInv ==
    \A p \in Procs :
        /\ pc[p] \in {"idle", "dead"} <=> job[p].op = "none"
        /\ pc[p] \in CreateLabels => job[p].op = "create"
        /\ pc[p] \in TagLabels => job[p].op = "tag" /\ job[p].id \in Ids
        /\ pc[p] \in GCLabels => job[p].op = "gc"
        /\ job[p].op = "create" => job[p].id \in Ids
        /\ pc[p] = "refs" => job[p].coll \in Colls
        /\ p \notin alive => pc[p] = "dead"

TypeInv == TypeOK /\ JobInv



\* What an operation assigns to its local variables is of their types.
LEMMA JobTypeStep == TypeInv /\ [Next]_vars => job' \in [Procs -> Job]
<1> SUFFICES ASSUME TypeInv, [Next]_vars PROVE job' \in [Procs -> Job]
  OBVIOUS
<1>1. /\ job \in [Procs -> Job]
      /\ index \in Index
      /\ manifests \subseteq Ids
      /\ objects \subseteq Hashes
      /\ nextId \in 1..MaxSnaps + 1
  BY DEF TypeInv, TypeOK
<1>2. \A p \in Procs, r \in Job : [job EXCEPT ![p] = r] \in [Procs -> Job]
  BY <1>1
<1>3. NoJob \in Job
  BY ScopeAssumption DEF NoJob, NoIndex, Job, Index
<1>4. ASSUME NEW p \in Procs, BeginCreate(p) PROVE job' \in [Procs -> Job]
  <2>1. [NoJob EXCEPT !.op = "create", !.id = nextId] \in Job
    BY <1>3, <1>4 DEF BeginCreate, Job
  <2> QED BY <1>2, <1>4, <2>1 DEF BeginCreate
<1>5. ASSUME NEW p \in Procs, BeginTag(p) \/ BeginGC(p) PROVE job' \in [Procs -> Job]
  <2>1. /\ [NoJob EXCEPT !.op = "tag"] \in Job
        /\ [NoJob EXCEPT !.op = "gc"] \in Job
    BY <1>3 DEF Job
  <2> QED BY <1>2, <1>5, <2>1 DEF BeginTag, BeginGC
<1>6. ASSUME NEW p \in Procs, WriteDocRefs(p) PROVE job' \in [Procs -> Job]
  <2>1. [job[p] EXCEPT !.coll = @ + 1] \in Job
    BY <1>1, <1>6, ScopeAssumption DEF WriteDocRefs, Job, TypeInv, JobInv, Colls, Goto
  <2> QED BY <1>2, <1>6, <2>1 DEF WriteDocRefs
<1>7. ASSUME NEW p \in Procs, LoadForPublish(p) PROVE job' \in [Procs -> Job]
  <2>1. [job[p] EXCEPT !.view = index] \in Job
    BY <1>1 DEF Job
  <2> QED BY <1>2, <1>7, <2>1 DEF LoadForPublish
<1>8. ASSUME NEW p \in Procs, LoadForTag(p) PROVE job' \in [Procs -> Job]
  <2>1. PICK i \in manifests : job' = [job EXCEPT ![p].view = index, ![p].id = i]
    BY <1>8 DEF LoadForTag
  <2>2. [job[p] EXCEPT !.view = index, !.id = i] \in Job
    BY <1>1 DEF Job
  <2> QED BY <1>1, <1>2, <2>1, <2>2
<1>9. ASSUME NEW p \in Procs, LoadForGC(p) PROVE job' \in [Procs -> Job]
  <2>1. [job[p] EXCEPT !.view = index, !.doomed = manifests \ index.ids] \in Job
    BY <1>1 DEF Job
  <2> QED BY <1>1, <1>2, <1>9, <2>1 DEF LoadForGC
<1>10. ASSUME NEW p \in Procs, RecoverManifest(p) \/ PruneManifest(p)
       PROVE  job' \in [Procs -> Job]
  <2>1. PICK i \in job[p].doomed : job' = [job EXCEPT ![p].id = i]
    BY <1>10 DEF RecoverManifest, PruneManifest, RemoveManifest
  <2>2. [job[p] EXCEPT !.id = i] \in Job
    BY <1>1 DEF Job
  <2> QED BY <1>2, <2>1, <2>2
<1>11. ASSUME NEW p \in Procs, RecoverDocRefs(p) \/ PruneDocRefs(p)
       PROVE  job' \in [Procs -> Job]
  <2>1. [job[p] EXCEPT !.doomed = @ \ {job[p].id}] \in Job
    BY <1>1 DEF Job
  <2> QED BY <1>2, <1>11, <2>1 DEF RecoverDocRefs, PruneDocRefs, DeleteDocRefs
<1>12. ASSUME NEW p \in Procs, DecideKept(p) PROVE job' \in [Procs -> Job]
  <2>1. PICK last \in SUBSET job[p].view.ids :
           job' = [job EXCEPT ![p].view.ids = last \cup job[p].view.tagged,
                              ![p].doomed = job[p].view.ids
                                            \ (last \cup job[p].view.tagged)]
    BY <1>12 DEF DecideKept
  <2>2. [job[p].view EXCEPT !.ids = last \cup job[p].view.tagged] \in Index
    BY <1>1 DEF Job, Index
  <2>3. [job[p] EXCEPT !.view.ids = last \cup job[p].view.tagged,
                       !.doomed = job[p].view.ids
                                  \ (last \cup job[p].view.tagged)] \in Job
    BY <1>1, <2>2 DEF Job, Index
  <2> QED BY <1>1, <1>2, <2>1, <2>3
<1>13. ASSUME NEW p \in Procs, Mark(p) PROVE job' \in [Procs -> Job]
  <2>1. [job[p] EXCEPT !.sweep = objects \ Referenced(job[p].view.ids)] \in Job
    BY <1>1 DEF Job
  <2> QED BY <1>2, <1>13, <2>1 DEF Mark
<1>14. ASSUME NEW p \in Procs, SweepObject(p) PROVE job' \in [Procs -> Job]
  <2>1. PICK h \in job[p].sweep : job' = [job EXCEPT ![p].sweep = @ \ {h}]
    BY <1>14 DEF SweepObject
  <2>2. [job[p] EXCEPT !.sweep = @ \ {h}] \in Job
    BY <1>1 DEF Job
  <2> QED BY <1>2, <2>1, <2>2
<1>15. ASSUME NEW p \in Procs, Finish(p) \/ Fail(p) \/ Die(p)
       PROVE  job' \in [Procs -> Job]
  BY <1>2, <1>3, <1>15 DEF Finish, Fail, Return, Die
<1>16. CASE UNCHANGED job
  BY <1>1, <1>16
<1> QED
  BY <1>4, <1>5, <1>6, <1>7, <1>8, <1>9, <1>10, <1>11, <1>12, <1>13, <1>14,
     <1>15, <1>16
     DEF Next, CreateStep, TagStep, GCStep, LockStep, PutObjects, StampManifest,
         SaveManifest, Publish, AlreadyTagged, LabelManifest, TagIndex,
         SavePrunedIndex, SweepDone, TakeScopeLock, ReclaimScopeLock, vars

\* The shared variables keep their types.
LEMMA TypeStep == TypeInv /\ [Next]_vars => TypeOK'
<1> SUFFICES ASSUME TypeInv, [Next]_vars PROVE TypeOK'
  OBVIOUS
<1>0. job' \in [Procs -> Job]
  BY JobTypeStep
<1> USE ScopeAssumption DEF TypeInv, JobInv, TypeOK, Index, Labels, Ids, Colls, Goto, diskVars,
                        CreateLabels, TagLabels, GCLabels
<1>1. ASSUME NEW p \in Procs, BeginCreate(p) PROVE TypeOK'
  BY <1>0, <1>1 DEF BeginCreate, OpenStore
<1>2. ASSUME NEW p \in Procs, PutObjects(p) PROVE TypeOK'
  BY <1>0, <1>2 DEF PutObjects
<1>3. ASSUME NEW p \in Procs, WriteDocRefs(p) PROVE TypeOK'
  BY <1>0, <1>3 DEF WriteDocRefs
<1>4. ASSUME NEW p \in Procs, StampManifest(p) PROVE TypeOK'
  BY <1>0, <1>4 DEF StampManifest
<1>5. ASSUME NEW p \in Procs, SaveManifest(p) PROVE TypeOK'
  BY <1>0, <1>5 DEF SaveManifest
<1>6. ASSUME NEW p \in Procs, LoadForPublish(p) PROVE TypeOK'
  BY <1>0, <1>6 DEF LoadForPublish
<1>7. ASSUME NEW p \in Procs, Publish(p) PROVE TypeOK'
  <2>1. job[p].view \in Index /\ job[p].id \in Ids
    BY <1>7 DEF Publish, Job
  <2>2. [job[p].view EXCEPT !.ids = job[p].view.ids \cup {job[p].id}] \in Index
    BY <2>1
  <2> QED BY <1>0, <1>7, <2>2 DEF Publish
<1>8. ASSUME NEW p \in Procs, BeginTag(p) PROVE TypeOK'
  BY <1>0, <1>8 DEF BeginTag
<1>9. ASSUME NEW p \in Procs, LoadForTag(p) PROVE TypeOK'
  BY <1>0, <1>9 DEF LoadForTag
<1>10. ASSUME NEW p \in Procs, AlreadyTagged(p) PROVE TypeOK'
  BY <1>0, <1>10 DEF AlreadyTagged
<1>11. ASSUME NEW p \in Procs, LabelManifest(p) PROVE TypeOK'
  BY <1>0, <1>11 DEF LabelManifest
<1>12. ASSUME NEW p \in Procs, TagIndex(p) PROVE TypeOK'
  <2>1. job[p].view \in Index /\ job[p].id \in Ids
    BY <1>12 DEF TagIndex, Job
  <2>2. [job[p].view EXCEPT !.tagged = job[p].view.tagged \cup {job[p].id}] \in Index
    BY <2>1
  <2> QED BY <1>0, <1>12, <2>2 DEF TagIndex
<1>13. ASSUME NEW p \in Procs, BeginGC(p) PROVE TypeOK'
  BY <1>0, <1>13 DEF BeginGC, OpenStore
<1>14. ASSUME NEW p \in Procs, LoadForGC(p) PROVE TypeOK'
  BY <1>0, <1>14 DEF LoadForGC
<1>15. ASSUME NEW p \in Procs, RecoverManifest(p) PROVE TypeOK'
  BY <1>0, <1>15 DEF RecoverManifest, RemoveManifest
<1>16. ASSUME NEW p \in Procs, PruneManifest(p) PROVE TypeOK'
  BY <1>0, <1>16 DEF PruneManifest, RemoveManifest
<1>17. ASSUME NEW p \in Procs, RecoverDocRefs(p) PROVE TypeOK'
  BY <1>0, <1>17 DEF RecoverDocRefs, DeleteDocRefs
<1>18. ASSUME NEW p \in Procs, PruneDocRefs(p) PROVE TypeOK'
  BY <1>0, <1>18 DEF PruneDocRefs, DeleteDocRefs
<1>19. ASSUME NEW p \in Procs, DecideKept(p) PROVE TypeOK'
  BY <1>0, <1>19 DEF DecideKept
<1>20. ASSUME NEW p \in Procs, SavePrunedIndex(p) PROVE TypeOK'
  BY <1>0, <1>20 DEF SavePrunedIndex, Job
<1>21. ASSUME NEW p \in Procs, Mark(p) PROVE TypeOK'
  BY <1>0, <1>21 DEF Mark
<1>22. ASSUME NEW p \in Procs, SweepObject(p) PROVE TypeOK'
  BY <1>0, <1>22 DEF SweepObject
<1>23. ASSUME NEW p \in Procs, SweepDone(p) PROVE TypeOK'
  BY <1>0, <1>23 DEF SweepDone
<1>24. ASSUME NEW p \in Procs, TakeScopeLock(p) PROVE TypeOK'
  BY <1>0, <1>24 DEF TakeScopeLock, Mutex!Acquire
<1>25. ASSUME NEW p \in Procs, ReclaimScopeLock(p) PROVE TypeOK'
  BY <1>0, <1>25 DEF ReclaimScopeLock, Mutex!Reclaim
<1>26. ASSUME NEW p \in Procs, Finish(p) \/ Fail(p) PROVE TypeOK'
  BY <1>0, <1>26 DEF Finish, Fail, Return
<1>27. ASSUME NEW p \in Procs, Die(p) PROVE TypeOK'
  BY <1>0, <1>27 DEF Die, Mutex!Die
<1>28. CASE UNCHANGED vars
  BY <1>0, <1>28 DEF vars
<1> QED
  BY <1>1, <1>2, <1>3, <1>4, <1>5, <1>6, <1>7, <1>8, <1>9, <1>10, <1>11, <1>12, <1>13, <1>14, <1>15, <1>16, <1>17, <1>18, <1>19, <1>20, <1>21, <1>22, <1>23, <1>24, <1>25, <1>26, <1>27, <1>28
     DEF Next, CreateStep, TagStep, GCStep, LockStep

\* Control stays inside the operation a process is running.
LEMMA JobInvStep == TypeInv /\ [Next]_vars => JobInv'
<1> SUFFICES ASSUME TypeInv, [Next]_vars PROVE JobInv'
  OBVIOUS
<1> USE ScopeAssumption DEF TypeInv, JobInv, TypeOK, Job, Ids, Colls, Goto, diskVars,
                        CreateLabels, TagLabels, GCLabels
<1>1. ASSUME NEW p \in Procs, BeginCreate(p) PROVE JobInv'
  BY <1>1 DEF BeginCreate, OpenStore, NoJob, NoIndex
<1>2. ASSUME NEW p \in Procs, PutObjects(p) PROVE JobInv'
  BY <1>2 DEF PutObjects
<1>3. ASSUME NEW p \in Procs, WriteDocRefs(p) PROVE JobInv'
  BY <1>3 DEF WriteDocRefs
<1>4. ASSUME NEW p \in Procs, StampManifest(p) PROVE JobInv'
  BY <1>4 DEF StampManifest
<1>5. ASSUME NEW p \in Procs, SaveManifest(p) PROVE JobInv'
  BY <1>5 DEF SaveManifest
<1>6. ASSUME NEW p \in Procs, LoadForPublish(p) PROVE JobInv'
  BY <1>6 DEF LoadForPublish
<1>7. ASSUME NEW p \in Procs, Publish(p) PROVE JobInv'
  BY <1>7 DEF Publish
<1>8. ASSUME NEW p \in Procs, BeginTag(p) PROVE JobInv'
  BY <1>8 DEF BeginTag, NoJob, NoIndex
<1>9. ASSUME NEW p \in Procs, LoadForTag(p) PROVE JobInv'
  BY <1>9 DEF LoadForTag
<1>10. ASSUME NEW p \in Procs, AlreadyTagged(p) PROVE JobInv'
  BY <1>10 DEF AlreadyTagged
<1>11. ASSUME NEW p \in Procs, LabelManifest(p) PROVE JobInv'
  BY <1>11 DEF LabelManifest
<1>12. ASSUME NEW p \in Procs, TagIndex(p) PROVE JobInv'
  BY <1>12 DEF TagIndex
<1>13. ASSUME NEW p \in Procs, BeginGC(p) PROVE JobInv'
  BY <1>13 DEF BeginGC, OpenStore, NoJob, NoIndex
<1>14. ASSUME NEW p \in Procs, LoadForGC(p) PROVE JobInv'
  BY <1>14 DEF LoadForGC
<1>15. ASSUME NEW p \in Procs, RecoverManifest(p) PROVE JobInv'
  BY <1>15 DEF RecoverManifest, RemoveManifest
<1>16. ASSUME NEW p \in Procs, PruneManifest(p) PROVE JobInv'
  BY <1>16 DEF PruneManifest, RemoveManifest
<1>17. ASSUME NEW p \in Procs, RecoverDocRefs(p) PROVE JobInv'
  BY <1>17 DEF RecoverDocRefs, DeleteDocRefs
<1>18. ASSUME NEW p \in Procs, PruneDocRefs(p) PROVE JobInv'
  BY <1>18 DEF PruneDocRefs, DeleteDocRefs
<1>19. ASSUME NEW p \in Procs, DecideKept(p) PROVE JobInv'
  BY <1>19 DEF DecideKept
<1>20. ASSUME NEW p \in Procs, SavePrunedIndex(p) PROVE JobInv'
  BY <1>20 DEF SavePrunedIndex
<1>21. ASSUME NEW p \in Procs, Mark(p) PROVE JobInv'
  BY <1>21 DEF Mark
<1>22. ASSUME NEW p \in Procs, SweepObject(p) PROVE JobInv'
  BY <1>22 DEF SweepObject
<1>23. ASSUME NEW p \in Procs, SweepDone(p) PROVE JobInv'
  BY <1>23 DEF SweepDone
<1>24. ASSUME NEW p \in Procs, TakeScopeLock(p) PROVE JobInv'
  BY <1>24 DEF TakeScopeLock, Mutex!Acquire
<1>25. ASSUME NEW p \in Procs, ReclaimScopeLock(p) PROVE JobInv'
  BY <1>25 DEF ReclaimScopeLock, Mutex!Reclaim
<1>26. ASSUME NEW p \in Procs, Finish(p) \/ Fail(p) PROVE JobInv'
  BY <1>26 DEF Finish, Fail, Return, NoJob, NoIndex
<1>27. ASSUME NEW p \in Procs, Die(p) PROVE JobInv'
  BY <1>27 DEF Die, Mutex!Die, NoJob, NoIndex
<1>28. CASE UNCHANGED vars
  BY <1>28 DEF vars
<1> QED
  BY <1>1, <1>2, <1>3, <1>4, <1>5, <1>6, <1>7, <1>8, <1>9, <1>10, <1>11, <1>12, <1>13, <1>14, <1>15, <1>16, <1>17, <1>18, <1>19, <1>20, <1>21, <1>22, <1>23, <1>24, <1>25, <1>26, <1>27, <1>28
     DEF Next, CreateStep, TagStep, GCStep, LockStep

LEMMA TypeInvInit == Init => TypeInv
  BY ScopeAssumption DEF Init, TypeInv, TypeOK, JobInv, Index, Job, Labels, Ids,
     Colls, NoJob, NoIndex, Mutex!MutexInit, CreateLabels, TagLabels, GCLabels

LEMMA TypeInvInductive == TypeInv /\ [Next]_vars => TypeInv'
  BY TypeStep, JobInvStep DEF TypeInv

\* Every variable keeps its type.
THEOREM TypeCorrect == Spec => []TypeOK
  BY TypeInvInit, TypeInvInductive, PTL DEF Spec, TypeInv

-----------------------------------------------------------------------------
\* The steps of withScopeLock's critical section.
Inside == {"load", "publish", "label", "tagIndex", "recover", "recoverRefs",
           "prune", "pruneRefs", "mark", "sweep", "unlock"}

\* The scope lock guards the critical sections, so the copy of the index that
\* an operation loaded is the index until the operation itself saves it.
LockInv ==
    /\ index.tagged \subseteq index.ids
    /\ \A p \in Procs :
        /\ pc[p] \in Inside => holder = p
        /\ pc[p] \in {"publish", "label", "tagIndex", "recover", "recoverRefs",
                      "mark", "sweep"} => job[p].view = index
        /\ pc[p] \in TagLabels => job[p].id \in index.ids
        /\ pc[p] \in {"prune", "pruneRefs"} =>
              /\ job[p].view.tagged = index.tagged
              /\ index.tagged \subseteq job[p].view.ids
              /\ job[p].view.ids \subseteq index.ids

\* The bolt file's lock admits one Create or GC at a time, from its start.
StoreInv == \A p \in Procs : job[p].op \in {"create", "gc"} => storeLock = p

\* What a Create has stored so far; the index does not show it before the end.
CreateInv ==
    /\ \A i \in index.ids : i < nextId
    /\ \A p \in Procs : job[p].op = "create" =>
          /\ job[p].id < nextId
          /\ job[p].id \in index.ids <=> pc[p] = "unlock"
          /\ \A c \in Colls : c < job[p].coll =>
                /\ <<job[p].id, c>> \in docrefs
                /\ scanned[job[p].id][c] \subseteq objects
          /\ pc[p] = "refs" => scanned[job[p].id][job[p].coll] \subseteq objects
          /\ pc[p] \notin {"scan", "refs"} => job[p].coll = NumColls + 1
          /\ pc[p] \in {"lock", "load", "publish", "unlock"} =>
                job[p].id \in manifests

\* What GC deletes: never a tagged snapshot, never doc-ref lists that still have
\* their manifest, never an object that a listed snapshot needs.
GCInv ==
    \A p \in Procs :
        /\ pc[p] \in {"recover", "recoverRefs"} =>
              job[p].doomed \cap index.ids = {}
        /\ pc[p] \in {"prune", "pruneRefs"} =>
              /\ job[p].doomed \cap index.tagged = {}
              /\ manifests \cap (index.ids \ job[p].view.ids) \subseteq job[p].doomed
        /\ pc[p] \in {"recoverRefs", "pruneRefs"} => job[p].id \notin manifests
        /\ pc[p] = "sweep" =>
              \A i \in index.ids, c \in Colls : scanned[i][c] \cap job[p].sweep = {}

\* A tag goes to a snapshot that has its manifest, into the manifest first.
TagInv ==
    \A p \in Procs :
        /\ pc[p] \in TagLabels => job[p].id \in manifests
        /\ pc[p] = "tagIndex" => job[p].id \in labelled

TagsKept == index.tagged \subseteq manifests \cap labelled

ScopeInv == /\ LockInv /\ StoreInv /\ CreateInv /\ GCInv /\ TagInv
            /\ TagsKept /\ ListedIsComplete

-----------------------------------------------------------------------------
\* What DecideKept does, without its records.
LEMMA DecideKeptEffect ==
  ASSUME TypeOK, NEW p \in Procs, DecideKept(p)
  PROVE  /\ pc[p] = "recover"
         /\ pc' = [pc EXCEPT ![p] = "prune"]
         /\ \A q \in Procs \ {p} : job'[q] = job[q]
         /\ job'[p].op = job[p].op
         /\ job'[p].view.tagged = job[p].view.tagged
         /\ job[p].view.tagged \subseteq job'[p].view.ids
         /\ job'[p].view.ids \subseteq job[p].view.ids \cup job[p].view.tagged
         /\ job'[p].doomed = job[p].view.ids \ job'[p].view.ids
         /\ UNCHANGED <<diskVars, nextId, storeLock, holder, alive>>
<1>1. PICK last \in SUBSET job[p].view.ids :
         job' = [job EXCEPT ![p].view.ids = last \cup job[p].view.tagged,
                            ![p].doomed = job[p].view.ids
                                          \ (last \cup job[p].view.tagged)]
  BY DEF DecideKept
<1>2. /\ job'[p] = [job[p] EXCEPT !.view.ids = last \cup job[p].view.tagged,
                                  !.doomed = job[p].view.ids
                                             \ (last \cup job[p].view.tagged)]
      /\ \A q \in Procs \ {p} : job'[q] = job[q]
  BY <1>1 DEF TypeOK
<1>3. job[p] \in Job
  BY DEF TypeOK
<1>4. /\ job'[p].op = job[p].op
      /\ job'[p].view = [job[p].view EXCEPT !.ids = last \cup job[p].view.tagged]
      /\ job'[p].doomed = job[p].view.ids \ (last \cup job[p].view.tagged)
  BY <1>2, <1>3 DEF Job
<1>5. /\ job'[p].view.ids = last \cup job[p].view.tagged
      /\ job'[p].view.tagged = job[p].view.tagged
  BY <1>3, <1>4 DEF Job, Index
<1> QED
  BY <1>2, <1>4, <1>5 DEF DecideKept, Goto

\* Steps preserve LockInv, whatever the backend.
LEMMA LockInvStep ==
    ASSUME TypeInv, LockInv, [Next]_vars
    PROVE  LockInv'
<1> USE ScopeAssumption DEF TypeInv, JobInv, TypeOK, LockInv, Inside, Index, Job, Goto, diskVars,
                        CreateLabels, TagLabels, GCLabels
<1>1. ASSUME NEW p \in Procs, BeginCreate(p) PROVE LockInv'
  BY <1>1 DEF BeginCreate, OpenStore
<1>2. ASSUME NEW p \in Procs, PutObjects(p) PROVE LockInv'
  BY <1>2 DEF PutObjects
<1>3. ASSUME NEW p \in Procs, WriteDocRefs(p) PROVE LockInv'
  BY <1>3 DEF WriteDocRefs
<1>4. ASSUME NEW p \in Procs, StampManifest(p) PROVE LockInv'
  BY <1>4 DEF StampManifest
<1>5. ASSUME NEW p \in Procs, SaveManifest(p) PROVE LockInv'
  BY <1>5 DEF SaveManifest
<1>6. ASSUME NEW p \in Procs, LoadForPublish(p) PROVE LockInv'
  BY <1>6 DEF LoadForPublish
<1>7. ASSUME NEW p \in Procs, Publish(p) PROVE LockInv'
  BY <1>7 DEF Publish
<1>8. ASSUME NEW p \in Procs, BeginTag(p) PROVE LockInv'
  BY <1>8 DEF BeginTag, NoJob, NoIndex
<1>9. ASSUME NEW p \in Procs, LoadForTag(p) PROVE LockInv'
  BY <1>9 DEF LoadForTag
<1>10. ASSUME NEW p \in Procs, AlreadyTagged(p) PROVE LockInv'
  BY <1>10 DEF AlreadyTagged
<1>11. ASSUME NEW p \in Procs, LabelManifest(p) PROVE LockInv'
  BY <1>11 DEF LabelManifest
<1>12. ASSUME NEW p \in Procs, TagIndex(p) PROVE LockInv'
  BY <1>12 DEF TagIndex
<1>13. ASSUME NEW p \in Procs, BeginGC(p) PROVE LockInv'
  BY <1>13 DEF BeginGC, OpenStore, NoJob, NoIndex
<1>14. ASSUME NEW p \in Procs, LoadForGC(p) PROVE LockInv'
  BY <1>14 DEF LoadForGC
<1>15. ASSUME NEW p \in Procs, RecoverManifest(p) PROVE LockInv'
  BY <1>15 DEF RecoverManifest, RemoveManifest
<1>16. ASSUME NEW p \in Procs, PruneManifest(p) PROVE LockInv'
  BY <1>16 DEF PruneManifest, RemoveManifest
<1>17. ASSUME NEW p \in Procs, RecoverDocRefs(p) PROVE LockInv'
  BY <1>17 DEF RecoverDocRefs, DeleteDocRefs
<1>18. ASSUME NEW p \in Procs, PruneDocRefs(p) PROVE LockInv'
  BY <1>18 DEF PruneDocRefs, DeleteDocRefs
<1>19. ASSUME NEW p \in Procs, DecideKept(p) PROVE LockInv'
  BY <1>19, DecideKeptEffect
<1>20. ASSUME NEW p \in Procs, SavePrunedIndex(p) PROVE LockInv'
  BY <1>20 DEF SavePrunedIndex
<1>21. ASSUME NEW p \in Procs, Mark(p) PROVE LockInv'
  BY <1>21 DEF Mark
<1>22. ASSUME NEW p \in Procs, SweepObject(p) PROVE LockInv'
  BY <1>22 DEF SweepObject
<1>23. ASSUME NEW p \in Procs, SweepDone(p) PROVE LockInv'
  BY <1>23 DEF SweepDone
<1>24. ASSUME NEW p \in Procs, TakeScopeLock(p) PROVE LockInv'
  BY <1>24 DEF TakeScopeLock, Mutex!Acquire
<1>25. ASSUME NEW p \in Procs, ReclaimScopeLock(p) PROVE LockInv'
  BY <1>25 DEF ReclaimScopeLock, Mutex!Reclaim
<1>26. ASSUME NEW p \in Procs, Finish(p) \/ Fail(p) PROVE LockInv'
  BY <1>26 DEF Finish, Fail, Return
<1>27. ASSUME NEW p \in Procs, Die(p) PROVE LockInv'
  BY <1>27 DEF Die, Mutex!Die, NoJob, NoIndex
<1>28. CASE UNCHANGED vars
  BY <1>28 DEF vars
<1> QED
  BY <1>1, <1>2, <1>3, <1>4, <1>5, <1>6, <1>7, <1>8, <1>9, <1>10, <1>11, <1>12, <1>13, <1>14, <1>15, <1>16, <1>17, <1>18, <1>19, <1>20, <1>21, <1>22, <1>23, <1>24, <1>25, <1>26, <1>27, <1>28
     DEF Next, CreateStep, TagStep, GCStep, LockStep

\* Steps preserve StoreInv.
LEMMA StoreInvStep ==
    ASSUME Backend = "bolt", TypeInv, StoreInv, [Next]_vars
    PROVE  StoreInv'
<1> USE ScopeAssumption DEF TypeInv, JobInv, TypeOK, StoreInv, Job, Goto, diskVars
<1>1. ASSUME NEW p \in Procs, BeginCreate(p) PROVE StoreInv'
  BY <1>1 DEF BeginCreate, OpenStore
<1>2. ASSUME NEW p \in Procs, PutObjects(p) PROVE StoreInv'
  BY <1>2 DEF PutObjects
<1>3. ASSUME NEW p \in Procs, WriteDocRefs(p) PROVE StoreInv'
  BY <1>3 DEF WriteDocRefs
<1>4. ASSUME NEW p \in Procs, StampManifest(p) PROVE StoreInv'
  BY <1>4 DEF StampManifest
<1>5. ASSUME NEW p \in Procs, SaveManifest(p) PROVE StoreInv'
  BY <1>5 DEF SaveManifest
<1>6. ASSUME NEW p \in Procs, LoadForPublish(p) PROVE StoreInv'
  BY <1>6 DEF LoadForPublish
<1>7. ASSUME NEW p \in Procs, Publish(p) PROVE StoreInv'
  BY <1>7 DEF Publish
<1>8. ASSUME NEW p \in Procs, BeginTag(p) PROVE StoreInv'
  BY <1>8 DEF BeginTag, NoJob, NoIndex
<1>9. ASSUME NEW p \in Procs, LoadForTag(p) PROVE StoreInv'
  BY <1>9 DEF LoadForTag
<1>10. ASSUME NEW p \in Procs, AlreadyTagged(p) PROVE StoreInv'
  BY <1>10 DEF AlreadyTagged
<1>11. ASSUME NEW p \in Procs, LabelManifest(p) PROVE StoreInv'
  BY <1>11 DEF LabelManifest
<1>12. ASSUME NEW p \in Procs, TagIndex(p) PROVE StoreInv'
  BY <1>12 DEF TagIndex
<1>13. ASSUME NEW p \in Procs, BeginGC(p) PROVE StoreInv'
  BY <1>13 DEF BeginGC, OpenStore, NoJob, NoIndex
<1>14. ASSUME NEW p \in Procs, LoadForGC(p) PROVE StoreInv'
  BY <1>14 DEF LoadForGC
<1>15. ASSUME NEW p \in Procs, RecoverManifest(p) PROVE StoreInv'
  BY <1>15 DEF RecoverManifest, RemoveManifest
<1>16. ASSUME NEW p \in Procs, PruneManifest(p) PROVE StoreInv'
  BY <1>16 DEF PruneManifest, RemoveManifest
<1>17. ASSUME NEW p \in Procs, RecoverDocRefs(p) PROVE StoreInv'
  BY <1>17 DEF RecoverDocRefs, DeleteDocRefs
<1>18. ASSUME NEW p \in Procs, PruneDocRefs(p) PROVE StoreInv'
  BY <1>18 DEF PruneDocRefs, DeleteDocRefs
<1>19. ASSUME NEW p \in Procs, DecideKept(p) PROVE StoreInv'
  BY <1>19, DecideKeptEffect
<1>20. ASSUME NEW p \in Procs, SavePrunedIndex(p) PROVE StoreInv'
  BY <1>20 DEF SavePrunedIndex
<1>21. ASSUME NEW p \in Procs, Mark(p) PROVE StoreInv'
  BY <1>21 DEF Mark
<1>22. ASSUME NEW p \in Procs, SweepObject(p) PROVE StoreInv'
  BY <1>22 DEF SweepObject
<1>23. ASSUME NEW p \in Procs, SweepDone(p) PROVE StoreInv'
  BY <1>23 DEF SweepDone
<1>24. ASSUME NEW p \in Procs, TakeScopeLock(p) PROVE StoreInv'
  BY <1>24 DEF TakeScopeLock, Mutex!Acquire
<1>25. ASSUME NEW p \in Procs, ReclaimScopeLock(p) PROVE StoreInv'
  BY <1>25 DEF ReclaimScopeLock, Mutex!Reclaim
<1>26. ASSUME NEW p \in Procs, Finish(p) \/ Fail(p) PROVE StoreInv'
  BY <1>26 DEF Finish, Fail, Return, NoJob
<1>27. ASSUME NEW p \in Procs, Die(p) PROVE StoreInv'
  BY <1>27 DEF Die, Mutex!Die, NoJob, NoIndex
<1>28. CASE UNCHANGED vars
  BY <1>28 DEF vars
<1> QED
  BY <1>1, <1>2, <1>3, <1>4, <1>5, <1>6, <1>7, <1>8, <1>9, <1>10, <1>11, <1>12, <1>13, <1>14, <1>15, <1>16, <1>17, <1>18, <1>19, <1>20, <1>21, <1>22, <1>23, <1>24, <1>25, <1>26, <1>27, <1>28
     DEF Next, CreateStep, TagStep, GCStep, LockStep

\* Steps preserve TagInv.
LEMMA TagInvStep ==
    ASSUME TypeInv, LockInv, TagInv, [Next]_vars
    PROVE  TagInv'
<1> USE ScopeAssumption DEF TypeInv, JobInv, TypeOK, LockInv, TagInv, Inside, Index, Job,
                        Goto, diskVars, CreateLabels, TagLabels, GCLabels
<1>1. ASSUME NEW p \in Procs, BeginCreate(p) PROVE TagInv'
  BY <1>1 DEF BeginCreate, OpenStore
<1>2. ASSUME NEW p \in Procs, PutObjects(p) PROVE TagInv'
  BY <1>2 DEF PutObjects
<1>3. ASSUME NEW p \in Procs, WriteDocRefs(p) PROVE TagInv'
  BY <1>3 DEF WriteDocRefs
<1>4. ASSUME NEW p \in Procs, StampManifest(p) PROVE TagInv'
  BY <1>4 DEF StampManifest
<1>5. ASSUME NEW p \in Procs, SaveManifest(p) PROVE TagInv'
  BY <1>5 DEF SaveManifest
<1>6. ASSUME NEW p \in Procs, LoadForPublish(p) PROVE TagInv'
  BY <1>6 DEF LoadForPublish
<1>7. ASSUME NEW p \in Procs, Publish(p) PROVE TagInv'
  BY <1>7 DEF Publish
<1>8. ASSUME NEW p \in Procs, BeginTag(p) PROVE TagInv'
  BY <1>8 DEF BeginTag, NoJob, NoIndex
<1>9. ASSUME NEW p \in Procs, LoadForTag(p) PROVE TagInv'
  BY <1>9 DEF LoadForTag
<1>10. ASSUME NEW p \in Procs, AlreadyTagged(p) PROVE TagInv'
  BY <1>10 DEF AlreadyTagged
<1>11. ASSUME NEW p \in Procs, LabelManifest(p) PROVE TagInv'
  BY <1>11 DEF LabelManifest
<1>12. ASSUME NEW p \in Procs, TagIndex(p) PROVE TagInv'
  BY <1>12 DEF TagIndex
<1>13. ASSUME NEW p \in Procs, BeginGC(p) PROVE TagInv'
  BY <1>13 DEF BeginGC, OpenStore, NoJob, NoIndex
<1>14. ASSUME NEW p \in Procs, LoadForGC(p) PROVE TagInv'
  BY <1>14 DEF LoadForGC
<1>15. ASSUME NEW p \in Procs, RecoverManifest(p) PROVE TagInv'
  BY <1>15 DEF RecoverManifest, RemoveManifest
<1>16. ASSUME NEW p \in Procs, PruneManifest(p) PROVE TagInv'
  BY <1>16 DEF PruneManifest, RemoveManifest
<1>17. ASSUME NEW p \in Procs, RecoverDocRefs(p) PROVE TagInv'
  BY <1>17 DEF RecoverDocRefs, DeleteDocRefs
<1>18. ASSUME NEW p \in Procs, PruneDocRefs(p) PROVE TagInv'
  BY <1>18 DEF PruneDocRefs, DeleteDocRefs
<1>19. ASSUME NEW p \in Procs, DecideKept(p) PROVE TagInv'
  BY <1>19, DecideKeptEffect
<1>20. ASSUME NEW p \in Procs, SavePrunedIndex(p) PROVE TagInv'
  BY <1>20 DEF SavePrunedIndex
<1>21. ASSUME NEW p \in Procs, Mark(p) PROVE TagInv'
  BY <1>21 DEF Mark
<1>22. ASSUME NEW p \in Procs, SweepObject(p) PROVE TagInv'
  BY <1>22 DEF SweepObject
<1>23. ASSUME NEW p \in Procs, SweepDone(p) PROVE TagInv'
  BY <1>23 DEF SweepDone
<1>24. ASSUME NEW p \in Procs, TakeScopeLock(p) PROVE TagInv'
  BY <1>24 DEF TakeScopeLock, Mutex!Acquire
<1>25. ASSUME NEW p \in Procs, ReclaimScopeLock(p) PROVE TagInv'
  BY <1>25 DEF ReclaimScopeLock, Mutex!Reclaim
<1>26. ASSUME NEW p \in Procs, Finish(p) \/ Fail(p) PROVE TagInv'
  BY <1>26 DEF Finish, Fail, Return
<1>27. ASSUME NEW p \in Procs, Die(p) PROVE TagInv'
  BY <1>27 DEF Die, Mutex!Die, NoJob, NoIndex
<1>28. CASE UNCHANGED vars
  BY <1>28 DEF vars
<1> QED
  BY <1>1, <1>2, <1>3, <1>4, <1>5, <1>6, <1>7, <1>8, <1>9, <1>10, <1>11, <1>12, <1>13, <1>14, <1>15, <1>16, <1>17, <1>18, <1>19, <1>20, <1>21, <1>22, <1>23, <1>24, <1>25, <1>26, <1>27, <1>28
     DEF Next, CreateStep, TagStep, GCStep, LockStep

\* Steps preserve CreateInv.
LEMMA CreateInvStep ==
    ASSUME Backend = "bolt", TypeInv, LockInv, StoreInv, CreateInv,
           [Next]_vars
    PROVE  CreateInv'
<1> USE ScopeAssumption DEF TypeInv, JobInv, TypeOK, Index, Job, Goto, diskVars, Colls,
                        CreateLabels, TagLabels, GCLabels, LockInv, Inside, StoreInv, CreateInv
<1>1. ASSUME NEW p \in Procs, BeginCreate(p) PROVE CreateInv'
  <2>1. /\ job'[p].op = "create"
        /\ job'[p].id = nextId
        /\ job'[p].coll = 1
        /\ pc'[p] = "scan"
        /\ nextId' = nextId + 1
    BY <1>1 DEF BeginCreate, NoJob
  <2>2. \A q \in Procs \ {p} : job'[q] = job[q] /\ pc'[q] = pc[q]
    BY <1>1 DEF BeginCreate
  <2>3. UNCHANGED diskVars
    BY <1>1 DEF BeginCreate
  <2>4. nextId \in Nat /\ \A i \in index.ids : i \in Nat /\ i < nextId
    BY ScopeAssumption DEF Ids
  <2>5. \A q \in Procs : job[q].op = "create" => job[q].id \in Nat
    BY ScopeAssumption DEF Ids
  <2>6. \A i \in index'.ids : i < nextId'
    BY <2>1, <2>3, <2>4
  <2>7. ASSUME NEW q \in Procs \ {p}, job[q].op = "create" PROVE job[q].id < nextId'
    BY <2>1, <2>4, <2>5, <2>7
  <2>8. nextId < nextId' /\ nextId \notin index.ids /\ \A c \in Colls : ~(c < 1)
    BY <2>1, <2>4 DEF Colls
  <2> QED BY <2>1, <2>2, <2>3, <2>6, <2>7, <2>8
<1>2. ASSUME NEW p \in Procs, PutObjects(p) PROVE CreateInv'
  BY <1>2 DEF PutObjects
<1>3. ASSUME NEW p \in Procs, WriteDocRefs(p) PROVE CreateInv'
  <2>1. /\ job[p].op = "create"
        /\ job'[p].op = "create"
        /\ job'[p].id = job[p].id
        /\ job'[p].coll = job[p].coll + 1
        /\ job[p].coll \in 1..NumColls
        /\ pc'[p] = "scan"
    BY <1>3 DEF WriteDocRefs
  <2>2. \A q \in Procs \ {p} : job'[q] = job[q] /\ pc'[q] = pc[q]
    BY <1>3 DEF WriteDocRefs
  <2>3. docrefs' = docrefs \cup {<<job[p].id, job[p].coll>>}
    BY <1>3 DEF WriteDocRefs
  <2>4. \A c \in Colls : c < job'[p].coll =>
           /\ <<job[p].id, c>> \in docrefs'
           /\ scanned[job[p].id][c] \subseteq objects
    BY <1>3, <2>1, <2>3 DEF WriteDocRefs
  <2> QED BY <1>3, <2>1, <2>2, <2>3, <2>4 DEF WriteDocRefs
<1>4. ASSUME NEW p \in Procs, StampManifest(p) PROVE CreateInv'
  BY <1>4 DEF StampManifest
<1>5. ASSUME NEW p \in Procs, SaveManifest(p) PROVE CreateInv'
  BY <1>5 DEF SaveManifest
<1>6. ASSUME NEW p \in Procs, LoadForPublish(p) PROVE CreateInv'
  BY <1>6 DEF LoadForPublish
<1>7. ASSUME NEW p \in Procs, Publish(p) PROVE CreateInv'
  BY <1>7 DEF Publish
<1>8. ASSUME NEW p \in Procs, BeginTag(p) PROVE CreateInv'
  BY <1>8 DEF BeginTag, NoJob, NoIndex
<1>9. ASSUME NEW p \in Procs, LoadForTag(p) PROVE CreateInv'
  BY <1>9 DEF LoadForTag
<1>10. ASSUME NEW p \in Procs, AlreadyTagged(p) PROVE CreateInv'
  BY <1>10 DEF AlreadyTagged
<1>11. ASSUME NEW p \in Procs, LabelManifest(p) PROVE CreateInv'
  BY <1>11 DEF LabelManifest
<1>12. ASSUME NEW p \in Procs, TagIndex(p) PROVE CreateInv'
  BY <1>12 DEF TagIndex
<1>13. ASSUME NEW p \in Procs, BeginGC(p) PROVE CreateInv'
  BY <1>13 DEF BeginGC, OpenStore, NoJob, NoIndex
<1>14. ASSUME NEW p \in Procs, LoadForGC(p) PROVE CreateInv'
  BY <1>14 DEF LoadForGC
<1>15. ASSUME NEW p \in Procs, RecoverManifest(p) PROVE CreateInv'
  BY <1>15 DEF RecoverManifest, RemoveManifest
<1>16. ASSUME NEW p \in Procs, PruneManifest(p) PROVE CreateInv'
  BY <1>16 DEF PruneManifest, RemoveManifest
<1>17. ASSUME NEW p \in Procs, RecoverDocRefs(p) PROVE CreateInv'
  BY <1>17 DEF RecoverDocRefs, DeleteDocRefs
<1>18. ASSUME NEW p \in Procs, PruneDocRefs(p) PROVE CreateInv'
  BY <1>18 DEF PruneDocRefs, DeleteDocRefs
<1>19. ASSUME NEW p \in Procs, DecideKept(p) PROVE CreateInv'
  <2>1. /\ job'[p].op = "gc"
        /\ \A q \in Procs \ {p} : job'[q] = job[q] /\ pc'[q] = pc[q]
        /\ UNCHANGED <<diskVars, nextId>>
    BY <1>19, DecideKeptEffect
  <2> QED BY <2>1
<1>20. ASSUME NEW p \in Procs, SavePrunedIndex(p) PROVE CreateInv'
  BY <1>20 DEF SavePrunedIndex
<1>21. ASSUME NEW p \in Procs, Mark(p) PROVE CreateInv'
  BY <1>21 DEF Mark
<1>22. ASSUME NEW p \in Procs, SweepObject(p) PROVE CreateInv'
  BY <1>22 DEF SweepObject
<1>23. ASSUME NEW p \in Procs, SweepDone(p) PROVE CreateInv'
  BY <1>23 DEF SweepDone
<1>24. ASSUME NEW p \in Procs, TakeScopeLock(p) PROVE CreateInv'
  BY <1>24 DEF TakeScopeLock, Mutex!Acquire
<1>25. ASSUME NEW p \in Procs, ReclaimScopeLock(p) PROVE CreateInv'
  BY <1>25 DEF ReclaimScopeLock, Mutex!Reclaim
<1>26. ASSUME NEW p \in Procs, Finish(p) \/ Fail(p) PROVE CreateInv'
  <2>1. /\ pc' = [pc EXCEPT ![p] = "idle"]
        /\ job' = [job EXCEPT ![p] = NoJob]
        /\ UNCHANGED <<diskVars, nextId>>
    BY <1>26 DEF Finish, Fail, Return
  <2>2. job'[p].op = "none"
    BY <2>1 DEF NoJob
  <2> QED BY <2>1, <2>2
<1>27. ASSUME NEW p \in Procs, Die(p) PROVE CreateInv'
  BY <1>27 DEF Die, Mutex!Die, NoJob, NoIndex
<1>28. CASE UNCHANGED vars
  BY <1>28 DEF vars
<1> QED
  BY <1>1, <1>2, <1>3, <1>4, <1>5, <1>6, <1>7, <1>8, <1>9, <1>10, <1>11, <1>12, <1>13, <1>14, <1>15, <1>16, <1>17, <1>18, <1>19, <1>20, <1>21, <1>22, <1>23, <1>24, <1>25, <1>26, <1>27, <1>28
     DEF Next, CreateStep, TagStep, GCStep, LockStep

\* Steps preserve GCInv.
LEMMA GCInvStep ==
    ASSUME Backend = "bolt", TypeInv, LockInv, StoreInv, CreateInv, GCInv,
           ListedIsComplete, TagsKept, [Next]_vars
    PROVE  GCInv'
<1> USE ScopeAssumption DEF TypeInv, JobInv, TypeOK, Index, Job, Goto, diskVars, Colls,
                        CreateLabels, TagLabels, GCLabels, LockInv, Inside, StoreInv,
                        GCInv, ListedIsComplete, Complete, TagsKept, Referenced
<1>1. ASSUME NEW p \in Procs, BeginCreate(p) PROVE GCInv'
  BY <1>1 DEF BeginCreate, OpenStore
<1>2. ASSUME NEW p \in Procs, PutObjects(p) PROVE GCInv'
  BY <1>2 DEF PutObjects
<1>3. ASSUME NEW p \in Procs, WriteDocRefs(p) PROVE GCInv'
  BY <1>3 DEF WriteDocRefs
<1>4. ASSUME NEW p \in Procs, StampManifest(p) PROVE GCInv'
  BY <1>4 DEF StampManifest
<1>5. ASSUME NEW p \in Procs, SaveManifest(p) PROVE GCInv'
  BY <1>5 DEF SaveManifest
<1>6. ASSUME NEW p \in Procs, LoadForPublish(p) PROVE GCInv'
  BY <1>6 DEF LoadForPublish
<1>7. ASSUME NEW p \in Procs, Publish(p) PROVE GCInv'
  BY <1>7 DEF Publish
<1>8. ASSUME NEW p \in Procs, BeginTag(p) PROVE GCInv'
  BY <1>8 DEF BeginTag, NoJob, NoIndex
<1>9. ASSUME NEW p \in Procs, LoadForTag(p) PROVE GCInv'
  BY <1>9 DEF LoadForTag
<1>10. ASSUME NEW p \in Procs, AlreadyTagged(p) PROVE GCInv'
  BY <1>10 DEF AlreadyTagged
<1>11. ASSUME NEW p \in Procs, LabelManifest(p) PROVE GCInv'
  BY <1>11 DEF LabelManifest
<1>12. ASSUME NEW p \in Procs, TagIndex(p) PROVE GCInv'
  BY <1>12 DEF TagIndex
<1>13. ASSUME NEW p \in Procs, BeginGC(p) PROVE GCInv'
  BY <1>13 DEF BeginGC, OpenStore, NoJob, NoIndex
<1>14. ASSUME NEW p \in Procs, LoadForGC(p) PROVE GCInv'
  BY <1>14 DEF LoadForGC
<1>15. ASSUME NEW p \in Procs, RecoverManifest(p) PROVE GCInv'
  BY <1>15 DEF RecoverManifest, RemoveManifest
<1>16. ASSUME NEW p \in Procs, PruneManifest(p) PROVE GCInv'
  BY <1>16 DEF PruneManifest, RemoveManifest
<1>17. ASSUME NEW p \in Procs, RecoverDocRefs(p) PROVE GCInv'
  BY <1>17 DEF RecoverDocRefs, DeleteDocRefs
<1>18. ASSUME NEW p \in Procs, PruneDocRefs(p) PROVE GCInv'
  BY <1>18 DEF PruneDocRefs, DeleteDocRefs
<1>19. ASSUME NEW p \in Procs, DecideKept(p) PROVE GCInv'
  <2>1. job[p].view = index
    BY <1>19, DecideKeptEffect
  <2>2. /\ pc' = [pc EXCEPT ![p] = "prune"]
        /\ \A q \in Procs \ {p} : job'[q] = job[q]
        /\ index.tagged \subseteq job'[p].view.ids
        /\ job'[p].doomed = index.ids \ job'[p].view.ids
        /\ UNCHANGED <<index, manifests, scanned>>
    BY <1>19, <2>1, DecideKeptEffect
  <2>3. ASSUME NEW q \in Procs \ {p} PROVE pc'[q] = pc[q] /\ job'[q] = job[q]
    BY <2>2
  <2>4. pc'[p] = "prune" /\ job'[p].doomed \cap index.tagged = {}
    BY <2>2
  <2> QED BY <2>2, <2>3, <2>4
<1>20. ASSUME NEW p \in Procs, SavePrunedIndex(p) PROVE GCInv'
  BY <1>20 DEF SavePrunedIndex
<1>21. ASSUME NEW p \in Procs, Mark(p) PROVE GCInv'
  <2>1. job[p].view = index /\ index.ids \subseteq manifests
    BY <1>21 DEF Mark
  <2>2. job'[p].sweep = objects \ Referenced(index.ids)
    BY <1>21, <2>1 DEF Mark
  <2>3. ASSUME NEW i \in index.ids, NEW c \in Colls
        PROVE  scanned[i][c] \subseteq Referenced(index.ids)
    <3>1. <<i, c>> \in docrefs \cap (index.ids \X Colls)
      BY <2>1
    <3> QED BY <3>1
  <2> QED BY <1>21, <2>2, <2>3 DEF Mark
<1>22. ASSUME NEW p \in Procs, SweepObject(p) PROVE GCInv'
  BY <1>22 DEF SweepObject
<1>23. ASSUME NEW p \in Procs, SweepDone(p) PROVE GCInv'
  BY <1>23 DEF SweepDone
<1>24. ASSUME NEW p \in Procs, TakeScopeLock(p) PROVE GCInv'
  BY <1>24 DEF TakeScopeLock, Mutex!Acquire
<1>25. ASSUME NEW p \in Procs, ReclaimScopeLock(p) PROVE GCInv'
  BY <1>25 DEF ReclaimScopeLock, Mutex!Reclaim
<1>26. ASSUME NEW p \in Procs, Finish(p) \/ Fail(p) PROVE GCInv'
  <2>1. /\ pc' = [pc EXCEPT ![p] = "idle"]
        /\ \A q \in Procs \ {p} : job'[q] = job[q]
        /\ UNCHANGED <<index, manifests, scanned>>
    BY <1>26 DEF Finish, Fail, Return
  <2> QED BY <2>1
<1>27. ASSUME NEW p \in Procs, Die(p) PROVE GCInv'
  BY <1>27 DEF Die, Mutex!Die, NoJob, NoIndex
<1>28. CASE UNCHANGED vars
  BY <1>28 DEF vars
<1> QED
  BY <1>1, <1>2, <1>3, <1>4, <1>5, <1>6, <1>7, <1>8, <1>9, <1>10, <1>11, <1>12, <1>13, <1>14, <1>15, <1>16, <1>17, <1>18, <1>19, <1>20, <1>21, <1>22, <1>23, <1>24, <1>25, <1>26, <1>27, <1>28
     DEF Next, CreateStep, TagStep, GCStep, LockStep

\* A step leaves the tagged snapshots their manifests.
LEMMA TagsKeptStep ==
    ASSUME Backend = "bolt", TypeInv, LockInv, StoreInv, GCInv, TagInv,
           TagsKept, [Next]_vars
    PROVE  TagsKept'
<1> USE ScopeAssumption DEF TypeInv, JobInv, TypeOK, Index, Job, Goto, diskVars, Colls,
                        CreateLabels, TagLabels, GCLabels, LockInv, Inside, StoreInv,
                        TagsKept, GCInv, TagInv
<1>1. ASSUME NEW p \in Procs, BeginCreate(p) PROVE TagsKept'
  BY <1>1 DEF BeginCreate, OpenStore
<1>2. ASSUME NEW p \in Procs, PutObjects(p) PROVE TagsKept'
  BY <1>2 DEF PutObjects
<1>3. ASSUME NEW p \in Procs, WriteDocRefs(p) PROVE TagsKept'
  BY <1>3 DEF WriteDocRefs
<1>4. ASSUME NEW p \in Procs, StampManifest(p) PROVE TagsKept'
  BY <1>4 DEF StampManifest
<1>5. ASSUME NEW p \in Procs, SaveManifest(p) PROVE TagsKept'
  BY <1>5 DEF SaveManifest
<1>6. ASSUME NEW p \in Procs, LoadForPublish(p) PROVE TagsKept'
  BY <1>6 DEF LoadForPublish
<1>7. ASSUME NEW p \in Procs, Publish(p) PROVE TagsKept'
  BY <1>7 DEF Publish
<1>8. ASSUME NEW p \in Procs, BeginTag(p) PROVE TagsKept'
  BY <1>8 DEF BeginTag, NoJob, NoIndex
<1>9. ASSUME NEW p \in Procs, LoadForTag(p) PROVE TagsKept'
  BY <1>9 DEF LoadForTag
<1>10. ASSUME NEW p \in Procs, AlreadyTagged(p) PROVE TagsKept'
  BY <1>10 DEF AlreadyTagged
<1>11. ASSUME NEW p \in Procs, LabelManifest(p) PROVE TagsKept'
  BY <1>11 DEF LabelManifest
<1>12. ASSUME NEW p \in Procs, TagIndex(p) PROVE TagsKept'
  BY <1>12 DEF TagIndex
<1>13. ASSUME NEW p \in Procs, BeginGC(p) PROVE TagsKept'
  BY <1>13 DEF BeginGC, OpenStore, NoJob, NoIndex
<1>14. ASSUME NEW p \in Procs, LoadForGC(p) PROVE TagsKept'
  BY <1>14 DEF LoadForGC
<1>15. ASSUME NEW p \in Procs, RecoverManifest(p) PROVE TagsKept'
  BY <1>15 DEF RecoverManifest, RemoveManifest
<1>16. ASSUME NEW p \in Procs, PruneManifest(p) PROVE TagsKept'
  BY <1>16 DEF PruneManifest, RemoveManifest
<1>17. ASSUME NEW p \in Procs, RecoverDocRefs(p) PROVE TagsKept'
  BY <1>17 DEF RecoverDocRefs, DeleteDocRefs
<1>18. ASSUME NEW p \in Procs, PruneDocRefs(p) PROVE TagsKept'
  BY <1>18 DEF PruneDocRefs, DeleteDocRefs
<1>19. ASSUME NEW p \in Procs, DecideKept(p) PROVE TagsKept'
  BY <1>19, DecideKeptEffect
<1>20. ASSUME NEW p \in Procs, SavePrunedIndex(p) PROVE TagsKept'
  BY <1>20 DEF SavePrunedIndex
<1>21. ASSUME NEW p \in Procs, Mark(p) PROVE TagsKept'
  BY <1>21 DEF Mark
<1>22. ASSUME NEW p \in Procs, SweepObject(p) PROVE TagsKept'
  BY <1>22 DEF SweepObject
<1>23. ASSUME NEW p \in Procs, SweepDone(p) PROVE TagsKept'
  BY <1>23 DEF SweepDone
<1>24. ASSUME NEW p \in Procs, TakeScopeLock(p) PROVE TagsKept'
  BY <1>24 DEF TakeScopeLock, Mutex!Acquire
<1>25. ASSUME NEW p \in Procs, ReclaimScopeLock(p) PROVE TagsKept'
  BY <1>25 DEF ReclaimScopeLock, Mutex!Reclaim
<1>26. ASSUME NEW p \in Procs, Finish(p) \/ Fail(p) PROVE TagsKept'
  BY <1>26 DEF Finish, Fail, Return
<1>27. ASSUME NEW p \in Procs, Die(p) PROVE TagsKept'
  BY <1>27 DEF Die, Mutex!Die, NoJob, NoIndex
<1>28. CASE UNCHANGED vars
  BY <1>28 DEF vars
<1> QED
  BY <1>1, <1>2, <1>3, <1>4, <1>5, <1>6, <1>7, <1>8, <1>9, <1>10, <1>11, <1>12, <1>13, <1>14, <1>15, <1>16, <1>17, <1>18, <1>19, <1>20, <1>21, <1>22, <1>23, <1>24, <1>25, <1>26, <1>27, <1>28
     DEF Next, CreateStep, TagStep, GCStep, LockStep

\* A step leaves the listed snapshots complete.
LEMMA ListedIsCompleteStep ==
    ASSUME Backend = "bolt", TypeInv, LockInv, StoreInv, CreateInv, GCInv,
           TagInv, ListedIsComplete, [Next]_vars
    PROVE  ListedIsComplete'
<1> USE ScopeAssumption DEF TypeInv, JobInv, TypeOK, Index, Job, Goto, diskVars, Colls,
                        CreateLabels, TagLabels, GCLabels, LockInv, Inside, StoreInv,
                        ListedIsComplete, Complete, CreateInv, GCInv, TagInv
<1>1. ASSUME NEW p \in Procs, BeginCreate(p) PROVE ListedIsComplete'
  BY <1>1 DEF BeginCreate, OpenStore
<1>2. ASSUME NEW p \in Procs, PutObjects(p) PROVE ListedIsComplete'
  <2> SUFFICES ASSUME NEW i \in index.ids \cap manifests, NEW c \in Colls
               PROVE  <<i, c>> \in docrefs' /\ scanned'[i][c] \subseteq objects'
    BY <1>2 DEF PutObjects
  <2>1. <<i, c>> \in docrefs /\ scanned[i][c] \subseteq objects
    OBVIOUS
  <2>2. job[p].id \notin index.ids
    BY <1>2 DEF PutObjects
  <2>3. scanned'[i] = scanned[i]
    BY <1>2, <2>2 DEF PutObjects
  <2> QED BY <1>2, <2>1, <2>3 DEF PutObjects
<1>3. ASSUME NEW p \in Procs, WriteDocRefs(p) PROVE ListedIsComplete'
  BY <1>3 DEF WriteDocRefs
<1>4. ASSUME NEW p \in Procs, StampManifest(p) PROVE ListedIsComplete'
  BY <1>4 DEF StampManifest
<1>5. ASSUME NEW p \in Procs, SaveManifest(p) PROVE ListedIsComplete'
  <2>1. job[p].id \notin index.ids
    BY <1>5 DEF SaveManifest
  <2> QED BY <1>5, <2>1 DEF SaveManifest
<1>6. ASSUME NEW p \in Procs, LoadForPublish(p) PROVE ListedIsComplete'
  BY <1>6 DEF LoadForPublish
<1>7. ASSUME NEW p \in Procs, Publish(p) PROVE ListedIsComplete'
  <2>1. index'.ids = index.ids \cup {job[p].id}
    BY <1>7 DEF Publish
  <2>2. job[p].op = "create" /\ job[p].coll = NumColls + 1 /\ job[p].id \in Ids
    BY <1>7 DEF Publish
  <2>3. \A c \in Colls : c < job[p].coll
    BY <2>2
  <2>4. Complete(job[p].id)
    BY <2>2, <2>3
  <2>5. UNCHANGED <<manifests, docrefs, scanned, objects>>
    BY <1>7 DEF Publish
  <2> QED BY <2>1, <2>4, <2>5
<1>8. ASSUME NEW p \in Procs, BeginTag(p) PROVE ListedIsComplete'
  BY <1>8 DEF BeginTag, NoJob, NoIndex
<1>9. ASSUME NEW p \in Procs, LoadForTag(p) PROVE ListedIsComplete'
  BY <1>9 DEF LoadForTag
<1>10. ASSUME NEW p \in Procs, AlreadyTagged(p) PROVE ListedIsComplete'
  BY <1>10 DEF AlreadyTagged
<1>11. ASSUME NEW p \in Procs, LabelManifest(p) PROVE ListedIsComplete'
  <2>1. UNCHANGED <<index, manifests, docrefs, scanned, objects>>
    BY <1>11 DEF LabelManifest
  <2> QED BY <2>1
<1>12. ASSUME NEW p \in Procs, TagIndex(p) PROVE ListedIsComplete'
  BY <1>12 DEF TagIndex
<1>13. ASSUME NEW p \in Procs, BeginGC(p) PROVE ListedIsComplete'
  BY <1>13 DEF BeginGC, OpenStore, NoJob, NoIndex
<1>14. ASSUME NEW p \in Procs, LoadForGC(p) PROVE ListedIsComplete'
  BY <1>14 DEF LoadForGC
<1>15. ASSUME NEW p \in Procs, RecoverManifest(p) PROVE ListedIsComplete'
  BY <1>15 DEF RecoverManifest, RemoveManifest
<1>16. ASSUME NEW p \in Procs, PruneManifest(p) PROVE ListedIsComplete'
  BY <1>16 DEF PruneManifest, RemoveManifest
<1>17. ASSUME NEW p \in Procs, RecoverDocRefs(p) PROVE ListedIsComplete'
  <2> SUFFICES ASSUME NEW i \in index.ids \cap manifests, NEW c \in Colls
               PROVE  <<i, c>> \in docrefs' /\ scanned'[i][c] \subseteq objects'
    BY <1>17 DEF RecoverDocRefs, DeleteDocRefs
  <2>1. <<i, c>> \in docrefs /\ scanned[i][c] \subseteq objects
    OBVIOUS
  <2>2. job[p].id \notin manifests
    BY <1>17 DEF RecoverDocRefs, DeleteDocRefs
  <2>3. <<i, c>> \notin {job[p].id} \X Colls
    BY <2>2
  <2> QED BY <1>17, <2>1, <2>3 DEF RecoverDocRefs, DeleteDocRefs
<1>18. ASSUME NEW p \in Procs, PruneDocRefs(p) PROVE ListedIsComplete'
  <2> SUFFICES ASSUME NEW i \in index.ids \cap manifests, NEW c \in Colls
               PROVE  <<i, c>> \in docrefs' /\ scanned'[i][c] \subseteq objects'
    BY <1>18 DEF PruneDocRefs, DeleteDocRefs
  <2>1. <<i, c>> \in docrefs /\ scanned[i][c] \subseteq objects
    OBVIOUS
  <2>2. job[p].id \notin manifests
    BY <1>18 DEF PruneDocRefs, DeleteDocRefs
  <2>3. <<i, c>> \notin {job[p].id} \X Colls
    BY <2>2
  <2> QED BY <1>18, <2>1, <2>3 DEF PruneDocRefs, DeleteDocRefs
<1>19. ASSUME NEW p \in Procs, DecideKept(p) PROVE ListedIsComplete'
  BY <1>19, DecideKeptEffect
<1>20. ASSUME NEW p \in Procs, SavePrunedIndex(p) PROVE ListedIsComplete'
  BY <1>20 DEF SavePrunedIndex
<1>21. ASSUME NEW p \in Procs, Mark(p) PROVE ListedIsComplete'
  BY <1>21 DEF Mark
<1>22. ASSUME NEW p \in Procs, SweepObject(p) PROVE ListedIsComplete'
  <2> SUFFICES ASSUME NEW i \in index.ids \cap manifests, NEW c \in Colls
               PROVE  <<i, c>> \in docrefs' /\ scanned'[i][c] \subseteq objects'
    BY <1>22 DEF SweepObject
  <2>1. <<i, c>> \in docrefs /\ scanned[i][c] \subseteq objects
    OBVIOUS
  <2>2. PICK h \in job[p].sweep : objects' = objects \ {h}
    BY <1>22 DEF SweepObject
  <2>3. h \notin scanned[i][c]
    BY <1>22 DEF SweepObject
  <2> QED BY <1>22, <2>1, <2>2, <2>3 DEF SweepObject
<1>23. ASSUME NEW p \in Procs, SweepDone(p) PROVE ListedIsComplete'
  BY <1>23 DEF SweepDone
<1>24. ASSUME NEW p \in Procs, TakeScopeLock(p) PROVE ListedIsComplete'
  BY <1>24 DEF TakeScopeLock, Mutex!Acquire
<1>25. ASSUME NEW p \in Procs, ReclaimScopeLock(p) PROVE ListedIsComplete'
  BY <1>25 DEF ReclaimScopeLock, Mutex!Reclaim
<1>26. ASSUME NEW p \in Procs, Finish(p) \/ Fail(p) PROVE ListedIsComplete'
  BY <1>26 DEF Finish, Fail, Return
<1>27. ASSUME NEW p \in Procs, Die(p) PROVE ListedIsComplete'
  BY <1>27 DEF Die, Mutex!Die, NoJob, NoIndex
<1>28. CASE UNCHANGED vars
  BY <1>28 DEF vars
<1> QED
  BY <1>1, <1>2, <1>3, <1>4, <1>5, <1>6, <1>7, <1>8, <1>9, <1>10, <1>11, <1>12, <1>13, <1>14, <1>15, <1>16, <1>17, <1>18, <1>19, <1>20, <1>21, <1>22, <1>23, <1>24, <1>25, <1>26, <1>27, <1>28
     DEF Next, CreateStep, TagStep, GCStep, LockStep

-----------------------------------------------------------------------------
\* withScopeLock serialises every change of the index, with either backend: no
\* Create, Tag or GC saves over what another one saved in between.
THEOREM IndexUpdatesAreKept == Spec => NoLostUpdate
<1>1. Init => LockInv
  BY DEF Init, LockInv, NoIndex, Inside, TagLabels
<1>2. ASSUME TypeInv, LockInv, [Next]_vars PROVE [KeepsOthersEntries]_index
  <2> USE <1>2 DEF TypeInv, JobInv, TypeOK, LockInv, Inside, Index, Job, Goto,
                   diskVars, TagLabels, KeepsOthersEntries
  <2>1. ASSUME NEW p \in Procs, Publish(p) PROVE [KeepsOthersEntries]_index
    BY <2>1 DEF Publish
  <2>2. ASSUME NEW p \in Procs, TagIndex(p) PROVE [KeepsOthersEntries]_index
    BY <2>2 DEF TagIndex
  <2>3. ASSUME NEW p \in Procs, SavePrunedIndex(p) PROVE [KeepsOthersEntries]_index
    <3>1. index' = job[p].view /\ pc[p] = "prune"
      BY <2>3 DEF SavePrunedIndex
    <3>2. index.tagged = index'.tagged /\ index'.ids \subseteq index.ids
      BY <3>1
    <3> QED BY <3>1, <3>2
  <2>4. CASE UNCHANGED index
    BY <2>4
  <2> QED
    BY <2>1, <2>2, <2>3, <2>4
       DEF Next, CreateStep, TagStep, GCStep, LockStep, BeginCreate, PutObjects,
           WriteDocRefs, StampManifest, SaveManifest, LoadForPublish, BeginTag,
           LoadForTag, AlreadyTagged, LabelManifest, BeginGC, LoadForGC,
           RecoverManifest, RecoverDocRefs, PruneManifest, PruneDocRefs,
           RemoveManifest, DeleteDocRefs, DecideKept, Mark, SweepObject,
           SweepDone, TakeScopeLock, ReclaimScopeLock, Finish, Fail, Return,
           Die, vars
<1> QED
  BY <1>1, <1>2, TypeInvInit, TypeInvInductive, LockInvStep, PTL
     DEF Spec, NoLostUpdate

\* On bolt the whole invariant is inductive.
LEMMA ScopeInvInductive ==
    ASSUME Backend = "bolt", TypeInv, ScopeInv, [Next]_vars
    PROVE  ScopeInv'
  BY LockInvStep, StoreInvStep, TagInvStep, CreateInvStep, GCInvStep, TagsKeptStep,
     ListedIsCompleteStep DEF ScopeInv

LEMMA ScopeInvInit == Init => ScopeInv
  BY DEF Init, ScopeInv, LockInv, StoreInv, TagInv, CreateInv, GCInv, TagsKept,
         ListedIsComplete, NoIndex, NoJob, Inside, TagLabels

LEMMA ScopeInvHolds == ASSUME Backend = "bolt"
                       PROVE  Spec => [](TypeInv /\ ScopeInv)
  BY TypeInvInit, TypeInvInductive, ScopeInvInit, ScopeInvInductive, PTL DEF Spec

\* Whatever GC sweeps and wherever operations fail or die, each snapshot a user
\* of a bolt scope can see and open still has all it needs to be restored.
THEOREM ListedSnapshotsAreComplete ==
    ASSUME Backend = "bolt"
    PROVE  Spec => []ListedIsComplete
  BY ScopeInvHolds, PTL DEF ScopeInv

\* A tag protects a snapshot for good: manifest, label and content.
THEOREM TaggedSnapshotsAreKept ==
    ASSUME Backend = "bolt"
    PROVE  Spec => []TaggedIsKept
<1>1. ScopeInv => TaggedIsKept
  BY DEF ScopeInv, LockInv, TagsKept, ListedIsComplete, TaggedIsKept
<1> QED
  BY <1>1, ScopeInvHolds, PTL

\* A Create on bolt that reports success has made a complete, listed snapshot.
THEOREM CreatedSnapshotsAreComplete ==
    ASSUME Backend = "bolt"
    PROVE  Spec => []CreatedIsComplete
<1>1. ScopeInv => CreatedIsComplete
  BY DEF ScopeInv, CreateInv, ListedIsComplete, CreatedIsComplete
<1> QED
  BY <1>1, ScopeInvHolds, PTL

-----------------------------------------------------------------------------
\* What a GC has still to delete accounts for every manifest that its index will
\* not list and for every object that nothing listed refers to.
GarbageInv ==
    \A p \in Procs :
        /\ pc[p] \in {"recover", "recoverRefs"} =>
              manifests \subseteq index.ids \cup job[p].doomed
        /\ pc[p] \in {"prune", "pruneRefs"} =>
              manifests \subseteq job[p].view.ids \cup job[p].doomed
        /\ pc[p] = "mark" => manifests \subseteq index.ids
        /\ pc[p] = "sweep" =>
              /\ manifests = index.ids
              /\ objects \subseteq Referenced(index.ids) \cup job[p].sweep
        /\ pc[p] = "unlock" /\ job[p].op = "gc" =>
              /\ manifests = index.ids
              /\ objects = Referenced(index.ids)

\* Under the store's lock and the scope lock a GC is alone: until its own next
\* step nobody changes what it works on.
LEMMA GCIsAlone ==
    ASSUME Backend = "bolt", TypeInv, LockInv, StoreInv, [Next]_vars,
           NEW p \in Procs, pc[p] \in Inside, job[p].op = "gc",
           pc'[p] = pc[p], job'[p] = job[p]
    PROVE  UNCHANGED <<index, manifests, docrefs, objects, scanned>>
<1> USE ScopeAssumption DEF TypeInv, JobInv, TypeOK, Goto, LockInv, StoreInv, Inside,
        CreateLabels, TagLabels, GCLabels
<1>0. pc[p] \in Labels /\ job \in [Procs -> Job] /\ pc \in [Procs -> Labels]
  OBVIOUS
<1>1. ASSUME NEW q \in Procs, CreateStep(q)
      PROVE  UNCHANGED <<index, manifests, docrefs, objects, scanned>>
  <2>1. q # p
    BY <1>1 DEF CreateStep, BeginCreate, PutObjects, WriteDocRefs, StampManifest,
       SaveManifest, LoadForPublish, Publish
  <2>2. job[q].op # "create"
    BY <2>1
  <2> QED BY <1>1, <2>2 DEF CreateStep, BeginCreate, PutObjects, WriteDocRefs,
          StampManifest, SaveManifest, LoadForPublish, Publish, diskVars
<1>2. ASSUME NEW q \in Procs, TagStep(q)
      PROVE  UNCHANGED <<index, manifests, docrefs, objects, scanned>>
  <2>1. q # p
    BY <1>2 DEF TagStep, BeginTag, LoadForTag, AlreadyTagged, LabelManifest, TagIndex
  <2>2. pc[q] \notin Inside
    BY <2>1
  <2> QED BY <1>2, <2>2 DEF TagStep, BeginTag, LoadForTag, AlreadyTagged, LabelManifest,
          TagIndex, diskVars
<1>3. ASSUME NEW q \in Procs, GCStep(q)
      PROVE  UNCHANGED <<index, manifests, docrefs, objects, scanned>>
  <2>1. CASE BeginGC(q)
    BY <2>1 DEF BeginGC, diskVars
  <2>2. CASE SweepObject(q)
    <3>1. q = p
      BY <2>2 DEF SweepObject
    <3>2. PICK h \in job[p].sweep : job'[p] = [job[p] EXCEPT !.sweep = @ \ {h}]
      BY <2>2, <3>1 DEF SweepObject
    <3>3. job'[p].sweep = job[p].sweep \ {h}
      BY <3>2 DEF Job
    <3> QED BY <3>2, <3>3
  <2>3. CASE GCStep(q) /\ ~BeginGC(q) /\ ~SweepObject(q)
    <3>1. q = p
      BY <2>3 DEF GCStep, LoadForGC, RecoverManifest, RecoverDocRefs, PruneManifest,
         PruneDocRefs, RemoveManifest, DeleteDocRefs, DecideKept, SavePrunedIndex, Mark,
         SweepDone
    <3>2. pc'[p] # pc[p]
      BY <2>3, <3>1 DEF GCStep, LoadForGC, RecoverManifest, RecoverDocRefs, PruneManifest,
         PruneDocRefs, RemoveManifest, DeleteDocRefs, DecideKept, SavePrunedIndex, Mark,
         SweepDone
    <3> QED BY <3>2
  <2> QED BY <1>3, <2>1, <2>2, <2>3
<1>4. ASSUME NEW q \in Procs, LockStep(q)
      PROVE  UNCHANGED <<index, manifests, docrefs, objects, scanned>>
  BY <1>4 DEF LockStep, TakeScopeLock, ReclaimScopeLock, Finish, Fail, Return, Die, diskVars
<1>5. CASE UNCHANGED vars
  BY <1>5 DEF vars, diskVars
<1> QED BY <1>1, <1>2, <1>3, <1>4, <1>5 DEF Next

LEMMA GarbageInvStep ==
    ASSUME Backend = "bolt", TypeInv, ScopeInv, GarbageInv, [Next]_vars
    PROVE  GarbageInv'
<1> DEFINE Clean(p) ==
        /\ pc[p] \in {"recover", "recoverRefs"} =>
              manifests \subseteq index.ids \cup job[p].doomed
        /\ pc[p] \in {"prune", "pruneRefs"} =>
              manifests \subseteq job[p].view.ids \cup job[p].doomed
        /\ pc[p] = "mark" => manifests \subseteq index.ids
        /\ pc[p] = "sweep" =>
              /\ manifests = index.ids
              /\ objects \subseteq Referenced(index.ids) \cup job[p].sweep
        /\ pc[p] = "unlock" /\ job[p].op = "gc" =>
              /\ manifests = index.ids
              /\ objects = Referenced(index.ids)
<1> SUFFICES ASSUME NEW p \in Procs PROVE Clean(p)'
  BY DEF GarbageInv
<1>0. Clean(p) /\ TypeOK /\ LockInv
  BY DEF GarbageInv, ScopeInv, TypeInv
<1>1. CASE pc'[p] = pc[p] /\ job'[p] = job[p]
  <2>1. CASE pc[p] \in Inside /\ job[p].op = "gc"
    <3>1. UNCHANGED <<index, manifests, docrefs, objects, scanned>>
      BY <1>1, <2>1, GCIsAlone DEF ScopeInv
    <3> QED BY <1>0, <1>1, <3>1 DEF Referenced
  <2>2. CASE ~(pc[p] \in Inside /\ job[p].op = "gc")
    BY <1>1, <2>2 DEF Inside, TypeInv, JobInv, GCLabels
  <2> QED BY <2>1, <2>2
<1>2. CASE ~(pc'[p] = pc[p] /\ job'[p] = job[p])
  <2> USE DEF Goto, TypeOK, TypeInv, JobInv, CreateLabels, TagLabels, GCLabels
  <2>1. ASSUME NEW q \in Procs, q # p,
               CreateStep(q) \/ TagStep(q) \/ GCStep(q) \/ LockStep(q)
        PROVE  pc'[p] = pc[p] /\ job'[p] = job[p]
    BY <2>1, DecideKeptEffect
       DEF CreateStep, TagStep, GCStep, LockStep, BeginCreate, PutObjects,
           WriteDocRefs, StampManifest, SaveManifest, LoadForPublish, Publish, BeginTag,
           LoadForTag, AlreadyTagged, LabelManifest, TagIndex, BeginGC, LoadForGC,
           RecoverManifest, RecoverDocRefs, PruneManifest, PruneDocRefs,
           RemoveManifest, DeleteDocRefs, SavePrunedIndex, Mark, SweepObject,
           SweepDone, TakeScopeLock, ReclaimScopeLock, Finish, Fail, Return, Die
  <2>2. CreateStep(p) \/ TagStep(p) \/ GCStep(p) \/ LockStep(p)
    BY <1>2, <2>1 DEF Next, vars
  <2>3. CASE CreateStep(p) \/ TagStep(p)
    BY <2>3 DEF CreateStep, TagStep, BeginCreate, PutObjects, WriteDocRefs, StampManifest,
       SaveManifest, LoadForPublish, Publish, BeginTag, LoadForTag, AlreadyTagged,
       LabelManifest, TagIndex, NoJob
  <2>4. CASE LockStep(p)
    BY <2>4 DEF LockStep, TakeScopeLock, ReclaimScopeLock, Mutex!Reclaim, Finish, Fail,
       Return, Die, NoJob
  <2>5. CASE BeginGC(p)
    BY <2>5 DEF BeginGC
  <2>6. CASE LoadForGC(p)
    BY <2>6 DEF LoadForGC, diskVars
  <2>7. CASE RecoverManifest(p) \/ PruneManifest(p)
    BY <1>0, <2>7 DEF RecoverManifest, PruneManifest, RemoveManifest, Job
  <2>8. CASE RecoverDocRefs(p) \/ PruneDocRefs(p)
    <3>1. job[p].id \notin manifests
      BY <2>8 DEF RecoverDocRefs, PruneDocRefs, DeleteDocRefs, ScopeInv, GCInv
    <3>2. /\ job'[p].doomed = job[p].doomed \ {job[p].id}
          /\ job'[p].view = job[p].view
      BY <2>8 DEF RecoverDocRefs, PruneDocRefs, DeleteDocRefs, Job
    <3>3. UNCHANGED <<index, manifests>>
      BY <2>8 DEF RecoverDocRefs, PruneDocRefs, DeleteDocRefs
    <3>4. \/ pc[p] = "recoverRefs" /\ pc'[p] = "recover"
          \/ pc[p] = "pruneRefs" /\ pc'[p] = "prune"
      BY <2>8 DEF RecoverDocRefs, PruneDocRefs, DeleteDocRefs
    <3> HIDE DEF Goto, TypeOK, TypeInv, JobInv
    <3> QED BY <1>0, <3>1, <3>2, <3>3, <3>4
  <2>9. CASE DecideKept(p)
    <3>1. manifests \subseteq job[p].view.ids
      BY <1>0, <2>9 DEF DecideKept, LockInv
    <3>2. pc'[p] = "prune" /\ UNCHANGED manifests
      BY <2>9, DecideKeptEffect DEF diskVars
    <3>3. job'[p].doomed = job[p].view.ids \ job'[p].view.ids
      BY <2>9, DecideKeptEffect
    <3> QED BY <3>1, <3>2, <3>3
  <2>10. CASE SavePrunedIndex(p)
    BY <1>0, <2>10 DEF SavePrunedIndex
  <2>11. CASE Mark(p)
    <3>1. job[p].view = index /\ pc[p] = "mark" /\ pc'[p] = "sweep"
      BY <1>0, <2>11 DEF Mark, LockInv
    <3>2. job'[p].sweep = objects \ Referenced(index.ids)
      BY <2>11, <3>1 DEF Mark, Job
    <3>3. UNCHANGED <<index, manifests, docrefs, objects, scanned>>
      BY <2>11 DEF Mark, diskVars
    <3>4. manifests = index.ids
      BY <1>0, <2>11, <3>1 DEF Mark
    <3>5. UNCHANGED Referenced(index.ids)
      BY <3>3 DEF Referenced
    <3> HIDE DEF Goto, TypeOK, TypeInv, JobInv
    <3> QED BY <3>1, <3>2, <3>3, <3>4, <3>5
  <2>12. CASE SweepObject(p)
    <3>1. PICK h \in job[p].sweep : /\ objects' = objects \ {h}
                                    /\ job'[p].sweep = job[p].sweep \ {h}
      BY <2>12 DEF SweepObject, Job
    <3>2. pc[p] = "sweep" /\ pc'[p] = "sweep" /\ UNCHANGED <<index, manifests, docrefs, scanned>>
      BY <2>12 DEF SweepObject
    <3>3. UNCHANGED Referenced(index.ids)
      BY <3>2 DEF Referenced
    <3> HIDE DEF Goto, TypeOK, TypeInv, JobInv
    <3> QED BY <1>0, <3>1, <3>2, <3>3
  <2>13. CASE SweepDone(p)
    <3>1. /\ pc[p] = "sweep" /\ pc'[p] = "unlock" /\ job[p].sweep = {}
          /\ UNCHANGED <<index, manifests, docrefs, objects, scanned>>
      BY <2>13 DEF SweepDone, diskVars
    <3>2. manifests = index.ids /\ objects \subseteq Referenced(index.ids)
      BY <1>0, <3>1
    <3>3. Referenced(index.ids) \subseteq objects
      BY <3>2 DEF Referenced, ScopeInv, ListedIsComplete, Complete
    <3>4. UNCHANGED Referenced(index.ids)
      BY <3>1 DEF Referenced
    <3> HIDE DEF Goto, TypeOK, TypeInv, JobInv
    <3> QED BY <3>1, <3>2, <3>3, <3>4
  <2> QED BY <2>2, <2>3, <2>4, <2>5, <2>6, <2>7, <2>8, <2>9, <2>10, <2>11, <2>12, <2>13
          DEF GCStep
<1> QED BY <1>1, <1>2

\* A GC on bolt that gets to its end has left no manifest that the index does not
\* list and no object that no listed snapshot needs, whatever was interrupted before.
THEOREM FinishedGCLeavesNoGarbage ==
    ASSUME Backend = "bolt"
    PROVE  Spec => []GCLeavesNoGarbage
<1>1. Init => GarbageInv
  BY DEF Init, GarbageInv, NoJob
<1>2. GarbageInv => GCLeavesNoGarbage
  BY DEF GarbageInv, GCLeavesNoGarbage
<1>3. TypeInv /\ ScopeInv /\ GarbageInv /\ [Next]_vars => GarbageInv'
  BY GarbageInvStep
<1> QED
  BY <1>1, <1>2, <1>3, ScopeInvHolds, PTL DEF Spec

-----------------------------------------------------------------------------
(* A bolt scope implements the abstract history: for its user, snapshots   *)
(* appear whole, are pinned, and disappear whole.                          *)

\* The snapshots a user can see and open, and what a restore of each reads:
\* exactly what its Create scanned.
Shown   == index.ids \cap manifests
Content == [i \in Shown |-> scanned[i]]

LEMMA RestorableIsScanned ==
    TypeOK /\ ListedIsComplete
        => [i \in index.ids \cap manifests |-> Restorable(i)] = Content
<1> SUFFICES ASSUME TypeOK, ListedIsComplete
             PROVE  [i \in index.ids \cap manifests |-> Restorable(i)] = Content
  OBVIOUS
<1>1. ASSUME NEW i \in Shown PROVE Restorable(i) = scanned[i]
  <2>1. scanned[i] \in [Colls -> SUBSET Hashes]
    BY DEF TypeOK, Shown
  <2>2. \A c \in Colls : <<i, c>> \in docrefs /\ scanned[i][c] \subseteq objects
    BY DEF ListedIsComplete, Complete, Shown
  <2>3. \A c \in Colls : (IF <<i, c>> \in docrefs THEN scanned[i][c] \cap objects
                          ELSE {}) = scanned[i][c]
    BY <2>2
  <2> QED BY <2>1, <2>3 DEF Restorable
<1> QED
  BY <1>1 DEF Content, Shown

\* The abstract step of each step, over Content.
LEMMA ContentStep ==
    ASSUME Backend = "bolt", TypeInv, ScopeInv, [Next]_vars
    PROVE  \/ /\ Content' = Content
              /\ index'.tagged = index.tagged
           \/ \E i \in Ids, content \in [Colls -> SUBSET Hashes] :
                 /\ i \notin DOMAIN Content
                 /\ Content' = [j \in DOMAIN Content \cup {i} |->
                                   IF j = i THEN content ELSE Content[j]]
                 /\ index'.tagged = index.tagged
           \/ \E i \in Ids :
                 /\ i \in DOMAIN Content
                 /\ index'.tagged = index.tagged \cup {i}
                 /\ Content' = Content
           \/ \E i \in Ids :
                 /\ i \in DOMAIN Content \ index.tagged
                 /\ Content' = [j \in DOMAIN Content \ {i} |-> Content[j]]
                 /\ index'.tagged = index.tagged
<1> DEFINE Stutter == Content' = Content /\ index'.tagged = index.tagged
<1>1. ASSUME Shown' = Shown, \A i \in Shown : scanned'[i] = scanned[i],
             index'.tagged = index.tagged
      PROVE  Stutter
  BY <1>1 DEF Content
<1>2. CASE UNCHANGED <<index, manifests, scanned>>
  BY <1>1, <1>2 DEF Shown
<1>3. ASSUME NEW p \in Procs, PutObjects(p) PROVE Stutter
  <2>1. job[p].id \notin index.ids /\ UNCHANGED <<index, manifests>>
    BY <1>3 DEF PutObjects, TypeInv, JobInv, ScopeInv, CreateInv, Goto, CreateLabels
  <2>2. \A i \in Ids \ {job[p].id} : scanned'[i] = scanned[i]
    BY <1>3 DEF PutObjects, TypeInv, TypeOK
  <2>3. index.ids \subseteq Ids
    BY DEF TypeInv, TypeOK, Index
  <2> QED BY <1>1, <2>1, <2>2, <2>3 DEF Shown
<1>4. ASSUME NEW p \in Procs, SaveManifest(p) PROVE Stutter
  <2>1. job[p].id \notin index.ids
    BY <1>4 DEF SaveManifest, TypeInv, JobInv, ScopeInv, CreateInv, Goto, CreateLabels
  <2> QED BY <1>1, <1>4, <2>1 DEF SaveManifest, Shown
<1>5. ASSUME NEW p \in Procs, LabelManifest(p) PROVE Stutter
  <2>1. job[p].id \in manifests
    BY <1>5 DEF LabelManifest, ScopeInv, TagInv, Goto, TagLabels
  <2> QED BY <1>1, <1>5, <2>1 DEF LabelManifest, Shown
<1>6. ASSUME NEW p \in Procs, RecoverManifest(p) PROVE Stutter
  <2>1. job[p].doomed \cap index.ids = {}
    BY <1>6 DEF RecoverManifest, RemoveManifest, ScopeInv, GCInv, Goto
  <2> QED BY <1>1, <1>6, <2>1 DEF RecoverManifest, RemoveManifest, Shown
<1>7. ASSUME NEW p \in Procs, SavePrunedIndex(p) PROVE Stutter
  <2>1. /\ job[p].view.tagged = index.tagged
        /\ job[p].view.ids \subseteq index.ids
        /\ manifests \cap (index.ids \ job[p].view.ids) = {}
    BY <1>7 DEF SavePrunedIndex, ScopeInv, LockInv, GCInv, Goto
  <2> QED BY <1>1, <1>7, <2>1 DEF SavePrunedIndex, Shown
<1>8. ASSUME NEW p \in Procs, Publish(p)
      PROVE  \E i \in Ids, content \in [Colls -> SUBSET Hashes] :
                 /\ i \notin DOMAIN Content
                 /\ Content' = [j \in DOMAIN Content \cup {i} |->
                                   IF j = i THEN content ELSE Content[j]]
                 /\ index'.tagged = index.tagged
  <2> DEFINE i == job[p].id
  <2>1. pc[p] = "publish" /\ job[p].op = "create" /\ i \in Ids
    BY <1>8 DEF Publish, TypeInv, JobInv, Goto, CreateLabels
  <2>2. i \notin index.ids /\ i \in manifests /\ job[p].view = index
    BY <2>1 DEF ScopeInv, CreateInv, LockInv
  <2>3. index' = [index EXCEPT !.ids = @ \cup {i}] /\ UNCHANGED <<manifests, scanned>>
    BY <1>8, <2>2 DEF Publish
  <2>4. index'.ids = index.ids \cup {i} /\ index'.tagged = index.tagged
    BY <2>3 DEF TypeInv, TypeOK, Index
  <2>5. Shown' = Shown \cup {i} /\ i \notin Shown
    BY <2>2, <2>3, <2>4 DEF Shown
  <2>6. scanned[i] \in [Colls -> SUBSET Hashes]
    BY <2>1 DEF TypeInv, TypeOK
  <2>7. Content' = [j \in Shown \cup {i} |-> IF j = i THEN scanned[i] ELSE Content[j]]
    BY <2>3, <2>5 DEF Content
  <2> QED BY <2>1, <2>4, <2>5, <2>6, <2>7 DEF Content
<1>9. ASSUME NEW p \in Procs, TagIndex(p)
      PROVE  \E i \in Ids : /\ i \in DOMAIN Content
                            /\ index'.tagged = index.tagged \cup {i}
                            /\ Content' = Content
  <2> DEFINE i == job[p].id
  <2>1. i \in Shown /\ i \in Ids /\ job[p].view = index
    BY <1>9 DEF TagIndex, TypeInv, JobInv, ScopeInv, LockInv, TagInv, Goto,
                TagLabels, Shown
  <2>2. index' = [index EXCEPT !.tagged = @ \cup {i}] /\ UNCHANGED <<manifests, scanned>>
    BY <1>9, <2>1 DEF TagIndex
  <2>3. index'.ids = index.ids /\ index'.tagged = index.tagged \cup {i}
    BY <2>2 DEF TypeInv, TypeOK, Index
  <2> QED BY <2>1, <2>2, <2>3 DEF Content, Shown
<1>10. ASSUME NEW p \in Procs, PruneManifest(p)
       PROVE  \/ Stutter
              \/ \E i \in Ids : /\ i \in DOMAIN Content \ index.tagged
                                /\ Content' = [j \in DOMAIN Content \ {i} |-> Content[j]]
                                /\ index'.tagged = index.tagged
  <2>1. PICK i \in job[p].doomed : manifests' = manifests \ {i}
    BY <1>10 DEF PruneManifest, RemoveManifest
  <2>2. UNCHANGED <<index, scanned>>
    BY <1>10 DEF PruneManifest, RemoveManifest
  <2>3. i \notin index.tagged
    BY <1>10 DEF PruneManifest, RemoveManifest, ScopeInv, GCInv, Goto
  <2>4. Shown' = Shown \ {i} /\ Shown \subseteq Ids
    BY <2>1, <2>2 DEF Shown, TypeInv, TypeOK
  <2>5. CASE i \in Shown
    <3>1. Content' = [j \in Shown \ {i} |-> Content[j]]
      BY <2>2, <2>4 DEF Content
    <3> QED BY <2>2, <2>3, <2>4, <2>5, <3>1 DEF Content
  <2>6. CASE i \notin Shown
    BY <1>1, <2>2, <2>4, <2>6
  <2> QED BY <2>5, <2>6
<1> QED
  BY <1>2, <1>3, <1>4, <1>5, <1>6, <1>7, <1>8, <1>9, <1>10
     DEF Next, CreateStep, TagStep, GCStep, LockStep, BeginCreate, WriteDocRefs,
         StampManifest, LoadForPublish, BeginTag, LoadForTag, AlreadyTagged,
         BeginGC, LoadForGC, RecoverDocRefs, PruneDocRefs, DeleteDocRefs,
         DecideKept, Mark, SweepObject, SweepDone, TakeScopeLock,
         ReclaimScopeLock, Finish, Fail, Return, Die, vars, diskVars

\* Create, Tag and GC, spread over a dozen file operations under two locks, with
\* failures and crashes in between, are the atomic steps of SnapshotHistory; and
\* what a snapshot restores never changes.
THEOREM ScopeImplementsHistory ==
    ASSUME Backend = "bolt"
    PROVE  Spec => ImplementsHistory
<1>1. Init => History!HistoryInit
  BY DEF Init, History!HistoryInit, NoIndex
<1>2. ASSUME TypeInv, ScopeInv, TypeInv', ScopeInv', [Next]_vars
      PROVE  [History!HistoryNext]_(History!historyVars)
  <2>1. [i \in index.ids \cap manifests |-> Restorable(i)] = Content
    BY <1>2, RestorableIsScanned DEF TypeInv, ScopeInv
  <2>2. (TypeOK /\ ListedIsComplete
          => [i \in index.ids \cap manifests |-> Restorable(i)] = Content)'
    BY RestorableIsScanned, PTL
  <2>3. [i \in index'.ids \cap manifests' |-> Restorable(i)'] = Content'
    BY <1>2, <2>2 DEF TypeInv, ScopeInv
  <2> QED
    BY <1>2, <2>1, <2>3, ContentStep
       DEF History!HistoryNext, History!Publish, History!Pin, History!Prune,
           History!historyVars
<1> QED
  BY <1>1, <1>2, ScopeInvHolds, PTL DEF Spec, ImplementsHistory, History!HistorySpec

-----------------------------------------------------------------------------
(***************************************************************************)
(* The scan of a collection and what is made of it (LiveDiff).             *)
(***************************************************************************)

Known == UNION {ToSet(refs) : refs \in Inputs \cup StoredRefs}
Good == {Encoded(r) : r \in Known}
Outcomes == Good \cup {Failed}

Bad(outcomes) == \E o \in ToSet(outcomes) : o.err
BadWorker == \E w \in Workers : worker[w].pc = "sending" /\ worker[w].result.err
Quiet == faults \subseteq {"use"}

\* The goroutines of a scan.  Every failure is on its way to the caller or has arrived.
GoroutineInv ==
    /\ persist \in BOOLEAN /\ input \in Inputs
    /\ reader \in [pos : Nat \ {0}, pc : {"reading", "done"}, err : BOOLEAN]
    /\ reader.pos <= Len(input) + 1
    /\ jobs \in Seq(Outcomes) /\ Len(jobs) <= ChannelSize
    /\ results \in Seq(Outcomes) /\ Len(results) <= ChannelSize
    /\ worker \in [Workers -> [pc : {"start", "idle", "done"}] \cup [pc : {"sending"}, result : Outcomes]]
    /\ firstErr \in BOOLEAN
    /\ reader.err => reader.pc = "done"
    /\ \A w \in Workers : worker[w].pc = "done" =>
           "codec" \in faults \/ (reader.pc = "done" /\ jobs = <<>>)

FaultInv ==
    /\ faults \subseteq {"decode", "cursor", "codec", "encode", "tempdir", "put", "spill", "use"}
    /\ "decode" \in faults => firstErr \/ Bad(results) \/ BadWorker \/ Bad(jobs)
    /\ "encode" \in faults => firstErr \/ Bad(results) \/ BadWorker
    /\ "codec" \in faults => firstErr \/ Bad(results)
    /\ "cursor" \in faults => reader.err
    /\ {"put", "spill"} \cap faults # {} => firstErr
    /\ "tempdir" \in faults => main = "error"

\* The calling goroutine.
MainInv ==
    /\ main \in {"spill", "drain", "ok", "error"} /\ tempDir \in BOOLEAN /\ count \in Nat
    /\ main \in {"spill", "error"} => ~tempDir
    /\ main = "error" => "tempdir" \in faults \/ firstErr \/ reader.err
    /\ main = "ok" => /\ Quiet /\ ~firstErr /\ ~reader.err /\ reader.pc = "done" /\ WorkersDone
                      /\ jobs = <<>> /\ results = <<>> /\ batch = <<>>

\* Without a failure each document read so far is in one place: in a channel, with a
\* worker or in the spill.
Distinct(s) == \A i, j \in DOMAIN s : s[i] = s[j] => i = j
Busy     == {w \in Workers : worker[w].pc = "sending"}
Read     == {input[i] : i \in 1..reader.pos - 1}
RefsIn(outcomes) == {o.ref : o \in ToSet(outcomes)}
Queued   == RefsIn(jobs)
Working  == {worker[w].result.ref : w \in Busy}
Ready    == RefsIn(results)
Taken    == HeldBy(SpilledRuns)

PlaceInv ==
    Quiet =>
        /\ ~firstErr /\ ~reader.err /\ jobs \in Seq(Good) /\ results \in Seq(Good)
        /\ \A w \in Busy : worker[w].result \in Good
        /\ reader.pc = "done" => reader.pos = Len(input) + 1
        /\ Read = Queued \cup Working \cup Ready \cup Taken
        /\ Queued \cap (Working \cup Ready \cup Taken) = {}
        /\ Working \cap (Ready \cup Taken) = {} /\ Ready \cap Taken = {}
        /\ Distinct(jobs) /\ Distinct(results)
        /\ \A v, w \in Busy : worker[v].result = worker[w].result => v = w

\* The spill, in the same case.
SpillInv ==
    Quiet =>
        /\ spill \in [buf : Seq(Known), runs : Seq(Seq(Known)), dirty : BOOLEAN]
        /\ NoneTwice(SpilledRuns)
        /\ IsFiniteSet(Taken) /\ count = Cardinality(Taken)
        /\ \A i \in DOMAIN spill.runs : spill.runs[i] # <<>> /\ InIdOrder(spill.runs[i])
        /\ stage \in {"scan", "open"} => spill.dirty = (spill.buf # <<>>)

\* The store.
BatchInv ==
    Quiet =>
        /\ batch \in Seq({r.hash : r \in Known})
        /\ IF persist THEN {r.hash : r \in Taken} \subseteq stored \cup ToSet(batch) ELSE batch = <<>>

-----------------------------------------------------------------------------
\* Where a request is.
RequestInv ==
    /\ stage \in {"scan", "open", "join", "write", "done", "failed", "panicked"}
    /\ caller \in {"create", "diff", "cli", "tui", "count", "page"} /\ target \in {"live", "stored"}
    /\ (caller = "create") = persist
    /\ caller = "create" => target = "live"
    /\ target = "live" /\ stage # "scan" => main \in {"ok", "error"}
    /\ target = "live" /\ stage \notin {"scan", "failed"} => main = "ok"
    /\ target = "stored" => main = "spill" /\ faults \subseteq {"use"} /\ stage # "scan"
    /\ stage \in {"scan", "open"} => from = <<>> /\ to = <<>> /\ changes = <<>> /\ written = <<>> /\ page = EmptyPage
    /\ stage \in {"scan", "open"} => caller \in {"create", "diff"}
    /\ stage = "write" => caller = "create" /\ from = <<>>
    /\ stage = "join" => caller # "create"
    /\ stage \in {"join", "done"} /\ caller # "create" => old \in StoredRefs /\ (target = "stored" => new \in StoredRefs)
    /\ stage \in {"join", "done"} /\ caller = "page" => want \in Wants
    /\ stage \in {"done", "failed"} => ~tempDir

\* The runs of a merge.
Merging(runs) ==
    /\ runs \in Seq(Seq(Known)) /\ NoneTwice(runs)
    /\ \A i \in DOMAIN runs : runs[i] # <<>> /\ InIdOrder(runs[i])

Left == IdsIn(HeldBy(from)) \cup IdsIn(HeldBy(to))

\* A diff: the changes found so far are those of the identifiers both sides have passed.
JoinInv ==
    stage = "join" =>
        /\ Merging(from) /\ Merging(to)
        /\ HeldBy(from) = {r \in ToSet(old) : r.id \in Left}
        /\ HeldBy(to) = {r \in ToSet(NewRefs) : r.id \in Left}
        /\ ToSet(changes) = {c \in ChangesBetween(old, NewRefs) : c.id \notin Left}
        /\ \A c \in ToSet(changes), i \in Left : c.id < i

\* The changes are a list in order, and so is what Create writes.
ChangeRecords == [type : {"added", "removed", "modified"}, id : Int]

OrderInv ==
    /\ changes \in Seq(ChangeRecords) /\ InIdOrder(changes)
    /\ written \in Seq(Known) /\ InIdOrder(written)

WriteInv ==
    stage = "write" =>
        /\ Merging(to) /\ ToSet(written) \cup HeldBy(to) = ToSet(input)
        /\ \A r \in ToSet(written), q \in HeldBy(to) : r.id < q.id

\* The page: one slice of the changes of its type, numbered as they come.
Numbered(list, type, n) == Cardinality({i \in 1..n : list[i].type = type})

IsPage(p, list, type, start, limit) ==
    LET total == Numbered(list, type, Len(list))
    IN  /\ p \in [ids : Seq(Int), total : Nat] /\ p.total = total
        /\ Len(p.ids) <= limit
        /\ \A i \in DOMAIN p.ids : \E n \in DOMAIN list :
               list[n].type = type /\ Numbered(list, type, n) = start + i /\ p.ids[i] = list[n].id
        /\ Len(p.ids) < limit => (start >= total /\ p.ids = <<>>) \/ start + Len(p.ids) = total

PageInv ==
    stage \in {"join", "done"} /\ caller = "page" =>
        IsPage(page, changes, want.type, ClampedOffset(want.offset), ClampedLimit(want.limit, PageMax))

DoneInv ==
    stage = "done" => IF caller = "create" THEN ToSet(written) = ToSet(input)
                      ELSE ToSet(changes) = ChangesBetween(old, NewRefs)

ScanInv == GoroutineInv /\ FaultInv /\ MainInv /\ PlaceInv /\ SpillInv /\ BatchInv
DiffInv == RequestInv /\ JoinInv /\ OrderInv /\ WriteInv /\ PageInv /\ DoneInv
ResultInv == ScanInv /\ DiffInv

-----------------------------------------------------------------------------
\* Sequences, used as lists of what they hold.

LEMMA Appended ==
  ASSUME NEW S, NEW s \in Seq(S), NEW e \in S
  PROVE  /\ Append(s, e) \in Seq(S) /\ Len(Append(s, e)) = Len(s) + 1
         /\ \A i \in 1..Len(s) : Append(s, e)[i] = s[i]
         /\ Append(s, e)[Len(s) + 1] = e
         /\ ToSet(Append(s, e)) = ToSet(s) \cup {e}
<1>1. /\ Append(s, e) \in Seq(S) /\ Len(Append(s, e)) = Len(s) + 1
      /\ \A i \in 1..Len(s) : Append(s, e)[i] = s[i]
      /\ Append(s, e)[Len(s) + 1] = e
  OBVIOUS
<1>2. DOMAIN Append(s, e) = 1..(Len(s) + 1) /\ DOMAIN s = 1..Len(s) /\ Len(s) \in Nat
  BY <1>1
<1>3. ToSet(Append(s, e)) \subseteq ToSet(s) \cup {e}
  BY <1>1, <1>2 DEF ToSet
<1>4. ToSet(s) \cup {e} \subseteq ToSet(Append(s, e))
  BY <1>1, <1>2 DEF ToSet
<1> QED BY <1>1, <1>3, <1>4

LEMMA Shortened ==
  ASSUME NEW S, NEW s \in Seq(S), s # <<>>
  PROVE  /\ Head(s) \in S /\ Head(s) = s[1] /\ Tail(s) \in Seq(S) /\ Len(Tail(s)) = Len(s) - 1
         /\ \A i \in 1..Len(s) - 1 : Tail(s)[i] = s[i + 1]
         /\ ToSet(s) = ToSet(Tail(s)) \cup {Head(s)}
<1>1. /\ Head(s) \in S /\ Head(s) = s[1] /\ Tail(s) \in Seq(S) /\ Len(Tail(s)) = Len(s) - 1
      /\ \A i \in 1..Len(s) - 1 : Tail(s)[i] = s[i + 1]
  OBVIOUS
<1>2. DOMAIN s = 1..Len(s) /\ DOMAIN Tail(s) = 1..(Len(s) - 1) /\ Len(s) \in Nat \ {0}
  BY <1>1
<1>3. ToSet(Tail(s)) \cup {Head(s)} \subseteq ToSet(s)
  BY <1>1, <1>2 DEF ToSet
<1>4. ASSUME NEW i \in DOMAIN s PROVE s[i] \in ToSet(Tail(s)) \cup {Head(s)}
  <2>1. CASE i = 1
    BY <1>1, <2>1
  <2>2. CASE i # 1
    <3>1. i - 1 \in 1..Len(s) - 1 /\ Tail(s)[i - 1] = s[i]
      BY <1>1, <1>2, <2>2
    <3> QED BY <1>2, <3>1 DEF ToSet
  <2> QED BY <2>1, <2>2
<1> QED BY <1>1, <1>3, <1>4 DEF ToSet

LEMMA ListOf == ASSUME NEW S, NEW s \in Seq(S)
                PROVE  ToSet(s) \subseteq S /\ DOMAIN s = 1..Len(s) /\ Len(s) \in Nat
                       /\ (s = <<>> <=> Len(s) = 0) /\ (s = <<>> <=> ToSet(s) = {})
<1>1. DOMAIN s = 1..Len(s) /\ Len(s) \in Nat /\ (s = <<>> <=> Len(s) = 0)
  OBVIOUS
<1>2. ToSet(s) \subseteq S
  BY <1>1 DEF ToSet
<1>3. s # <<>> => s[1] \in ToSet(s)
  BY <1>1 DEF ToSet
<1>4. s = <<>> => ToSet(s) = {}
  BY <1>1 DEF ToSet
<1> QED BY <1>1, <1>2, <1>3, <1>4

LEMMA DistinctLists ==
  ASSUME NEW S, NEW s \in Seq(S), Distinct(s)
  PROVE  /\ \A e \in S \ ToSet(s) : Distinct(Append(s, e))
         /\ s # <<>> => Distinct(Tail(s)) /\ Head(s) \notin ToSet(Tail(s))
<1>1. ASSUME NEW e \in S \ ToSet(s) PROVE Distinct(Append(s, e))
  <2>1. /\ DOMAIN Append(s, e) = 1..(Len(s) + 1) /\ Len(s) \in Nat /\ DOMAIN s = 1..Len(s)
        /\ \A i \in 1..Len(s) : Append(s, e)[i] = s[i] /\ s[i] # e
        /\ Append(s, e)[Len(s) + 1] = e
    BY Appended, ListOf DEF ToSet
  <2> QED BY <2>1 DEF Distinct
<1>2. ASSUME s # <<>> PROVE Distinct(Tail(s)) /\ Head(s) \notin ToSet(Tail(s))
  <2>1. /\ DOMAIN Tail(s) = 1..(Len(s) - 1) /\ DOMAIN s = 1..Len(s) /\ Len(s) \in Nat \ {0}
        /\ Head(s) = s[1] /\ \A i \in 1..Len(s) - 1 : Tail(s)[i] = s[i + 1]
    BY <1>2, Shortened, ListOf
  <2> QED BY <2>1 DEF Distinct, ToSet
<1> QED BY <1>1, <1>2

\* What the channels carry.
LEMMA OutcomeFields ==
  /\ Failed.err = TRUE /\ Failed \in Outcomes
  /\ \A r : Encoded(r).err = FALSE /\ Encoded(r).ref = r /\ (r \in Known <=> Encoded(r) \in Good)
  /\ \A o \in Outcomes : o.err \in BOOLEAN /\ (o.err = FALSE <=> o \in Good)
  /\ \A o \in Good : o.ref \in Known /\ o = Encoded(o.ref) /\ o \in Outcomes
<1>1. Failed.err = TRUE /\ Failed \in Outcomes
  BY DEF Failed, Outcomes
<1>2. \A r : Encoded(r).err = FALSE /\ Encoded(r).ref = r
  BY DEF Encoded
<1>3. \A r \in Known : Encoded(r) \in Good
  BY DEF Good
<1>4. ASSUME NEW o \in Good PROVE o.ref \in Known /\ o = Encoded(o.ref) /\ o \in Outcomes /\ o.err = FALSE
  <2>1. PICK r \in Known : o = Encoded(r)
    BY DEF Good
  <2> QED BY <1>2, <2>1 DEF Outcomes
<1>5. ASSUME NEW r, Encoded(r) \in Good PROVE r \in Known
  BY <1>2, <1>4, <1>5
<1>6. ASSUME NEW o \in Outcomes PROVE o.err \in BOOLEAN /\ (o.err = FALSE <=> o \in Good)
  BY <1>1, <1>4 DEF Outcomes
<1> QED BY <1>1, <1>2, <1>3, <1>4, <1>5, <1>6

LEMMA KnownLists ==
  /\ \A r \in Known : r.id \in Int
  /\ \A refs \in Inputs \cup StoredRefs :
        refs \in Seq(Known) /\ \A i, j \in DOMAIN refs : refs[i].id = refs[j].id => i = j
  /\ \A refs \in StoredRefs : InIdOrder(refs)
<1>1. \A refs \in Inputs \cup StoredRefs : IsRefList(refs)
  BY ScanAssumption, DiffAssumption
<1>2. ASSUME NEW refs \in Inputs \cup StoredRefs PROVE refs \in Seq(Known)
  <2>1. refs \in Seq(ToSet(refs)) /\ ToSet(refs) \subseteq Known
    BY <1>1 DEF IsRefList, Known
  <2> QED BY <2>1
<1> QED BY <1>1, <1>2, DiffAssumption DEF IsRefList, Known

-----------------------------------------------------------------------------
\* Sorting: with distinct identifiers each place is taken once.

LEMMA Places ==
  ASSUME NEW s \in Seq(Known), \A i, j \in DOMAIN s : s[i].id = s[j].id => i = j
  PROVE  /\ \A k \in DOMAIN s : Place(s, k) \in DOMAIN s
         /\ \A k, m \in DOMAIN s : s[k].id < s[m].id => Place(s, k) < Place(s, m)
         /\ \A i \in DOMAIN s : \E k \in DOMAIN s : Place(s, k) = i
<1> DEFINE Below(k) == {j \in DOMAIN s : s[j].id <= s[k].id}
<1>1. DOMAIN s = 1..Len(s) /\ Len(s) \in Nat /\ \A i \in DOMAIN s : s[i].id \in Int
  BY ListOf, KnownLists
<1>2. IsFiniteSet(DOMAIN s) /\ Cardinality(DOMAIN s) = Len(s)
  BY <1>1, FS_Interval
<1>3. ASSUME NEW k \in DOMAIN s
      PROVE  IsFiniteSet(Below(k)) /\ Cardinality(Below(k)) \in 1..Len(s)
  <2>1. Below(k) \subseteq DOMAIN s /\ k \in Below(k)
    BY <1>1
  <2>2. IsFiniteSet(Below(k)) /\ Cardinality(Below(k)) <= Len(s)
    BY <1>2, <2>1, FS_Subset
  <2>3. Cardinality(Below(k)) \in Nat /\ Cardinality(Below(k)) # 0
    BY <2>1, <2>2, FS_CardinalityType, FS_EmptySet
  <2> QED BY <1>1, <2>2, <2>3
<1>4. ASSUME NEW k \in DOMAIN s, NEW m \in DOMAIN s, s[k].id < s[m].id
      PROVE  Cardinality(Below(k)) < Cardinality(Below(m))
  <2>1. Below(k) \subseteq Below(m) /\ m \in Below(m) /\ m \notin Below(k)
    BY <1>1, <1>4
  <2>2. /\ IsFiniteSet(Below(m)) /\ Cardinality(Below(k)) \in 1..Len(s)
        /\ Cardinality(Below(m)) \in 1..Len(s)
    BY <1>3
  <2> HIDE DEF Below
  <2>3. Cardinality(Below(k)) <= Cardinality(Below(m)) /\ Cardinality(Below(k)) # Cardinality(Below(m))
    BY <2>1, <2>2, FS_Subset
  <2> QED BY <1>1, <2>2, <2>3
<1> HIDE DEF Below
<1> DEFINE place == [k \in DOMAIN s |-> Cardinality(Below(k))]
<1>5. place \in Injection(DOMAIN s, DOMAIN s)
  <2>1. place \in [DOMAIN s -> DOMAIN s]
    BY <1>1, <1>3
  <2>2. ASSUME NEW k \in DOMAIN s, NEW m \in DOMAIN s, place[k] = place[m] PROVE k = m
    <3>1. Cardinality(Below(k)) = Cardinality(Below(m)) /\ Cardinality(Below(k)) \in Nat
      BY <1>1, <1>3, <2>2
    <3>2. ~(s[k].id < s[m].id) /\ ~(s[m].id < s[k].id)
      BY <1>4, <3>1
    <3> QED BY <1>1, <3>2
  <2> HIDE DEF place
  <2> QED BY <2>1, <2>2 DEF Injection, IsInjective
<1>6. place \in Surjection(DOMAIN s, DOMAIN s)
  <2> HIDE DEF place
  <2> QED BY <1>2, <1>5, FS_Injection
<1>7. \A i \in DOMAIN s : \E k \in DOMAIN s : place[k] = i
  <2> HIDE DEF place
  <2> QED BY <1>6 DEF Surjection
<1>8. \A k \in DOMAIN s : Place(s, k) = place[k] /\ place[k] = Cardinality(Below(k))
  BY DEF Place, Below
<1> HIDE DEF place
<1>9. \A k \in DOMAIN s : Place(s, k) \in DOMAIN s
  BY <1>1, <1>3, <1>8
<1>10. \A k, m \in DOMAIN s : s[k].id < s[m].id => Place(s, k) < Place(s, m)
  BY <1>4, <1>8
<1>11. \A i \in DOMAIN s : \E k \in DOMAIN s : Place(s, k) = i
  BY <1>7, <1>8
<1> QED BY <1>9, <1>10, <1>11

LEMMA SortedList ==
  ASSUME NEW s \in Seq(Known), \A i, j \in DOMAIN s : s[i].id = s[j].id => i = j
  PROVE  /\ SortById(s) \in Seq(Known) /\ Len(SortById(s)) = Len(s)
         /\ InIdOrder(SortById(s)) /\ ToSet(SortById(s)) = ToSet(s)
<1> DEFINE at(i) == CHOOSE k \in DOMAIN s : Place(s, k) = i
           t == SortById(s)
<1>1. DOMAIN s = 1..Len(s) /\ Len(s) \in Nat /\ \A i \in DOMAIN s : s[i] \in Known /\ s[i].id \in Int
  BY ListOf, KnownLists
<1>2. \A i \in DOMAIN s : at(i) \in DOMAIN s /\ Place(s, at(i)) = i
  BY Places
<1>3. \A k, m \in DOMAIN s : Place(s, k) \in DOMAIN s /\ (s[k].id < s[m].id => Place(s, k) < Place(s, m))
  BY Places
<1>4. t = [i \in DOMAIN s |-> s[at(i)]]
  BY DEF SortById
<1> HIDE DEF at, t
<1>5. t \in Seq(Known) /\ Len(t) = Len(s) /\ DOMAIN t = DOMAIN s
  BY <1>1, <1>2, <1>4
<1>6. InIdOrder(t)
  <2> SUFFICES ASSUME NEW i \in DOMAIN t, NEW j \in DOMAIN t, i < j PROVE t[i].id < t[j].id
    BY DEF InIdOrder
  <2>1. Place(s, at(i)) = i /\ Place(s, at(j)) = j /\ at(i) \in DOMAIN s /\ at(j) \in DOMAIN s
    BY <1>2, <1>5
  <2>2. at(i) # at(j) /\ ~(s[at(j)].id < s[at(i)].id)
    BY <1>1, <1>5, <2>1, <1>3
  <2>3. s[at(i)].id # s[at(j)].id
    BY <2>1, <2>2
  <2> QED BY <1>1, <1>4, <1>5, <2>1, <2>2, <2>3
<1>7. ASSUME NEW k \in DOMAIN s PROVE s[k] \in ToSet(t)
  <2>1. Place(s, k) \in DOMAIN s /\ at(Place(s, k)) \in DOMAIN s /\ Place(s, at(Place(s, k))) = Place(s, k)
    BY <1>2, Places
  <2>2. ~(s[k].id < s[at(Place(s, k))].id) /\ ~(s[at(Place(s, k))].id < s[k].id)
    BY <1>1, <2>1, <1>3
  <2>3. at(Place(s, k)) = k
    BY <1>1, <2>1, <2>2
  <2> QED BY <1>4, <1>5, <2>1, <2>3 DEF ToSet
<1>8. ToSet(t) \subseteq ToSet(s)
  BY <1>2, <1>4, <1>5 DEF ToSet
<1>9. ToSet(s) \subseteq ToSet(t)
  BY <1>7 DEF ToSet
<1> QED BY <1>5, <1>6, <1>8, <1>9 DEF t

-----------------------------------------------------------------------------
\* The runs of a merge and their heap.

LEMMA Removed ==
  ASSUME NEW S, NEW s \in Seq(S), NEW i \in 1..Len(s)
  PROVE  /\ RemoveAt(s, i) \in Seq(S) /\ Len(RemoveAt(s, i)) = Len(s) - 1
         /\ \A j \in 1..Len(s) - 1 : RemoveAt(s, i)[j] = IF j < i THEN s[j] ELSE s[j + 1]
<1> DEFINE a == SubSeq(s, 1, i - 1)
           b == SubSeq(s, i + 1, Len(s))
<1>1. a \in Seq(S) /\ Len(a) = i - 1 /\ \A j \in 1..i - 1 : a[j] = s[j]
  OBVIOUS
<1>2. b \in Seq(S) /\ Len(b) = Len(s) - i /\ \A j \in 1..Len(s) - i : b[j] = s[i + j]
  OBVIOUS
<1> HIDE DEF a, b
<1>3. Len(s) \in Nat /\ i \in Nat \ {0} /\ i <= Len(s)
  OBVIOUS
<1>4. /\ a \o b \in Seq(S) /\ Len(a \o b) = Len(a) + Len(b)
      /\ \A j \in 1..Len(a) + Len(b) : (a \o b)[j] = IF j <= Len(a) THEN a[j] ELSE b[j - Len(a)]
  <2>1. a \in Seq(S) /\ b \in Seq(S)
    BY <1>1, <1>2
  <2> QED BY <2>1
<1>5. ASSUME NEW j \in 1..Len(s) - 1 PROVE (a \o b)[j] = IF j < i THEN s[j] ELSE s[j + 1]
  <2>1. CASE j < i
    BY <1>1, <1>2, <1>3, <1>4, <2>1
  <2>2. CASE ~(j < i)
    <3>1. (a \o b)[j] = b[j - (i - 1)] /\ j - (i - 1) \in 1..Len(s) - i
      BY <1>1, <1>2, <1>3, <1>4, <2>2
    <3>2. i + (j - (i - 1)) = j + 1
      BY <1>3
    <3> QED BY <1>2, <2>2, <3>1, <3>2
  <2> QED BY <2>1, <2>2
<1>6. Len(a \o b) = Len(s) - 1
  BY <1>1, <1>2, <1>3, <1>4
<1> QED BY <1>4, <1>5, <1>6 DEF RemoveAt, a, b

LEMMA RunLists ==
  ASSUME NEW runs, Merging(runs)
  PROVE  /\ DOMAIN runs = 1..Len(runs) /\ Len(runs) \in Nat /\ (runs = <<>> <=> Len(runs) = 0)
         /\ \A i \in DOMAIN runs : /\ runs[i] \in Seq(Known) /\ Len(runs[i]) \in Nat \ {0}
                                   /\ DOMAIN runs[i] = 1..Len(runs[i]) /\ Head(runs[i]) = runs[i][1]
         /\ \A i \in DOMAIN runs : \A k \in DOMAIN runs[i] :
               runs[i][k] \in Known /\ runs[i][k] \in HeldBy(runs) /\ runs[i][k].id \in Int
<1>1. DOMAIN runs = 1..Len(runs) /\ Len(runs) \in Nat /\ (runs = <<>> <=> Len(runs) = 0)
  BY DEF Merging
<1>2. ASSUME NEW i \in DOMAIN runs
      PROVE  /\ runs[i] \in Seq(Known) /\ Len(runs[i]) \in Nat \ {0}
             /\ DOMAIN runs[i] = 1..Len(runs[i]) /\ Head(runs[i]) = runs[i][1]
  <2>1. runs[i] \in Seq(Known) /\ runs[i] # <<>>
    BY <1>1 DEF Merging
  <2> QED BY <2>1
<1>3. ASSUME NEW i \in DOMAIN runs, NEW k \in DOMAIN runs[i]
      PROVE  runs[i][k] \in Known /\ runs[i][k] \in HeldBy(runs)
  BY <1>2 DEF HeldBy, ToSet
<1> QED BY <1>1, <1>2, <1>3, KnownLists

LEMMA TopOfRuns ==
  ASSUME NEW runs, Merging(runs), runs # <<>>
  PROVE  /\ TopRun(runs) \in DOMAIN runs /\ TopRef(runs) = runs[TopRun(runs)][1]
         /\ TopRef(runs) \in HeldBy(runs) /\ TopRef(runs) \in Known
         /\ \A r \in HeldBy(runs) : TopRef(runs).id <= r.id
<1> DEFINE heads == [i \in 1..Len(runs) |-> runs[i][1]]
<1>1. heads \in Seq(Known) /\ DOMAIN heads = DOMAIN runs /\ 1 \in DOMAIN heads
  BY RunLists
<1>2. \A i, j \in DOMAIN heads : heads[i].id = heads[j].id => i = j
  BY RunLists DEF Merging, NoneTwice
<1>3. \A i \in DOMAIN runs : heads[i] = Head(runs[i]) /\ heads[i].id \in Int
  BY RunLists
<1> HIDE DEF heads
<1>4. PICK k \in DOMAIN heads : Place(heads, k) = 1
  BY <1>1, <1>2, Places
<1>5. \A j \in DOMAIN heads : Place(heads, j) \in DOMAIN heads
                              /\ (heads[j].id < heads[k].id => Place(heads, j) < Place(heads, k))
  BY <1>1, <1>2, Places
<1>6. \A j \in DOMAIN runs : ~(heads[j].id < heads[k].id)
  BY <1>1, <1>4, <1>5, RunLists
<1>7. k \in DOMAIN runs /\ \A j \in DOMAIN runs : Head(runs[k]).id <= Head(runs[j]).id
  BY <1>1, <1>3, <1>6
<1>8. TopRun(runs) \in DOMAIN runs /\ \A j \in DOMAIN runs : Head(runs[TopRun(runs)]).id <= Head(runs[j]).id
  BY <1>7 DEF TopRun
<1>9. TopRef(runs) = runs[TopRun(runs)][1] /\ TopRef(runs) \in HeldBy(runs) /\ TopRef(runs) \in Known
  BY <1>8, RunLists DEF TopRef
<1>10. ASSUME NEW r \in HeldBy(runs) PROVE TopRef(runs).id <= r.id
  <2>1. PICK j \in DOMAIN runs : r \in ToSet(runs[j])
    BY DEF HeldBy
  <2>2. PICK n \in DOMAIN runs[j] : r = runs[j][n]
    BY <2>1 DEF ToSet
  <2>3. runs[j][1].id \in Int /\ r.id \in Int /\ runs[j][1].id <= r.id
    <3>1. InIdOrder(runs[j]) /\ 1 \in DOMAIN runs[j] /\ n \in 1..Len(runs[j])
      BY <2>2, RunLists DEF Merging
    <3>2. runs[j][1].id \in Int /\ r.id \in Int
      BY <2>2, <3>1, RunLists
    <3> QED BY <2>2, <3>1, <3>2, RunLists DEF InIdOrder
  <2>4. TopRef(runs).id <= runs[j][1].id /\ TopRef(runs).id \in Int
    BY <1>8, <1>9, RunLists, KnownLists DEF TopRef
  <2> QED BY <2>3, <2>4
<1> QED BY <1>8, <1>9, <1>10

LEMMA OpenedList ==
  ASSUME NEW s \in Seq(Known), InIdOrder(s)
  PROVE  Merging(StoredRuns(s)) /\ HeldBy(StoredRuns(s)) = ToSet(s)
<1>1. DOMAIN s = 1..Len(s) /\ Len(s) \in Nat /\ \A i \in DOMAIN s : s[i] \in Known /\ s[i].id \in Int
  BY ListOf, KnownLists
<1>2. \A i, j \in DOMAIN s : s[i].id = s[j].id => i = j
  BY <1>1 DEF InIdOrder
<1>3. CASE s = <<>>
  <2>1. StoredRuns(s) = <<>> /\ ToSet(s) = {} /\ <<>> \in Seq(Seq(Known)) /\ DOMAIN <<>> = {}
    BY <1>3 DEF StoredRuns, ToSet
  <2> QED BY <2>1 DEF Merging, NoneTwice, HeldBy
<1>4. CASE s # <<>>
  <2>1. StoredRuns(s) = <<s>> /\ <<s>> \in Seq(Seq(Known)) /\ DOMAIN <<s>> = {1} /\ <<s>>[1] = s
    BY <1>4 DEF StoredRuns
  <2>2. HeldBy(<<s>>) = ToSet(s)
    BY <2>1 DEF HeldBy
  <2>3. NoneTwice(<<s>>)
    BY <1>2, <2>1 DEF NoneTwice
  <2> QED BY <1>4, <2>1, <2>2, <2>3 DEF Merging
<1> QED BY <1>3, <1>4

LEMMA PoppedRuns ==
  ASSUME NEW runs, Merging(runs), runs # <<>>
  PROVE  /\ Merging(PopTop(runs))
         /\ HeldBy(PopTop(runs)) = HeldBy(runs) \ {TopRef(runs)}
         /\ \A r \in HeldBy(PopTop(runs)) : TopRef(runs).id < r.id
<1> DEFINE i == TopRun(runs)
           popped == PopTop(runs)
<1>1. /\ i \in DOMAIN runs /\ DOMAIN runs = 1..Len(runs) /\ Len(runs) \in Nat
      /\ \A j \in DOMAIN runs : /\ runs[j] \in Seq(Known) /\ Len(runs[j]) \in Nat \ {0}
                                /\ DOMAIN runs[j] = 1..Len(runs[j]) /\ InIdOrder(runs[j])
      /\ \A j \in DOMAIN runs : \A n \in DOMAIN runs[j] : runs[j][n].id \in Int
  BY TopOfRuns, RunLists DEF Merging
<1>2. runs \in Seq(Seq(Known)) /\ i \in 1..Len(runs)
  BY <1>1 DEF Merging
<1> HIDE DEF i
\* Each run of the result is one of the runs, without its head if that was the top.
<1>3. /\ popped \in Seq(Seq(Known))
      /\ \E from_ \in [DOMAIN popped -> DOMAIN runs], shift \in [DOMAIN popped -> {0, 1}] :
            /\ \A j, m \in DOMAIN popped : from_[j] = from_[m] => j = m
            /\ \A j \in DOMAIN popped :
                  /\ from_[j] = i => shift[j] = 1
                  /\ popped[j] # <<>> /\ DOMAIN popped[j] = 1..(Len(runs[from_[j]]) - shift[j])
                  /\ \A n \in DOMAIN popped[j] : popped[j][n] = runs[from_[j]][n + shift[j]]
  <2>1. CASE Len(runs[i]) = 1
    <3>1. popped = RemoveAt(runs, i)
      BY <2>1 DEF PopTop, i
    <3>2. /\ popped \in Seq(Seq(Known)) /\ Len(popped) = Len(runs) - 1
          /\ \A j \in 1..Len(runs) - 1 : popped[j] = IF j < i THEN runs[j] ELSE runs[j + 1]
      BY <1>2, <3>1, Removed
    <3> HIDE DEF popped
    <3> DEFINE f == [j \in DOMAIN popped |-> IF j < i THEN j ELSE j + 1]
               h == [j \in DOMAIN popped |-> 0]
    <3>3. DOMAIN popped = 1..Len(runs) - 1
      BY <1>1, <3>2
    <3>4. ASSUME NEW j \in DOMAIN popped
          PROVE  f[j] \in DOMAIN runs /\ popped[j] = runs[f[j]] /\ f[j] # i
      <4>1. j \in 1..Len(runs) - 1 /\ j \in Int /\ i \in Int
        BY <1>1, <1>2, <3>3
      <4>2. f[j] = IF j < i THEN j ELSE j + 1
        OBVIOUS
      <4>3. f[j] \in 1..Len(runs) /\ f[j] # i
        BY <1>1, <4>1, <4>2
      <4>4. popped[j] = runs[f[j]]
        BY <3>2, <4>1, <4>2
      <4> QED BY <1>1, <4>3, <4>4
    <3>5. ASSUME NEW j \in DOMAIN popped, NEW m \in DOMAIN popped, f[j] = f[m] PROVE j = m
      <4>1. f[j] = (IF j < i THEN j ELSE j + 1) /\ f[m] = (IF m < i THEN m ELSE m + 1)
        OBVIOUS
      <4>2. j \in Int /\ m \in Int /\ i \in Int
        BY <1>1, <1>2, <3>3
      <4>3. f[j] = f[m]
        BY <3>5
      <4> HIDE DEF f
      <4>4. CASE j < i /\ m < i
        BY <4>1, <4>3, <4>4
      <4>5. CASE j < i /\ ~(m < i)
        BY <4>1, <4>2, <4>3, <4>5
      <4>6. CASE ~(j < i) /\ m < i
        BY <4>1, <4>2, <4>3, <4>6
      <4>7. CASE ~(j < i) /\ ~(m < i)
        BY <4>1, <4>2, <4>3, <4>7
      <4> QED BY <4>4, <4>5, <4>6, <4>7
    <3>6. f \in [DOMAIN popped -> DOMAIN runs] /\ h \in [DOMAIN popped -> {0, 1}] /\ \A j \in DOMAIN popped : h[j] = 0
      BY <3>4
    <3> HIDE DEF f, h
    <3>7. ASSUME NEW j \in DOMAIN popped
          PROVE  /\ popped[j] # <<>> /\ DOMAIN popped[j] = 1..(Len(runs[f[j]]) - h[j])
                 /\ \A n \in DOMAIN popped[j] : popped[j][n] = runs[f[j]][n + h[j]]
      <4>1. f[j] \in DOMAIN runs /\ popped[j] = runs[f[j]] /\ h[j] = 0
        BY <3>4, <3>6
      <4>2. /\ popped[j] \in Seq(Known) /\ Len(popped[j]) \in Nat \ {0} /\ DOMAIN popped[j] = 1..Len(popped[j])
        BY <1>1, <4>1
      <4>3. popped[j] # <<>>
        BY <4>2
      <4>4. Len(runs[f[j]]) - h[j] = Len(popped[j])
        BY <4>1, <4>2
      <4>5. ASSUME NEW n \in DOMAIN popped[j] PROVE popped[j][n] = runs[f[j]][n + h[j]]
        <5>1. n \in Int /\ h[j] = 0
          <6>1. n \in 1..Len(popped[j]) /\ Len(popped[j]) \in Int
            BY <4>2
          <6> QED BY <4>1, <6>1
        <5>2. n + h[j] = n
          BY <5>1
        <5> QED BY <4>1, <5>2
      <4> QED BY <4>2, <4>3, <4>4, <4>5
    <3>8. /\ \A j, m \in DOMAIN popped : f[j] = f[m] => j = m
          /\ \A j \in DOMAIN popped :
                /\ f[j] = i => h[j] = 1
                /\ popped[j] # <<>> /\ DOMAIN popped[j] = 1..(Len(runs[f[j]]) - h[j])
                /\ \A n \in DOMAIN popped[j] : popped[j][n] = runs[f[j]][n + h[j]]
      <4>1. \A j \in DOMAIN popped : f[j] # i
        BY <3>4
      <4> QED BY <3>5, <3>7, <4>1
    <3> QED BY <3>2, <3>6, <3>8
  <2>2. CASE Len(runs[i]) # 1
    <3>1. popped = [runs EXCEPT ![i] = Tail(@)]
      BY <2>2 DEF PopTop, i
    <3>2. /\ Tail(runs[i]) \in Seq(Known) /\ Len(Tail(runs[i])) = Len(runs[i]) - 1
          /\ \A n \in 1..Len(runs[i]) - 1 : Tail(runs[i])[n] = runs[i][n + 1]
      BY <1>1
    <3>3. /\ popped \in Seq(Seq(Known)) /\ DOMAIN popped = DOMAIN runs
          /\ \A j \in DOMAIN runs : popped[j] = IF j = i THEN Tail(runs[i]) ELSE runs[j]
      BY <1>1, <1>2, <3>1, <3>2
    <3>4. Len(runs[i]) - 1 \in Nat \ {0} /\ Tail(runs[i]) # <<>> /\ DOMAIN Tail(runs[i]) = 1..(Len(runs[i]) - 1)
      <4>1. Len(runs[i]) - 1 \in Nat \ {0}
        BY <1>1, <2>2
      <4>2. Len(Tail(runs[i])) # 0 /\ DOMAIN Tail(runs[i]) = 1..Len(Tail(runs[i]))
        BY <3>2, <4>1
      <4>3. Tail(runs[i]) # <<>>
        <5> SUFFICES ASSUME Tail(runs[i]) = <<>> PROVE FALSE
          OBVIOUS
        <5>1. Len(<<>>) = 0
          OBVIOUS
        <5> QED BY <4>2, <5>1
      <4> QED BY <3>2, <4>1, <4>2, <4>3
    <3> HIDE DEF popped
    <3> DEFINE f == [j \in DOMAIN popped |-> j]
               h == [j \in DOMAIN popped |-> IF j = i THEN 1 ELSE 0]
    <3>5. /\ f \in [DOMAIN popped -> DOMAIN runs] /\ h \in [DOMAIN popped -> {0, 1}]
          /\ \A j \in DOMAIN popped : f[j] = j /\ h[j] = IF j = i THEN 1 ELSE 0
      BY <3>3
    <3> HIDE DEF f, h
    <3>6. ASSUME NEW j \in DOMAIN popped
          PROVE  /\ popped[j] # <<>> /\ DOMAIN popped[j] = 1..(Len(runs[j]) - h[j])
                 /\ \A n \in DOMAIN popped[j] : popped[j][n] = runs[j][n + h[j]]
      <4>1. CASE j = i
        BY <1>1, <3>2, <3>3, <3>4, <3>5, <4>1
      <4>2. CASE j # i
        <5>1. popped[j] = runs[j] /\ h[j] = 0 /\ j \in DOMAIN runs
          BY <3>3, <3>5, <4>2
        <5> QED BY <1>1, <5>1
      <4> QED BY <4>1, <4>2
    <3>7. \A j, m \in DOMAIN popped : f[j] = f[m] => j = m
      BY <3>5
    <3>8. ASSUME NEW j \in DOMAIN popped
          PROVE  /\ f[j] = i => h[j] = 1
                 /\ popped[j] # <<>> /\ DOMAIN popped[j] = 1..(Len(runs[f[j]]) - h[j])
                 /\ \A n \in DOMAIN popped[j] : popped[j][n] = runs[f[j]][n + h[j]]
      BY <3>5, <3>6
    <3>9. popped \in Seq(Seq(Known)) /\ f \in [DOMAIN popped -> DOMAIN runs] /\ h \in [DOMAIN popped -> {0, 1}]
      BY <3>3, <3>5
    <3> QED BY <3>7, <3>8, <3>9
  <2> QED BY <2>1, <2>2
<1> HIDE DEF popped
<1>5. PICK from_ \in [DOMAIN popped -> DOMAIN runs], shift \in [DOMAIN popped -> {0, 1}] :
            /\ \A j, m \in DOMAIN popped : from_[j] = from_[m] => j = m
            /\ \A j \in DOMAIN popped :
                  /\ from_[j] = i => shift[j] = 1
                  /\ popped[j] # <<>> /\ DOMAIN popped[j] = 1..(Len(runs[from_[j]]) - shift[j])
                  /\ \A n \in DOMAIN popped[j] : popped[j][n] = runs[from_[j]][n + shift[j]]
  BY <1>3
<1>4. TopRef(runs) = runs[i][1] /\ \A r \in HeldBy(runs) : TopRef(runs).id <= r.id
  BY TopOfRuns DEF i
<1>6. NoneTwice(runs)
  BY DEF Merging
<1>7. ASSUME NEW j \in DOMAIN popped, NEW n \in DOMAIN popped[j]
      PROVE  /\ from_[j] \in DOMAIN runs /\ shift[j] \in {0, 1} /\ n \in Int
             /\ n + shift[j] \in DOMAIN runs[from_[j]] /\ ~(from_[j] = i /\ n + shift[j] = 1)
             /\ popped[j][n] = runs[from_[j]][n + shift[j]]
  <2>1. /\ from_[j] \in DOMAIN runs /\ shift[j] \in {0, 1} /\ n \in 1..(Len(runs[from_[j]]) - shift[j])
        /\ popped[j][n] = runs[from_[j]][n + shift[j]]
    BY <1>5
  <2>2. Len(runs[from_[j]]) \in Nat /\ DOMAIN runs[from_[j]] = 1..Len(runs[from_[j]])
    BY <1>1, <2>1
  <2> QED BY <1>5, <2>1, <2>2
<1>8. NoneTwice(popped)
  <2> SUFFICES ASSUME NEW j \in DOMAIN popped, NEW m \in DOMAIN popped, NEW n \in DOMAIN popped[j],
                      NEW q \in DOMAIN popped[m], popped[j][n].id = popped[m][q].id
               PROVE  j = m /\ n = q
    BY DEF NoneTwice
  <2>1. from_[j] = from_[m] /\ n + shift[j] = q + shift[m]
    <3>1. runs[from_[j]][n + shift[j]].id = runs[from_[m]][q + shift[m]].id
      BY <1>7
    <3>2. /\ from_[j] \in DOMAIN runs /\ n + shift[j] \in DOMAIN runs[from_[j]]
          /\ from_[m] \in DOMAIN runs /\ q + shift[m] \in DOMAIN runs[from_[m]]
      BY <1>7
    <3> QED BY <1>6, <3>1, <3>2 DEF NoneTwice
  <2>2. j = m
    BY <1>5, <2>1
  <2>3. n \in Int /\ q \in Int /\ shift[j] \in Int
    BY <1>7
  <2> QED BY <2>1, <2>2, <2>3
<1>9. \A j \in DOMAIN popped : InIdOrder(popped[j])
  <2> SUFFICES ASSUME NEW j \in DOMAIN popped, NEW n \in DOMAIN popped[j], NEW q \in DOMAIN popped[j], n < q
               PROVE  popped[j][n].id < popped[j][q].id
    BY DEF InIdOrder
  <2>1. n + shift[j] < q + shift[j]
    BY <1>7
  <2>2. runs[from_[j]][n + shift[j]].id < runs[from_[j]][q + shift[j]].id
    BY <1>1, <1>7, <2>1 DEF InIdOrder
  <2> QED BY <1>7, <2>2
<1>10. HeldBy(popped) \subseteq HeldBy(runs) \ {TopRef(runs)}
  <2> SUFFICES ASSUME NEW j \in DOMAIN popped, NEW n \in DOMAIN popped[j]
               PROVE  popped[j][n] \in HeldBy(runs) \ {TopRef(runs)}
    BY DEF HeldBy, ToSet
  <2>1. popped[j][n] = runs[from_[j]][n + shift[j]] /\ from_[j] \in DOMAIN runs
        /\ n + shift[j] \in DOMAIN runs[from_[j]] /\ ~(from_[j] = i /\ n + shift[j] = 1)
    BY <1>7
  <2>2. 1 \in DOMAIN runs[i]
    BY <1>1
  <2>3. popped[j][n] # TopRef(runs)
    BY <1>1, <1>4, <1>6, <2>1, <2>2 DEF NoneTwice
  <2> QED BY <2>1, <2>3 DEF HeldBy, ToSet
<1>11. ASSUME NEW m \in DOMAIN runs, NEW n \in DOMAIN runs[m], ~(m = i /\ n = 1)
       PROVE  runs[m][n] \in HeldBy(popped)
  <2>1. CASE Len(runs[i]) = 1
    <3>1. popped = RemoveAt(runs, i) /\ m # i
      BY <1>1, <1>11, <2>1 DEF PopTop, i, popped
    <3>2. /\ Len(popped) = Len(runs) - 1 /\ popped \in Seq(Seq(Known))
          /\ \A j \in 1..Len(runs) - 1 : popped[j] = IF j < i THEN runs[j] ELSE runs[j + 1]
      BY <1>2, <3>1, Removed
    <3>3. PICK j \in DOMAIN popped : popped[j] = runs[m]
      <4>1. CASE m < i
        <5>1. m \in DOMAIN popped /\ popped[m] = runs[m]
          <6>1. m \in 1..Len(runs) - 1
            BY <1>1, <1>2, <4>1
          <6>2. DOMAIN popped = 1..Len(popped)
            BY <3>2
          <6> QED BY <3>2, <4>1, <6>1, <6>2
        <5> QED BY <5>1
      <4>2. CASE m > i
        <5>1. m - 1 \in DOMAIN popped /\ popped[m - 1] = runs[m]
          BY <1>1, <3>2, <4>2
        <5> QED BY <5>1
      <4> QED BY <1>1, <3>1, <4>1, <4>2
    <3> QED BY <3>3 DEF HeldBy, ToSet
  <2>2. CASE Len(runs[i]) # 1
    <3>1. popped = [runs EXCEPT ![i] = Tail(@)]
      BY <2>2 DEF PopTop, i, popped
    <3>2. m \in DOMAIN popped /\ popped[m] = IF m = i THEN Tail(runs[i]) ELSE runs[m]
      BY <1>1, <3>1
    <3>3. CASE m = i
      <4>1. n - 1 \in DOMAIN popped[m] /\ popped[m][n - 1] = runs[m][n]
        BY <1>1, <1>11, <3>2, <3>3
      <4> QED BY <3>2, <4>1 DEF HeldBy, ToSet
    <3>4. CASE m # i
      BY <3>2, <3>4 DEF HeldBy, ToSet
    <3> QED BY <3>3, <3>4
  <2> QED BY <2>1, <2>2
<1>12. HeldBy(runs) \ {TopRef(runs)} \subseteq HeldBy(popped)
  BY <1>4, <1>11 DEF HeldBy, ToSet
<1>13. ASSUME NEW r \in HeldBy(popped) PROVE TopRef(runs).id < r.id
  <2>1. r \in HeldBy(runs) /\ r # TopRef(runs)
    BY <1>10
  <2>2. PICK m \in DOMAIN runs : \E n \in DOMAIN runs[m] : r = runs[m][n]
    BY <2>1 DEF HeldBy, ToSet
  <2>3. r.id # TopRef(runs).id /\ r.id \in Int /\ TopRef(runs).id \in Int
    BY <1>1, <1>4, <1>6, <2>1, <2>2 DEF NoneTwice
  <2> QED BY <1>4, <2>1, <2>3
<1> QED BY <1>3, <1>5, <1>8, <1>9, <1>10, <1>12, <1>13 DEF Merging, popped

-----------------------------------------------------------------------------
\* The spill.

OneEach(s) == \A i, j \in DOMAIN s : s[i].id = s[j].id => i = j
Held(s) == HeldBy(Append(s.runs, s.buf))
SpillFine(s) ==
    /\ s \in [buf : Seq(Known), runs : Seq(Seq(Known)), dirty : BOOLEAN]
    /\ NoneTwice(Append(s.runs, s.buf))
    /\ \A i \in DOMAIN s.runs : s.runs[i] # <<>> /\ InIdOrder(s.runs[i])

LEMMA AppendedRun ==
  ASSUME NEW runs \in Seq(Seq(Known)), NEW b \in Seq(Known)
  PROVE  /\ HeldBy(Append(runs, b)) = HeldBy(runs) \cup ToSet(b)
         /\ NoneTwice(Append(runs, b)) <=>
               /\ NoneTwice(runs) /\ OneEach(b)
               /\ \A r \in HeldBy(runs), q \in ToSet(b) : r.id # q.id
<1> DEFINE all == Append(runs, b)
           n == Len(runs) + 1
<1>1. /\ DOMAIN all = 1..n /\ DOMAIN runs = 1..n - 1 /\ n \in Nat \ {0}
      /\ \A i \in 1..n - 1 : all[i] = runs[i]
      /\ all[n] = b
  <2>1. Append(runs, b) \in Seq(Seq(Known)) /\ Len(Append(runs, b)) = Len(runs) + 1 /\ Len(runs) \in Nat
        /\ DOMAIN runs = 1..Len(runs)
    BY Appended, ListOf
  <2> QED BY <2>1, Appended
<1> HIDE DEF all, n
<1>2. \A i \in DOMAIN all : i = n \/ (i # n /\ i \in DOMAIN runs /\ all[i] = runs[i])
  BY <1>1
<1>3. n \in DOMAIN all /\ \A i \in DOMAIN runs : i # n /\ i \in DOMAIN all /\ all[i] = runs[i]
  BY <1>1
<1>4. HeldBy(all) = HeldBy(runs) \cup ToSet(b)
  BY <1>1, <1>2, <1>3 DEF HeldBy
<1>5. ASSUME NoneTwice(all)
      PROVE  NoneTwice(runs) /\ OneEach(b) /\ \A r \in HeldBy(runs), q \in ToSet(b) : r.id # q.id
  <2>1. NoneTwice(runs)
    BY <1>3, <1>5 DEF NoneTwice
  <2>2. OneEach(b)
    BY <1>1, <1>3, <1>5 DEF NoneTwice, OneEach
  <2>3. ASSUME NEW i \in DOMAIN runs, NEW k \in DOMAIN runs[i], NEW m \in DOMAIN b PROVE runs[i][k].id # b[m].id
    <3>1. i \in DOMAIN all /\ n \in DOMAIN all /\ i # n /\ all[i] = runs[i] /\ all[n] = b
      BY <1>1, <1>3
    <3>2. all[i][k].id = all[n][m].id => i = n
      BY <1>5, <3>1 DEF NoneTwice
    <3> QED BY <3>1, <3>2
  <2> QED BY <2>1, <2>2, <2>3 DEF HeldBy, ToSet
<1>6. ASSUME NoneTwice(runs), OneEach(b), \A r \in HeldBy(runs), q \in ToSet(b) : r.id # q.id
      PROVE  NoneTwice(all)
  <2> SUFFICES ASSUME NEW i \in DOMAIN all, NEW j \in DOMAIN all, NEW k \in DOMAIN all[i], NEW m \in DOMAIN all[j],
                      all[i][k].id = all[j][m].id
               PROVE  i = j /\ k = m
    BY DEF NoneTwice
  <2>1. \A x \in DOMAIN runs : \A y \in DOMAIN runs[x], z \in DOMAIN b : runs[x][y].id # b[z].id
    BY <1>6 DEF HeldBy, ToSet
  <2>2. CASE i = n /\ j = n
    BY <1>1, <1>6, <2>2 DEF OneEach
  <2>3. CASE i = n /\ j # n
    BY <1>1, <1>2, <2>1, <2>3
  <2>4. CASE i # n /\ j = n
    BY <1>1, <1>2, <2>1, <2>4
  <2>5. CASE i # n /\ j # n
    BY <1>2, <1>6, <2>5 DEF NoneTwice
  <2> QED BY <2>2, <2>3, <2>4, <2>5
<1> QED BY <1>4, <1>5, <1>6 DEF all

LEMMA EmptyLists == /\ <<>> \in Seq(Known) /\ <<>> \in Seq(Seq(Known)) /\ ToSet(<<>>) = {} /\ OneEach(<<>>)
                    /\ HeldBy(<<>>) = {} /\ NoneTwice(<<>>) /\ InIdOrder(<<>>)
<1>1. <<>> \in Seq(Known) /\ <<>> \in Seq(Seq(Known)) /\ DOMAIN <<>> = {}
  OBVIOUS
<1> QED BY <1>1 DEF ToSet, OneEach, HeldBy, NoneTwice, InIdOrder

LEMMA AppendedEmpty ==
  ASSUME NEW runs \in Seq(Seq(Known))
  PROVE  HeldBy(Append(runs, <<>>)) = HeldBy(runs) /\ (NoneTwice(Append(runs, <<>>)) <=> NoneTwice(runs))
<1> DEFINE b == <<>>
<1>1. b \in Seq(Known) /\ ToSet(b) = {} /\ OneEach(b)
  BY EmptyLists
<1> HIDE DEF b
<1>2. /\ HeldBy(Append(runs, b)) = HeldBy(runs) \cup ToSet(b)
      /\ NoneTwice(Append(runs, b)) <=>
            /\ NoneTwice(runs) /\ OneEach(b)
            /\ \A r \in HeldBy(runs), q \in ToSet(b) : r.id # q.id
  BY <1>1, AppendedRun
<1>3. HeldBy(Append(runs, b)) = HeldBy(runs) /\ (NoneTwice(Append(runs, b)) <=> NoneTwice(runs))
  BY <1>1, <1>2
<1> QED BY <1>3 DEF b

LEMMA AppendedToNone ==
  ASSUME NEW t \in Seq(Known)
  PROVE  HeldBy(Append(<<>>, t)) = ToSet(t) /\ (NoneTwice(Append(<<>>, t)) <=> OneEach(t))
<1> DEFINE none == <<>>
<1>1. none \in Seq(Seq(Known)) /\ HeldBy(none) = {} /\ NoneTwice(none)
  BY EmptyLists
<1> HIDE DEF none
<1>2. /\ HeldBy(Append(none, t)) = HeldBy(none) \cup ToSet(t)
      /\ NoneTwice(Append(none, t)) <=>
            /\ NoneTwice(none) /\ OneEach(t)
            /\ \A r \in HeldBy(none), q \in ToSet(t) : r.id # q.id
  BY <1>1, AppendedRun
<1>3. HeldBy(Append(none, t)) = ToSet(t) /\ (NoneTwice(Append(none, t)) <=> OneEach(t))
  BY <1>1, <1>2
<1> QED BY <1>3 DEF none

LEMMA OrderedIsOneEach == ASSUME NEW s \in Seq(Known), InIdOrder(s) PROVE OneEach(s)
<1>1. DOMAIN s = 1..Len(s) /\ Len(s) \in Nat /\ \A i \in DOMAIN s : s[i].id \in Int
  BY ListOf, KnownLists
<1> QED BY <1>1 DEF OneEach, InIdOrder

LEMMA BufferSpilled ==
  ASSUME NEW s, SpillFine(s), s.buf # <<>>
  PROVE  /\ SpillFine(SpillBuffer(s)) /\ Held(SpillBuffer(s)) = Held(s)
         /\ SpillBuffer(s).buf = <<>> /\ SpillBuffer(s).runs # <<>> /\ SpillBuffer(s).dirty = FALSE
<1> DEFINE t == SortById(s.buf)
           more == Append(s.runs, t)
<1>1. s.buf \in Seq(Known) /\ s.runs \in Seq(Seq(Known))
  BY DEF SpillFine
<1>2. /\ NoneTwice(s.runs) /\ OneEach(s.buf) /\ \A r \in HeldBy(s.runs), q \in ToSet(s.buf) : r.id # q.id
      /\ Held(s) = HeldBy(s.runs) \cup ToSet(s.buf)
  BY <1>1, AppendedRun DEF SpillFine, Held
<1>3. /\ t \in Seq(Known) /\ Len(t) = Len(s.buf) /\ InIdOrder(t) /\ ToSet(t) = ToSet(s.buf)
  BY <1>1, <1>2, SortedList DEF OneEach
<1>4. SpillBuffer(s) = [buf |-> <<>>, runs |-> more, dirty |-> FALSE]
  BY DEF SpillBuffer
<1> HIDE DEF t, more
<1>5. OneEach(t) /\ t # <<>>
  BY <1>1, <1>3, OrderedIsOneEach, ListOf
<1>6. /\ more \in Seq(Seq(Known)) /\ HeldBy(more) = HeldBy(s.runs) \cup ToSet(t) /\ NoneTwice(more)
      /\ more # <<>> /\ DOMAIN more = 1..Len(s.runs) + 1 /\ DOMAIN s.runs = 1..Len(s.runs)
      /\ \A i \in DOMAIN more : more[i] = t \/ (i \in DOMAIN s.runs /\ more[i] = s.runs[i])
  <2>1. HeldBy(more) = HeldBy(s.runs) \cup ToSet(t) /\ NoneTwice(more)
    BY <1>1, <1>2, <1>3, <1>5, AppendedRun DEF more
  <2>2. /\ more \in Seq(Seq(Known)) /\ Len(more) = Len(s.runs) + 1 /\ Len(s.runs) \in Nat
        /\ DOMAIN s.runs = 1..Len(s.runs)
        /\ (\A i \in 1..Len(s.runs) : more[i] = s.runs[i]) /\ more[Len(s.runs) + 1] = t
    BY <1>1, <1>3, Appended, ListOf DEF more
  <2> HIDE DEF more
  <2>3. more # <<>> /\ DOMAIN more = 1..Len(s.runs) + 1
    BY <2>2, ListOf
  <2>4. \A i \in DOMAIN more : i \in 1..Len(s.runs) \/ i = Len(s.runs) + 1
    BY <2>2, <2>3
  <2> QED BY <2>1, <2>2, <2>3, <2>4
<1>7. \A i \in DOMAIN more : more[i] # <<>> /\ InIdOrder(more[i])
  BY <1>3, <1>5, <1>6 DEF SpillFine
<1>8. NoneTwice(Append(more, <<>>)) /\ HeldBy(Append(more, <<>>)) = HeldBy(more)
  BY <1>6, AppendedEmpty
<1> QED BY <1>2, <1>3, <1>4, <1>6, <1>7, <1>8, EmptyLists DEF SpillFine, Held

LEMMA RefAdded ==
  ASSUME NEW s, SpillFine(s), NEW ref \in Known, ref.id \notin IdsIn(Held(s))
  PROVE  LET t == SpillAdd(s, ref, RunSize)
         IN  SpillFine(t) /\ Held(t) = Held(s) \cup {ref} /\ t.dirty = (t.buf # <<>>)
<1> DEFINE grown == [s EXCEPT !.buf = Append(@, ref), !.dirty = TRUE]
<1>1. s.buf \in Seq(Known) /\ s.runs \in Seq(Seq(Known))
  BY DEF SpillFine
<1>2. /\ NoneTwice(s.runs) /\ OneEach(s.buf) /\ \A r \in HeldBy(s.runs), q \in ToSet(s.buf) : r.id # q.id
      /\ Held(s) = HeldBy(s.runs) \cup ToSet(s.buf)
  BY <1>1, AppendedRun DEF SpillFine, Held
<1>3. /\ Append(s.buf, ref) \in Seq(Known) /\ Append(s.buf, ref) # <<>> /\ DOMAIN Append(s.buf, ref) = 1..Len(s.buf) + 1
      /\ DOMAIN s.buf = 1..Len(s.buf) /\ Len(s.buf) \in Nat
      /\ \A i \in 1..Len(s.buf) : Append(s.buf, ref)[i] = s.buf[i]
      /\ Append(s.buf, ref)[Len(s.buf) + 1] = ref
      /\ ToSet(Append(s.buf, ref)) = ToSet(s.buf) \cup {ref}
  <2> DEFINE a == Append(s.buf, ref)
  <2>1. /\ a \in Seq(Known) /\ Len(a) = Len(s.buf) + 1 /\ ToSet(a) = ToSet(s.buf) \cup {ref}
        /\ \A i \in 1..Len(s.buf) : a[i] = s.buf[i]
        /\ a[Len(s.buf) + 1] = ref
    BY <1>1, Appended
  <2>2. DOMAIN s.buf = 1..Len(s.buf) /\ Len(s.buf) \in Nat
    BY <1>1, ListOf
  <2> HIDE DEF a
  <2>3. DOMAIN a = 1..Len(s.buf) + 1 /\ a # <<>>
    BY <2>1, <2>2, ListOf
  <2> QED BY <2>1, <2>2, <2>3 DEF a
<1>4. \A i \in DOMAIN s.buf : s.buf[i].id # ref.id
  BY <1>2 DEF IdsIn, ToSet
<1>5. OneEach(Append(s.buf, ref))
  BY <1>2, <1>3, <1>4 DEF OneEach
<1>6. /\ NoneTwice(Append(s.runs, Append(s.buf, ref)))
      /\ HeldBy(Append(s.runs, Append(s.buf, ref))) = Held(s) \cup {ref}
  <2>1. \A r \in HeldBy(s.runs), q \in ToSet(s.buf) \cup {ref} : r.id # q.id
    BY <1>2 DEF IdsIn
  <2> QED BY <1>1, <1>2, <1>3, <1>5, <2>1, AppendedRun
<1>7. /\ grown \in [buf : Seq(Known), runs : Seq(Seq(Known)), dirty : BOOLEAN]
      /\ grown.buf = Append(s.buf, ref) /\ grown.runs = s.runs /\ grown.dirty = TRUE
  BY <1>1, <1>3 DEF SpillFine
<1> HIDE DEF grown
<1>8. SpillFine(grown) /\ Held(grown) = Held(s) \cup {ref} /\ grown.dirty = (grown.buf # <<>>) /\ grown.buf # <<>>
  BY <1>3, <1>6, <1>7 DEF SpillFine, Held
<1>9. SpillAdd(s, ref, RunSize) = IF SpillIsFull(grown, RunSize) THEN SpillBuffer(grown) ELSE grown
  BY DEF SpillAdd, grown
<1>10. SpillFine(SpillBuffer(grown)) /\ Held(SpillBuffer(grown)) = Held(grown)
       /\ SpillBuffer(grown).buf = <<>> /\ SpillBuffer(grown).dirty = FALSE
  BY <1>8, BufferSpilled
<1> QED BY <1>8, <1>9, <1>10

LEMMA SpillSettled ==
  ASSUME NEW s, SpillFine(s), s.dirty = (s.buf # <<>>)
  PROVE  /\ SpillFine(Settled(s)) /\ Held(Settled(s)) = Held(s)
         /\ Merging(OpenRuns(Settled(s))) /\ HeldBy(OpenRuns(Settled(s))) = Held(s)
<1>1. s.buf \in Seq(Known) /\ s.runs \in Seq(Seq(Known))
  BY DEF SpillFine
<1>2. /\ NoneTwice(s.runs) /\ OneEach(s.buf) /\ \A r \in HeldBy(s.runs), q \in ToSet(s.buf) : r.id # q.id
      /\ Held(s) = HeldBy(s.runs) \cup ToSet(s.buf)
  BY <1>1, AppendedRun DEF SpillFine, Held
<1>3. ASSUME NEW u, SpillFine(u), u.buf = <<>> PROVE Merging(u.runs) /\ HeldBy(u.runs) = Held(u)
  <2>1. u.runs \in Seq(Seq(Known)) /\ NoneTwice(u.runs) /\ HeldBy(Append(u.runs, <<>>)) = HeldBy(u.runs)
    <3>1. u.runs \in Seq(Seq(Known)) /\ NoneTwice(Append(u.runs, <<>>))
      BY <1>3 DEF SpillFine
    <3> QED BY <3>1, AppendedEmpty
  <2> QED BY <1>3, <2>1 DEF Merging, SpillFine, Held
<1>4. CASE s.runs = <<>>
  <2> DEFINE t == SortById(s.buf)
             u == Settled(s)
  <2>1. /\ t \in Seq(Known) /\ InIdOrder(t) /\ ToSet(t) = ToSet(s.buf)
    BY <1>1, <1>2, SortedList DEF OneEach
  <2>2. u.buf = t /\ u.runs = <<>> /\ u \in [buf : Seq(Known), runs : Seq(Seq(Known)), dirty : BOOLEAN]
    BY <1>1, <1>4, <2>1 DEF Settled, SpillFine
  <2> HIDE DEF t, u
  <2>3. HeldBy(Append(<<>>, t)) = ToSet(t) /\ NoneTwice(Append(<<>>, t))
    BY <2>1, AppendedToNone, OrderedIsOneEach
  <2>4. SpillFine(u) /\ Held(u) = Held(s)
    <3>1. Held(s) = ToSet(s.buf) /\ DOMAIN u.runs = {}
      BY <1>2, <1>4, <2>2, EmptyLists
    <3> QED BY <2>1, <2>2, <2>3, <3>1 DEF SpillFine, Held
  <2>5. Held(s) = ToSet(t) /\ OpenRuns(u) = StoredRuns(t)
    BY <1>2, <1>4, <2>1, <2>2, EmptyLists DEF OpenRuns
  <2> QED BY <2>1, <2>4, <2>5, OpenedList DEF u
<1>5. CASE s.runs # <<>> /\ s.buf # <<>>
  <2>1. Settled(s) = SpillBuffer(s)
    BY <1>5 DEF Settled
  <2>2. /\ SpillFine(SpillBuffer(s)) /\ Held(SpillBuffer(s)) = Held(s)
        /\ SpillBuffer(s).buf = <<>> /\ SpillBuffer(s).runs # <<>>
    BY <1>5, BufferSpilled
  <2> QED BY <1>3, <2>1, <2>2 DEF OpenRuns
<1>6. CASE s.runs # <<>> /\ s.buf = <<>>
  <2>1. Settled(s) = s
    BY <1>6 DEF Settled
  <2> QED BY <1>3, <1>6, <2>1 DEF OpenRuns
<1> QED BY <1>4, <1>5, <1>6

-----------------------------------------------------------------------------
\* The goroutines and what has failed, one action at a time.

LEMMA Sizes == ChannelSize \in Nat /\ \A refs \in Inputs : refs \in Seq(Known) /\ Len(refs) \in Nat /\ DOMAIN refs = 1..Len(refs)
<1>1. Cardinality(Workers) \in Nat
  BY ScanAssumption, FS_CardinalityType
<1> QED BY <1>1, KnownLists, ListOf DEF ChannelSize

LEMMA BadLists ==
  ASSUME NEW s \in Seq(Outcomes)
  PROVE  /\ \A o \in Outcomes : Bad(Append(s, o)) <=> Bad(s) \/ o.err
         /\ s # <<>> => (Bad(s) <=> Bad(Tail(s)) \/ Head(s).err)
         /\ s = <<>> => ~Bad(s)
<1>1. ASSUME NEW o \in Outcomes PROVE Bad(Append(s, o)) <=> Bad(s) \/ o.err
  <2>1. ToSet(Append(s, o)) = ToSet(s) \cup {o}
    BY Appended
  <2> QED BY <2>1 DEF Bad
<1>2. ASSUME s # <<>> PROVE Bad(s) <=> Bad(Tail(s)) \/ Head(s).err
  <2>1. ToSet(s) = ToSet(Tail(s)) \cup {Head(s)}
    BY <1>2, Shortened
  <2> QED BY <2>1 DEF Bad
<1>3. s = <<>> => ~Bad(s)
  BY ListOf DEF Bad
<1> QED BY <1>1, <1>2, <1>3

LEMMA FaultKept == ASSUME NEW f, Fault(f) PROVE faults' = faults \cup {f}
BY DEF Fault

LEMMA SentJob == ASSUME GoroutineInv, FaultInv, MainInv, SendJob PROVE GoroutineInv' /\ FaultInv' /\ MainInv'
<1> USE DEF SendJob, fixed, mainVars
<1>1. Encoded(input[reader.pos]) \in Outcomes /\ ~Encoded(input[reader.pos]).err
  BY Sizes, ListOf, OutcomeFields DEF GoroutineInv
<1>2. /\ jobs' \in Seq(Outcomes) /\ Len(jobs') <= ChannelSize
      /\ Bad(jobs') <=> Bad(jobs)
  BY <1>1, Sizes, Appended, BadLists DEF GoroutineInv
<1>3. GoroutineInv'
  <2>1. reader' \in [pos : Nat \ {0}, pc : {"reading", "done"}, err : BOOLEAN] /\ reader'.pos <= Len(input) + 1
        /\ reader'.pc = "reading" /\ reader'.err = reader.err
    <3>1. /\ reader \in [pos : Nat \ {0}, pc : {"reading", "done"}, err : BOOLEAN]
          /\ reader.pos <= Len(input) /\ Len(input) \in Nat /\ input' = input /\ reader.pc = "reading"
      BY Sizes DEF GoroutineInv
    <3>2. reader' = [reader EXCEPT !.pos = @ + 1]
      OBVIOUS
    <3> QED BY <3>1, <3>2
  <2>2. \A w \in Workers : worker'[w].pc = "done" => "codec" \in faults'
    BY DEF GoroutineInv
  <2> QED BY <1>2, <2>1, <2>2 DEF GoroutineInv
<1>4. FaultInv' /\ MainInv'
  BY <1>2, Zenon DEF FaultInv, MainInv, BadWorker, Bad, Quiet, WorkersDone, GoroutineInv
<1> QED BY <1>3, <1>4

LEMMA SentBadJob == ASSUME GoroutineInv, FaultInv, MainInv, SendBadJob PROVE GoroutineInv' /\ FaultInv' /\ MainInv'
<1> USE DEF SendBadJob, fixed, mainVars
<1>1. /\ jobs' \in Seq(Outcomes) /\ Len(jobs') <= ChannelSize /\ Bad(jobs')
  BY OutcomeFields, Sizes, Appended, BadLists DEF GoroutineInv
<1>2. faults' = faults \cup {"decode"}
  BY FaultKept
<1>3. GoroutineInv'
  BY <1>1, <1>2, Sizes DEF GoroutineInv
<1>4. FaultInv'
  BY <1>1, <1>2 DEF FaultInv, BadWorker, Bad, GoroutineInv
<1>5. MainInv'
  BY <1>2 DEF MainInv, GoroutineInv
<1> QED BY <1>3, <1>4, <1>5

LEMMA ReaderEnded == ASSUME GoroutineInv, FaultInv, MainInv, ReadEnds \/ ReadFails PROVE GoroutineInv' /\ FaultInv' /\ MainInv'
<1> USE DEF ReadEnds, ReadFails, fixed, mainVars
<1>1. faults' = faults \/ (faults' = faults \cup {"cursor"} /\ reader'.err)
  BY FaultKept DEF GoroutineInv
<1>2. GoroutineInv'
  BY <1>1, Sizes DEF GoroutineInv
<1>3. FaultInv'
  BY <1>1 DEF FaultInv, BadWorker, Bad, GoroutineInv
<1>4. MainInv'
  BY <1>1 DEF MainInv, GoroutineInv
<1> QED BY <1>2, <1>3, <1>4

\* What a worker's step does to the others.
LEMMA Becoming ==
  ASSUME GoroutineInv, NEW w \in Workers, NEW state, Become(w, state),
         state \in [pc : {"start", "idle", "done"}] \cup [pc : {"sending"}, result : Outcomes]
  PROVE  /\ worker' \in [Workers -> [pc : {"start", "idle", "done"}] \cup [pc : {"sending"}, result : Outcomes]]
         /\ worker'[w] = state /\ \A v \in Workers \ {w} : worker'[v] = worker[v]
         /\ \A v \in Workers : worker'[v].pc = "sending" => worker'[v].result \in Outcomes
         /\ UNCHANGED <<kind, persist, input, reader, main, spill, tempDir, batch, stored, count, firstErr>>
<1>1. worker' = [worker EXCEPT ![w] = state] /\ worker \in [Workers -> [pc : {"start", "idle", "done"}] \cup [pc : {"sending"}, result : Outcomes]]
  BY DEF Become, GoroutineInv
<1>2. \A v \in Workers : worker'[v] = IF v = w THEN state ELSE worker[v]
  BY <1>1
<1>3. worker' \in [Workers -> [pc : {"start", "idle", "done"}] \cup [pc : {"sending"}, result : Outcomes]]
  BY <1>1
<1>4. \A v \in Workers : worker'[v].pc = "sending" => worker'[v].result \in Outcomes
  BY <1>3
<1> QED BY <1>2, <1>3, <1>4 DEF Become, fixed, mainVars

LEMMA WorkerStates ==
  ASSUME GoroutineInv
  PROVE  \A w \in Workers : /\ worker[w].pc \in {"start", "idle", "done", "sending"}
                            /\ worker[w].pc = "sending" => worker[w].result \in Outcomes
BY DEF GoroutineInv

LEMMA CodecFailed ==
  ASSUME GoroutineInv, FaultInv, MainInv, NEW w \in Workers, CodecFails(w)
  PROVE  GoroutineInv' /\ FaultInv' /\ MainInv'
<1> DEFINE gone == [pc |-> "done"]
<1>1. /\ worker[w].pc = "start" /\ faults' = faults \cup {"codec"} /\ jobs' = jobs
      /\ Become(w, gone)
  BY FaultKept DEF CodecFails
<1>2. /\ worker' \in [Workers -> [pc : {"start", "idle", "done"}] \cup [pc : {"sending"}, result : Outcomes]]
      /\ \A v \in Workers \ {w} : worker'[v] = worker[v]
      /\ UNCHANGED <<kind, persist, input, reader, main, spill, tempDir, batch, stored, count, firstErr>>
  BY <1>1, Becoming
<1>3. results' \in Seq(Outcomes) /\ Len(results') <= ChannelSize /\ Bad(results')
  BY OutcomeFields, Sizes, Appended, BadLists DEF CodecFails, GoroutineInv
<1>4. GoroutineInv'
  <2>1. "codec" \in faults'
    BY <1>1
  <2> QED BY <1>1, <1>2, <1>3, <2>1 DEF GoroutineInv
<1>5. BadWorker => BadWorker'
  BY <1>1, <1>2 DEF BadWorker
<1>6. FaultInv'
  <2>1. Bad(jobs') = Bad(jobs)
    BY <1>1
  <2> QED BY <1>1, <1>2, <1>3, <1>5, <2>1 DEF FaultInv
<1>7. main # "ok"
  BY <1>1 DEF MainInv, WorkersDone
<1>8. MainInv'
  BY <1>1, <1>2, <1>7 DEF MainInv
<1> QED BY <1>4, <1>6, <1>8

LEMMA Encoding ==
  ASSUME GoroutineInv, FaultInv, MainInv, NEW w \in Workers, Encode(w)
  PROVE  GoroutineInv' /\ FaultInv' /\ MainInv'
<1> DEFINE o == Head(jobs)
<1>1. /\ worker[w].pc \in {"start", "idle"} /\ jobs # <<>> /\ jobs' = Tail(jobs) /\ results' = results
      /\ \/ Become(w, [pc |-> "sending", result |-> o]) /\ faults' = faults
         \/ ~o.err /\ faults' = faults \cup {"encode"} /\ Become(w, [pc |-> "sending", result |-> Failed])
  BY FaultKept DEF Encode
<1>2. /\ o \in Outcomes /\ jobs' \in Seq(Outcomes) /\ Len(jobs') <= ChannelSize
      /\ Bad(jobs) <=> Bad(jobs') \/ o.err
  <2>1. jobs \in Seq(Outcomes) /\ Len(jobs) <= ChannelSize
    BY DEF GoroutineInv
  <2>2. Len(jobs) \in Nat
    BY <2>1
  <2> QED BY <1>1, <2>1, <2>2, Sizes, Shortened, BadLists
<1> HIDE DEF o
<1>3. PICK r \in Outcomes : /\ Become(w, [pc |-> "sending", result |-> r])
                            /\ \/ r = o /\ faults' = faults
                               \/ ~o.err /\ r = Failed /\ faults' = faults \cup {"encode"}
  BY <1>1, <1>2, OutcomeFields
<1> DEFINE sending == [pc |-> "sending", result |-> r]
<1>4. sending \in [pc : {"sending"}, result : Outcomes] /\ sending.pc = "sending" /\ sending.result = r
  BY <1>3
<1>5. Become(w, sending)
  BY <1>3
<1> HIDE DEF sending
<1>6. /\ worker' \in [Workers -> [pc : {"start", "idle", "done"}] \cup [pc : {"sending"}, result : Outcomes]]
      /\ worker'[w] = sending /\ \A v \in Workers \ {w} : worker'[v] = worker[v]
      /\ UNCHANGED <<kind, persist, input, reader, main, spill, tempDir, batch, stored, count, firstErr>>
  BY <1>4, <1>5, Becoming
<1>7. GoroutineInv'
  <2>1. ASSUME NEW v \in Workers, worker'[v].pc = "done" PROVE "codec" \in faults'
    <3>1. v # w /\ worker[v].pc = "done"
      BY <1>4, <1>6, <2>1
    <3> QED BY <1>1, <3>1, <1>3 DEF GoroutineInv
  <2> QED BY <1>1, <1>2, <1>6, <2>1 DEF GoroutineInv
<1>8. (BadWorker \/ r.err) => BadWorker'
  BY <1>1, <1>4, <1>6 DEF BadWorker
<1>9. FaultInv'
  <2>1. Bad(results') = Bad(results)
    BY <1>1
  <2>2. ("decode" \in faults' <=> "decode" \in faults) /\ (o.err => r.err) /\ ("encode" \in faults' => "encode" \in faults \/ r.err)
    BY <1>3, OutcomeFields
  <2> QED BY <1>2, <1>3, <1>6, <1>8, <2>1, <2>2 DEF FaultInv
<1>10. main # "ok"
  BY <1>1 DEF MainInv, WorkersDone
<1>11. MainInv'
  BY <1>3, <1>6, <1>10 DEF MainInv
<1> QED BY <1>7, <1>9, <1>11

LEMMA SentResult ==
  ASSUME GoroutineInv, FaultInv, MainInv, NEW w \in Workers, SendResult(w)
  PROVE  GoroutineInv' /\ FaultInv' /\ MainInv'
<1> DEFINE idle == [pc |-> "idle"]
           o == worker[w].result
<1>1. /\ worker[w].pc = "sending" /\ jobs' = jobs /\ faults' = faults /\ Become(w, idle)
      /\ results' = Append(results, o) /\ o \in Outcomes
  BY WorkerStates DEF SendResult
<1>2. idle \in [pc : {"start", "idle", "done"}] /\ idle.pc = "idle"
  OBVIOUS
<1>3. results' \in Seq(Outcomes) /\ Len(results') <= ChannelSize /\ (Bad(results') <=> Bad(results) \/ o.err)
  BY <1>1, Sizes, Appended, BadLists DEF SendResult, GoroutineInv
<1> HIDE DEF idle
<1>4. /\ worker' \in [Workers -> [pc : {"start", "idle", "done"}] \cup [pc : {"sending"}, result : Outcomes]]
      /\ worker'[w] = idle /\ \A v \in Workers \ {w} : worker'[v] = worker[v]
      /\ UNCHANGED <<kind, persist, input, reader, main, spill, tempDir, batch, stored, count, firstErr>>
  BY <1>1, <1>2, Becoming
<1>5. GoroutineInv'
  BY <1>1, <1>2, <1>3, <1>4 DEF GoroutineInv
<1>6. BadWorker => BadWorker' \/ o.err
  BY <1>1, <1>4 DEF BadWorker
<1>7. FaultInv'
  <2>1. Bad(jobs') = Bad(jobs)
    BY <1>1
  <2> QED BY <1>1, <1>3, <1>4, <1>6, <2>1 DEF FaultInv
<1>8. main # "ok"
  BY <1>1 DEF MainInv, WorkersDone
<1>9. MainInv'
  BY <1>1, <1>4, <1>8 DEF MainInv
<1> QED BY <1>5, <1>7, <1>9

LEMMA WorkerEnded ==
  ASSUME GoroutineInv, FaultInv, MainInv, NEW w \in Workers, WorkerEnds(w)
  PROVE  GoroutineInv' /\ FaultInv' /\ MainInv'
<1> DEFINE gone == [pc |-> "done"]
<1>1. /\ worker[w].pc \in {"start", "idle"} /\ jobs = <<>> /\ reader.pc = "done"
      /\ jobs' = jobs /\ results' = results /\ faults' = faults /\ Become(w, gone)
  BY DEF WorkerEnds
<1>2. /\ worker' \in [Workers -> [pc : {"start", "idle", "done"}] \cup [pc : {"sending"}, result : Outcomes]]
      /\ \A v \in Workers \ {w} : worker'[v] = worker[v]
      /\ UNCHANGED <<kind, persist, input, reader, main, spill, tempDir, batch, stored, count, firstErr>>
  BY <1>1, Becoming
<1>3. GoroutineInv'
  BY <1>1, <1>2 DEF GoroutineInv
<1>4. BadWorker => BadWorker'
  BY <1>1, <1>2 DEF BadWorker
<1>5. FaultInv'
  <2>1. Bad(jobs') = Bad(jobs) /\ Bad(results') = Bad(results)
    BY <1>1
  <2> QED BY <1>1, <1>2, <1>4, <2>1 DEF FaultInv
<1>6. main # "ok"
  BY <1>1 DEF MainInv, WorkersDone
<1>7. MainInv'
  BY <1>1, <1>2, <1>6 DEF MainInv
<1> QED BY <1>3, <1>5, <1>7

\* What a step of the calling goroutine keeps.
LEMMA Waiting ==
  ASSUME GoroutineInv, UNCHANGED <<fixed, goroutines>>, results' \in Seq(Outcomes), Len(results') <= ChannelSize,
         firstErr' \in BOOLEAN, faults \subseteq faults'
  PROVE  GoroutineInv' /\ (Bad(jobs') <=> Bad(jobs)) /\ (BadWorker' <=> BadWorker)
BY DEF fixed, goroutines, GoroutineInv, BadWorker, Bad

LEMMA SpillMade == ASSUME GoroutineInv, FaultInv, MainInv, MakeSpill \/ MakeSpillFails PROVE GoroutineInv' /\ FaultInv' /\ MainInv'
<1>1. /\ UNCHANGED <<fixed, goroutines, results, spill, batch, stored, count, firstErr>>
      /\ \/ main' = "drain" /\ tempDir' = TRUE /\ faults' = faults
         \/ main' = "error" /\ tempDir' = tempDir /\ faults' = faults \cup {"tempdir"}
      /\ main = "spill"
  BY FaultKept DEF MakeSpill, MakeSpillFails
<1>2. GoroutineInv' /\ (Bad(jobs') <=> Bad(jobs)) /\ (BadWorker' <=> BadWorker)
  <2>1. /\ UNCHANGED <<fixed, goroutines>> /\ results' \in Seq(Outcomes) /\ Len(results') <= ChannelSize
        /\ firstErr' \in BOOLEAN /\ faults \subseteq faults'
    BY <1>1 DEF GoroutineInv
  <2> QED BY <2>1, Waiting
<1>3. Bad(results') = Bad(results)
  BY <1>1
<1>4. FaultInv'
  BY <1>1, <1>2, <1>3 DEF FaultInv, goroutines
<1>5. MainInv'
  <2>1. /\ main' \in {"drain", "error"} /\ tempDir' \in BOOLEAN /\ count' \in Nat
        /\ main' = "error" => "tempdir" \in faults' /\ ~tempDir'
    <3>1. ~tempDir /\ tempDir \in BOOLEAN /\ count \in Nat /\ count' = count
      BY <1>1 DEF MainInv
    <3>2. CASE main' = "drain" /\ tempDir' = TRUE
      BY <3>1, <3>2
    <3>3. CASE main' = "error" /\ tempDir' = tempDir /\ faults' = faults \cup {"tempdir"}
      BY <3>1, <3>3
    <3> QED BY <1>1, <3>2, <3>3
  <2> QED BY <2>1 DEF MainInv
<1> QED BY <1>2, <1>4, <1>5

\* A batch that is flushed, or the decision not to.
LEMMA Flushed ==
  ASSUME NEW p, Flush(p), firstErr \in BOOLEAN
  PROVE  /\ firstErr' \in BOOLEAN /\ (firstErr => firstErr') /\ batch' = <<>>
         /\ \/ faults' = faults /\ firstErr' = firstErr /\ (p = <<>> => stored' = stored)
                                /\ (p # <<>> => stored' = stored \cup ToSet(p))
            \/ faults' = faults \cup {"put"} /\ firstErr'
BY FaultKept DEF Flush

LEMMA ErrorDrained == ASSUME GoroutineInv, FaultInv, MainInv, DrainError PROVE GoroutineInv' /\ FaultInv' /\ MainInv'
<1>1. /\ UNCHANGED <<fixed, goroutines, main, spill, tempDir, batch, stored, count, faults>>
      /\ main = "drain" /\ results # <<>> /\ results' = Tail(results) /\ firstErr' = TRUE
  BY DEF DrainError
<1>2. results' \in Seq(Outcomes) /\ Len(results') <= ChannelSize
  BY <1>1, Sizes, Shortened DEF GoroutineInv
<1>3. GoroutineInv' /\ (Bad(jobs') <=> Bad(jobs)) /\ (BadWorker' <=> BadWorker)
  BY <1>1, <1>2, Waiting
<1>4. FaultInv'
  BY <1>1, <1>3 DEF FaultInv, goroutines
<1>5. MainInv'
  BY <1>1 DEF MainInv
<1> QED BY <1>3, <1>4, <1>5

LEMMA RefDrained == ASSUME GoroutineInv, FaultInv, MainInv, DrainRef \/ DrainSpillFails PROVE GoroutineInv' /\ FaultInv' /\ MainInv'
<1>1. /\ UNCHANGED <<fixed, goroutines, main, tempDir>>
      /\ main = "drain" /\ results # <<>> /\ results' = Tail(results) /\ ~Head(results).err /\ ~firstErr
      /\ count' \in Nat
  BY DEF DrainRef, DrainSpillFails, MainInv
<1>2. firstErr' \in BOOLEAN /\ (faults' = faults \/ (faults' \in {faults \cup {"put"}, faults \cup {"spill"}} /\ firstErr'))
  <2>1. CASE DrainSpillFails
    BY <2>1, FaultKept DEF DrainSpillFails
  <2>2. CASE DrainRef
    <3> DEFINE pending == IF persist THEN Append(batch, Head(results).ref.hash) ELSE batch
    <3>1. Flush(pending) \/ UNCHANGED <<stored, firstErr, faults>>
      BY <2>2 DEF DrainRef
    <3> QED BY <3>1, Flushed DEF GoroutineInv
  <2> QED BY <2>1, <2>2, <1>1
<1>3. results' \in Seq(Outcomes) /\ Len(results') <= ChannelSize /\ (Bad(results') <=> Bad(results))
  BY <1>1, Sizes, Shortened, BadLists DEF GoroutineInv
<1>4. GoroutineInv' /\ (Bad(jobs') <=> Bad(jobs)) /\ (BadWorker' <=> BadWorker)
  <2>1. faults \subseteq faults'
    BY <1>2
  <2> QED BY <1>1, <1>2, <1>3, <2>1, Waiting
<1>5. FaultInv'
  BY <1>1, <1>2, <1>3, <1>4 DEF FaultInv, goroutines
<1>6. MainInv'
  BY <1>1 DEF MainInv
<1> QED BY <1>4, <1>5, <1>6

LEMMA DrainFinished == ASSUME GoroutineInv, FaultInv, MainInv, FinishDrain PROVE GoroutineInv' /\ FaultInv' /\ MainInv'
<1>1. /\ UNCHANGED <<fixed, goroutines, results, spill, count>>
      /\ main = "drain" /\ WorkersDone /\ results = <<>> /\ Flush(batch)
      /\ IF firstErr' \/ reader.err THEN main' = "error" /\ tempDir' = FALSE ELSE main' = "ok" /\ tempDir' = tempDir
  BY DEF FinishDrain, ResultsClosed
<1>2. /\ firstErr' \in BOOLEAN /\ (firstErr => firstErr') /\ batch' = <<>>
      /\ faults' = faults \/ (faults' = faults \cup {"put"} /\ firstErr')
  BY <1>1, Flushed DEF GoroutineInv
<1>3. GoroutineInv' /\ (Bad(jobs') <=> Bad(jobs)) /\ (BadWorker' <=> BadWorker)
  <2>1. faults \subseteq faults' /\ results' \in Seq(Outcomes) /\ Len(results') <= ChannelSize
    BY <1>1, <1>2 DEF GoroutineInv
  <2> QED BY <1>1, <1>2, <2>1, Waiting
<1>4. ~Bad(results) /\ Bad(results') = Bad(results)
  BY <1>1, BadLists DEF GoroutineInv
<1>5. FaultInv'
  BY <1>1, <1>2, <1>3, <1>4 DEF FaultInv, goroutines, MainInv
<1>6. ASSUME main' = "ok" PROVE faults' \subseteq {"use"} /\ reader.pc = "done" /\ jobs = <<>>
  <2>1. ~firstErr /\ ~reader.err /\ faults' = faults
    BY <1>1, <1>2, <1>6 DEF GoroutineInv
  <2>2. ~BadWorker
    BY <1>1 DEF BadWorker, WorkersDone
  <2>3. "codec" \notin faults
    BY <1>4, <2>1 DEF FaultInv
  <2>4. reader.pc = "done" /\ jobs = <<>>
    BY <1>1, <2>3, ScanAssumption DEF GoroutineInv, WorkersDone
  <2>5. ~Bad(jobs)
    BY <2>4, BadLists DEF GoroutineInv
  <2>6. faults \cap {"decode", "encode", "codec", "cursor", "put", "spill", "tempdir"} = {}
    BY <1>1, <1>4, <2>1, <2>2, <2>3, <2>5 DEF FaultInv
  <2> QED BY <2>1, <2>4, <2>6 DEF FaultInv
<1>7. MainInv'
  <2>1. main' \in {"ok", "error"} /\ tempDir' \in BOOLEAN /\ count' = count /\ (main' = "error" => ~tempDir')
    BY <1>1 DEF MainInv
  <2>2. main' = "error" => firstErr' \/ reader'.err
    BY <1>1 DEF goroutines
  <2>3. main' = "ok" => Quiet' /\ ~firstErr' /\ ~reader'.err /\ reader'.pc = "done" /\ WorkersDone' /\ jobs' = <<>>
    BY <1>1, <1>6 DEF Quiet, WorkersDone, goroutines
  <2> QED BY <1>1, <1>2, <2>1, <2>2, <2>3 DEF MainInv
<1> QED BY <1>3, <1>5, <1>7

LEMMA GoroutineStep == ASSUME GoroutineInv, FaultInv, MainInv, ScanNext PROVE GoroutineInv' /\ FaultInv' /\ MainInv'
<1>1. CASE ReaderStep
  BY <1>1, SentJob, SentBadJob, ReaderEnded DEF ReaderStep
<1>2. CASE \E w \in Workers : WorkerStep(w)
  BY <1>2, CodecFailed, Encoding, SentResult, WorkerEnded DEF WorkerStep
<1>3. CASE MainStep
  BY <1>3, SpillMade, ErrorDrained, RefDrained, DrainFinished DEF MainStep, DrainStep
<1> QED BY <1>1, <1>2, <1>3 DEF ScanNext

-----------------------------------------------------------------------------
\* Where the documents are, as long as nothing has failed.

LEMMA RefsOf ==
  ASSUME NEW s \in Seq(Good), Distinct(s)
  PROVE  /\ \A r \in Known : /\ Append(s, Encoded(r)) \in Seq(Good) /\ RefsIn(Append(s, Encoded(r))) = RefsIn(s) \cup {r}
                             /\ r \notin RefsIn(s) => Distinct(Append(s, Encoded(r)))
         /\ s # <<>> => /\ Head(s) \in Good /\ Head(s).ref \in Known /\ Head(s) = Encoded(Head(s).ref) /\ Head(s).err = FALSE
                        /\ Tail(s) \in Seq(Good) /\ Distinct(Tail(s))
                        /\ Head(s).ref \in RefsIn(s) /\ RefsIn(Tail(s)) = RefsIn(s) \ {Head(s).ref}
         /\ RefsIn(s) \subseteq Known /\ \A o \in ToSet(s) : o = Encoded(o.ref) /\ o.ref \in RefsIn(s)
<1>1. \A o \in ToSet(s) : o \in Good /\ o.ref \in Known /\ o = Encoded(o.ref) /\ o.ref \in RefsIn(s)
  BY ListOf, OutcomeFields DEF RefsIn
<1>2. ASSUME NEW r \in Known
      PROVE  /\ Append(s, Encoded(r)) \in Seq(Good) /\ RefsIn(Append(s, Encoded(r))) = RefsIn(s) \cup {r}
             /\ r \notin RefsIn(s) => Distinct(Append(s, Encoded(r)))
  <2>1. Encoded(r) \in Good /\ Encoded(r).ref = r
    BY OutcomeFields
  <2>2. Append(s, Encoded(r)) \in Seq(Good) /\ ToSet(Append(s, Encoded(r))) = ToSet(s) \cup {Encoded(r)}
    BY <2>1, Appended
  <2>3. RefsIn(Append(s, Encoded(r))) = RefsIn(s) \cup {r}
    BY <2>1, <2>2 DEF RefsIn
  <2>4. r \notin RefsIn(s) => Encoded(r) \notin ToSet(s)
    BY <2>1 DEF RefsIn
  <2> QED BY <2>1, <2>2, <2>3, <2>4, DistinctLists
<1>3. ASSUME s # <<>>
      PROVE  /\ Head(s) \in Good /\ Head(s).ref \in Known /\ Head(s) = Encoded(Head(s).ref) /\ Head(s).err = FALSE
             /\ Tail(s) \in Seq(Good) /\ Distinct(Tail(s))
             /\ Head(s).ref \in RefsIn(s) /\ RefsIn(Tail(s)) = RefsIn(s) \ {Head(s).ref}
  <2>1. /\ Head(s) \in Good /\ Tail(s) \in Seq(Good) /\ ToSet(s) = ToSet(Tail(s)) \cup {Head(s)}
        /\ Distinct(Tail(s)) /\ Head(s) \notin ToSet(Tail(s))
    BY <1>3, Shortened, DistinctLists
  <2>2. /\ Head(s).ref \in Known /\ Head(s) = Encoded(Head(s).ref) /\ Head(s).err = FALSE
        /\ \A o \in ToSet(Tail(s)) : o = Encoded(o.ref)
    BY <1>1, <2>1, OutcomeFields
  <2>3. \A o \in ToSet(Tail(s)) : o.ref # Head(s).ref
    BY <2>1, <2>2
  <2> QED BY <2>1, <2>2, <2>3 DEF RefsIn
<1>4. RefsIn(s) \subseteq Known
  BY <1>1 DEF RefsIn
<1> QED BY <1>1, <1>2, <1>3, <1>4

\* The documents of a collection are told apart by their identifiers.
LEMMA InputRefs ==
  ASSUME GoroutineInv
  PROVE  /\ input \in Seq(Known) /\ Len(input) \in Nat /\ DOMAIN input = 1..Len(input)
         /\ \A i, j \in 1..Len(input) : input[i].id = input[j].id => i = j
         /\ reader.pos \in 1..Len(input) + 1 /\ Read \subseteq Known /\ Read \subseteq ToSet(input)
         /\ \A r, q \in Read : r.id = q.id => r = q
         /\ reader.pos <= Len(input) => /\ input[reader.pos] \in Known /\ input[reader.pos].id \notin IdsIn(Read)
                                        /\ input[reader.pos] \notin Read
         /\ reader.pos = Len(input) + 1 => Read = ToSet(input)
<1>1. input \in Seq(Known) /\ Len(input) \in Nat /\ DOMAIN input = 1..Len(input)
      /\ \A i, j \in 1..Len(input) : input[i].id = input[j].id => i = j
  BY Sizes, KnownLists DEF GoroutineInv
<1>2. reader.pos \in 1..Len(input) + 1
  BY <1>1 DEF GoroutineInv
<1>3. ToSet(input) = {input[i] : i \in 1..Len(input)} /\ ToSet(input) \subseteq Known
  BY <1>1, ListOf DEF ToSet
<1>4. \A i \in 1..reader.pos - 1 : i \in 1..Len(input) /\ i # reader.pos
  BY <1>1, <1>2
<1>5. reader.pos <= Len(input) => reader.pos \in 1..Len(input)
  BY <1>1, <1>2
<1>6. Read \subseteq ToSet(input)
  BY <1>3, <1>4 DEF Read
<1>7. \A r, q \in Read : r.id = q.id => r = q
  BY <1>1, <1>4 DEF Read
<1>8. reader.pos <= Len(input) => input[reader.pos] \in Known /\ input[reader.pos].id \notin IdsIn(Read)
  BY <1>1, <1>3, <1>4, <1>5 DEF Read, IdsIn
<1>9. reader.pos = Len(input) + 1 => Read = ToSet(input)
  BY <1>1, <1>3 DEF Read
<1> QED BY <1>1, <1>2, <1>3, <1>6, <1>7, <1>8, <1>9 DEF IdsIn

\* Steps of the goroutines leave the spill and the store alone.
LEMMA SpillAlone ==
  ASSUME ScanInv, UNCHANGED <<persist, spill, batch, stored, count, stage>>, Quiet' => Quiet
  PROVE  SpillInv' /\ BatchInv' /\ Taken' = Taken
BY DEF ScanInv, SpillInv, BatchInv, Taken, SpilledRuns

LEMMA JobIsPlaced == ASSUME ScanInv, SendJob PROVE PlaceInv'
<1> SUFFICES ASSUME Quiet' PROVE PlaceInv'
  BY DEF PlaceInv
<1> DEFINE ref == input[reader.pos]
<1>1. Quiet /\ GoroutineInv /\ faults' = faults
  BY DEF SendJob, Quiet, ScanInv
<1>2. /\ ~firstErr /\ ~reader.err /\ jobs \in Seq(Good) /\ results \in Seq(Good)
      /\ \A w \in Busy : worker[w].result \in Good
      /\ Read = Queued \cup Working \cup Ready \cup Taken
      /\ Queued \cap (Working \cup Ready \cup Taken) = {}
      /\ Working \cap (Ready \cup Taken) = {} /\ Ready \cap Taken = {}
      /\ Distinct(jobs) /\ Distinct(results)
      /\ \A v, w \in Busy : worker[v].result = worker[w].result => v = w
  BY <1>1 DEF ScanInv, PlaceInv
<1>3. /\ jobs' = Append(jobs, Encoded(ref)) /\ reader' = [reader EXCEPT !.pos = @ + 1]
      /\ UNCHANGED <<kind, persist, input, worker, results, main, spill, tempDir, batch, stored, count, firstErr>>
      /\ reader.pc = "reading" /\ reader.pos <= Len(input)
  BY DEF SendJob, fixed, mainVars
<1>4. /\ ref \in Known /\ ref \notin Read /\ reader.pos \in 1..Len(input) + 1 /\ Len(input) \in Nat
  BY <1>1, <1>3, InputRefs
<1>5. reader'.pos = reader.pos + 1 /\ reader'.err = reader.err /\ reader'.pc = reader.pc
  BY <1>1, <1>3 DEF GoroutineInv
<1>6. Read' = Read \cup {ref}
  BY <1>3, <1>4, <1>5 DEF Read
<1>7. /\ jobs' \in Seq(Good) /\ Queued' = Queued \cup {ref} /\ (ref \notin Queued => Distinct(jobs'))
  BY <1>2, <1>3, <1>4, RefsOf DEF Queued
<1>8. Busy' = Busy /\ Working' = Working /\ Ready' = Ready /\ Taken' = Taken /\ Distinct(results)'
  BY <1>2, <1>3 DEF Busy, Working, Ready, Taken, SpilledRuns, Distinct
<1>9. Distinct(jobs)' = Distinct(jobs')
  BY DEF Distinct
<1>10. /\ Read' = Queued' \cup Working' \cup Ready' \cup Taken'
       /\ Queued' \cap (Working' \cup Ready' \cup Taken') = {}
       /\ Working' \cap (Ready' \cup Taken') = {} /\ Ready' \cap Taken' = {} /\ Distinct(jobs)'
  BY <1>2, <1>4, <1>6, <1>7, <1>8, <1>9
<1>11. /\ \A w \in Busy' : worker'[w].result \in Good
       /\ \A v, w \in Busy' : worker'[v].result = worker'[w].result => v = w
  BY <1>2, <1>3, <1>8
<1> QED BY <1>2, <1>3, <1>5, <1>7, <1>8, <1>10, <1>11 DEF PlaceInv

LEMMA OthersArePlaced ==
  ASSUME ScanInv, UNCHANGED <<input, jobs, results, worker, spill, firstErr>>, Quiet' => Quiet,
         \/ reader' = reader
         \/ ~Quiet'
         \/ reader.pos > Len(input) /\ reader' = [reader EXCEPT !.pc = "done"]
  PROVE  PlaceInv'
<1> SUFFICES ASSUME Quiet' PROVE PlaceInv'
  BY DEF PlaceInv
<1>1. Quiet /\ GoroutineInv /\ PlaceInv
  BY DEF ScanInv
<1>2. reader'.pos = reader.pos /\ reader'.err = reader.err /\ (reader'.pc = "done" => reader.pos = Len(input) + 1)
  <2>1. reader' = reader \/ (reader.pos > Len(input) /\ reader' = [reader EXCEPT !.pc = "done"])
    OBVIOUS
  <2>2. reader.pos \in 1..Len(input) + 1 /\ Len(input) \in Nat
    BY <1>1, InputRefs
  <2> QED BY <1>1, <2>1, <2>2 DEF GoroutineInv, PlaceInv
<1>3. Read' = Read /\ Queued' = Queued /\ Busy' = Busy /\ Working' = Working /\ Ready' = Ready /\ Taken' = Taken
      /\ Distinct(jobs)' = Distinct(jobs) /\ Distinct(results)' = Distinct(results)
  BY <1>2 DEF Read, Queued, Busy, Working, Ready, Taken, SpilledRuns, Distinct
<1>4. /\ \A w \in Busy' : worker'[w].result \in Good
      /\ \A v, w \in Busy' : worker'[v].result = worker'[w].result => v = w
  BY <1>1, <1>3 DEF PlaceInv
<1> QED BY <1>1, <1>2, <1>3, <1>4 DEF PlaceInv

LEMMA JobIsTaken == ASSUME ScanInv, NEW w \in Workers, Encode(w) PROVE PlaceInv'
<1> SUFFICES ASSUME Quiet' PROVE PlaceInv'
  BY DEF PlaceInv
<1> DEFINE o == Head(jobs)
           sending == [pc |-> "sending", result |-> o]
<1>1. /\ worker[w].pc \in {"start", "idle"} /\ jobs # <<>> /\ jobs' = Tail(jobs) /\ results' = results
      /\ Become(w, sending) /\ faults' = faults
  <2>1. ~ Fault("encode")
    BY FaultKept DEF Quiet
  <2> QED BY <2>1 DEF Encode
<1>2. Quiet /\ GoroutineInv
  BY <1>1 DEF Quiet, ScanInv
<1>3. /\ ~firstErr /\ ~reader.err /\ jobs \in Seq(Good) /\ results \in Seq(Good)
      /\ \A v \in Busy : worker[v].result \in Good
      /\ reader.pc = "done" => reader.pos = Len(input) + 1
      /\ Read = Queued \cup Working \cup Ready \cup Taken
      /\ Queued \cap (Working \cup Ready \cup Taken) = {}
      /\ Working \cap (Ready \cup Taken) = {} /\ Ready \cap Taken = {}
      /\ Distinct(jobs) /\ Distinct(results)
      /\ \A v, u \in Busy : worker[v].result = worker[u].result => v = u
  BY <1>2 DEF ScanInv, PlaceInv
<1>4. /\ o \in Good /\ o.ref \in Known /\ o = Encoded(o.ref) /\ o.err = FALSE
      /\ jobs' \in Seq(Good) /\ Distinct(jobs') /\ o.ref \in Queued /\ Queued' = Queued \ {o.ref}
  BY <1>1, <1>3, RefsOf DEF Queued
<1>5. sending \in [pc : {"sending"}, result : Outcomes] /\ sending.pc = "sending" /\ sending.result = o
  BY <1>4, OutcomeFields
<1> HIDE DEF sending, o
<1>6. /\ worker'[w] = sending /\ \A v \in Workers \ {w} : worker'[v] = worker[v]
      /\ UNCHANGED <<kind, persist, input, reader, main, spill, tempDir, batch, stored, count, firstErr>>
  BY <1>1, <1>2, <1>5, Becoming
<1>7. w \notin Busy /\ Busy' = Busy \cup {w} /\ \A v \in Busy : worker'[v] = worker[v]
  BY <1>1, <1>5, <1>6 DEF Busy
<1>8. Working' = Working \cup {o.ref}
  BY <1>5, <1>6, <1>7 DEF Working
<1>9. Read' = Read /\ Ready' = Ready /\ Taken' = Taken /\ Distinct(results)'
  BY <1>1, <1>3, <1>6 DEF Read, Ready, Taken, SpilledRuns, Distinct
<1>10. /\ Read' = Queued' \cup Working' \cup Ready' \cup Taken'
       /\ Queued' \cap (Working' \cup Ready' \cup Taken') = {}
       /\ Working' \cap (Ready' \cup Taken') = {} /\ Ready' \cap Taken' = {}
  BY <1>3, <1>4, <1>8, <1>9
<1>11. \A v \in Busy : worker[v].result # o
  BY <1>3, <1>4 DEF Working
<1>12. /\ \A v \in Busy' : worker'[v].result \in Good
       /\ \A v, u \in Busy' : worker'[v].result = worker'[u].result => v = u
  <2>1. worker'[w].result = o /\ \A v \in Busy : worker'[v].result = worker[v].result /\ v # w
    BY <1>5, <1>6, <1>7
  <2>2. \A v \in Busy' : v = w \/ v \in Busy
    BY <1>7
  <2> QED BY <1>3, <1>4, <1>11, <2>1, <2>2
<1>13. Distinct(jobs)'
  BY <1>4 DEF Distinct
<1> QED BY <1>1, <1>3, <1>4, <1>6, <1>9, <1>10, <1>12, <1>13 DEF PlaceInv

LEMMA ResultIsSent == ASSUME ScanInv, NEW w \in Workers, SendResult(w) PROVE PlaceInv'
<1> SUFFICES ASSUME Quiet' PROVE PlaceInv'
  BY DEF PlaceInv
<1> DEFINE o == worker[w].result
           idle == [pc |-> "idle"]
<1>1. /\ worker[w].pc = "sending" /\ jobs' = jobs /\ faults' = faults /\ Become(w, idle)
      /\ results' = Append(results, o)
  BY DEF SendResult
<1>2. Quiet /\ GoroutineInv
  BY <1>1 DEF Quiet, ScanInv
<1>3. /\ ~firstErr /\ ~reader.err /\ jobs \in Seq(Good) /\ results \in Seq(Good)
      /\ \A v \in Busy : worker[v].result \in Good
      /\ reader.pc = "done" => reader.pos = Len(input) + 1
      /\ Read = Queued \cup Working \cup Ready \cup Taken
      /\ Queued \cap (Working \cup Ready \cup Taken) = {}
      /\ Working \cap (Ready \cup Taken) = {} /\ Ready \cap Taken = {}
      /\ Distinct(jobs) /\ Distinct(results)
      /\ \A v, u \in Busy : worker[v].result = worker[u].result => v = u
  BY <1>2 DEF ScanInv, PlaceInv
<1>4. w \in Busy /\ o \in Good /\ o.ref \in Known /\ o = Encoded(o.ref) /\ o.ref \in Working
  <2>1. w \in Busy /\ o \in Good
    BY <1>1, <1>3 DEF Busy
  <2> QED BY <2>1, OutcomeFields DEF Working
<1>5. results' \in Seq(Good) /\ Ready' = Ready \cup {o.ref} /\ Distinct(results')
  <2>1. /\ Append(results, Encoded(o.ref)) \in Seq(Good) /\ RefsIn(Append(results, Encoded(o.ref))) = RefsIn(results) \cup {o.ref}
        /\ o.ref \notin RefsIn(results) => Distinct(Append(results, Encoded(o.ref)))
    BY <1>3, <1>4, RefsOf
  <2> QED BY <1>1, <1>3, <1>4, <2>1 DEF Ready
<1>6. idle \in [pc : {"start", "idle", "done"}] /\ idle.pc = "idle"
  OBVIOUS
<1> HIDE DEF idle
<1>7. /\ worker'[w] = idle /\ \A v \in Workers \ {w} : worker'[v] = worker[v]
      /\ UNCHANGED <<kind, persist, input, reader, main, spill, tempDir, batch, stored, count, firstErr>>
  BY <1>1, <1>2, <1>6, Becoming
<1>8. Busy' = Busy \ {w} /\ \A v \in Busy' : worker'[v] = worker[v]
  BY <1>1, <1>6, <1>7 DEF Busy
<1>9. \A v \in Busy' : worker[v].result.ref # o.ref
  <2> SUFFICES ASSUME NEW v \in Busy', worker[v].result.ref = o.ref PROVE FALSE
    OBVIOUS
  <2>1. v \in Busy /\ v # w
    BY <1>8
  <2>2. worker[v].result = Encoded(worker[v].result.ref)
    BY <1>3, <2>1, OutcomeFields
  <2> QED BY <1>3, <1>4, <2>1, <2>2
<1>10. Working' = Working \ {o.ref}
  <2>1. Working' = {worker[v].result.ref : v \in Busy'}
    BY <1>8 DEF Working
  <2>2. Busy = Busy' \cup {w}
    BY <1>4, <1>8
  <2> QED BY <1>9, <2>1, <2>2 DEF Working
<1>11. Read' = Read /\ Queued' = Queued /\ Taken' = Taken /\ Distinct(jobs)'
  BY <1>1, <1>3, <1>7 DEF Read, Queued, Taken, SpilledRuns, Distinct
<1>12. /\ Read' = Queued' \cup Working' \cup Ready' \cup Taken'
       /\ Queued' \cap (Working' \cup Ready' \cup Taken') = {}
       /\ Working' \cap (Ready' \cup Taken') = {} /\ Ready' \cap Taken' = {}
  BY <1>3, <1>4, <1>5, <1>10, <1>11
<1>13. /\ \A v \in Busy' : worker'[v].result \in Good
       /\ \A v, u \in Busy' : worker'[v].result = worker'[u].result => v = u
  BY <1>3, <1>8
<1>14. Distinct(results)'
  BY <1>5 DEF Distinct
<1> QED BY <1>1, <1>3, <1>5, <1>7, <1>11, <1>12, <1>13, <1>14 DEF PlaceInv

LEMMA WorkerIsGone == ASSUME ScanInv, NEW w \in Workers, WorkerEnds(w) PROVE PlaceInv'
<1> SUFFICES ASSUME Quiet' PROVE PlaceInv'
  BY DEF PlaceInv
<1> DEFINE gone == [pc |-> "done"]
<1>1. /\ worker[w].pc \in {"start", "idle"} /\ jobs' = jobs /\ results' = results /\ faults' = faults /\ Become(w, gone)
  BY DEF WorkerEnds
<1>2. Quiet /\ GoroutineInv
  BY <1>1 DEF Quiet, ScanInv
<1>3. gone \in [pc : {"start", "idle", "done"}] /\ gone.pc = "done"
  OBVIOUS
<1> HIDE DEF gone
<1>4. /\ worker'[w] = gone /\ \A v \in Workers \ {w} : worker'[v] = worker[v]
      /\ UNCHANGED <<kind, persist, input, reader, main, spill, tempDir, batch, stored, count, firstErr>>
  BY <1>1, <1>2, <1>3, Becoming
<1>5. Busy' = Busy /\ \A v \in Busy : worker'[v] = worker[v]
  BY <1>1, <1>3, <1>4 DEF Busy
<1>6. Read' = Read /\ Queued' = Queued /\ Working' = Working /\ Ready' = Ready /\ Taken' = Taken
      /\ Distinct(jobs)' = Distinct(jobs) /\ Distinct(results)' = Distinct(results)
  BY <1>1, <1>4, <1>5 DEF Read, Queued, Working, Ready, Taken, SpilledRuns, Distinct
<1> QED BY <1>1, <1>2, <1>4, <1>5, <1>6 DEF ScanInv, PlaceInv

\* What a quiet turn of the drain loop does.
LEMMA QuietDrain ==
  ASSUME ScanInv, DrainRef, Quiet'
  PROVE  LET ref == Head(results).ref
             pending == IF persist THEN Append(batch, ref.hash) ELSE batch
         IN  /\ Quiet /\ results # <<>> /\ results' = Tail(results)
             /\ spill' = SpillAdd(spill, ref, RunSize) /\ count' = count + 1 /\ firstErr' = firstErr
             /\ \/ batch' = pending /\ stored' = stored
                \/ batch' = <<>> /\ stored' = stored \cup ToSet(pending)
                \/ batch' = <<>> /\ stored' = stored /\ pending = <<>>
             /\ UNCHANGED <<kind, persist, input, reader, jobs, worker, main, tempDir>>
<1> DEFINE ref == Head(results).ref
           pending == IF persist THEN Append(batch, ref.hash) ELSE batch
<1>1. /\ results # <<>> /\ results' = Tail(results) /\ ~firstErr
      /\ spill' = SpillAdd(spill, ref, RunSize) /\ count' = count + 1
      /\ Flush(pending) \/ (batch' = pending /\ UNCHANGED <<stored, firstErr, faults>>)
      /\ UNCHANGED <<kind, persist, input, reader, jobs, worker, main, tempDir>>
  BY DEF DrainRef, fixed, goroutines
<1> HIDE DEF pending
<1>2. CASE Flush(pending)
  <2>1. /\ batch' = <<>>
        /\ \/ faults' = faults /\ firstErr' = firstErr /\ (pending = <<>> => stored' = stored)
                               /\ (pending # <<>> => stored' = stored \cup ToSet(pending))
           \/ faults' = faults \cup {"put"}
    BY <1>2, Flushed DEF ScanInv, GoroutineInv
  <2>2. faults' = faults
    BY <2>1 DEF Quiet
  <2>3. firstErr' = firstErr /\ (pending = <<>> => stored' = stored) /\ (pending # <<>> => stored' = stored \cup ToSet(pending))
    BY <2>1, <2>2 DEF Quiet
  <2>4. Quiet
    BY <2>2 DEF Quiet
  <2> QED BY <1>1, <2>1, <2>3, <2>4 DEF pending
<1>3. CASE batch' = pending /\ UNCHANGED <<stored, firstErr, faults>>
  BY <1>1, <1>3 DEF Quiet, pending
<1> QED BY <1>1, <1>2, <1>3

LEMMA RefIsSpilled ==
  ASSUME ScanInv, DrainRef, Quiet', stage' = stage
  PROVE  PlaceInv' /\ SpillInv' /\ BatchInv'
<1> DEFINE ref == Head(results).ref
           pending == IF persist THEN Append(batch, ref.hash) ELSE batch
<1>1. /\ Quiet /\ results # <<>> /\ results' = Tail(results)
      /\ spill' = SpillAdd(spill, ref, RunSize) /\ count' = count + 1 /\ firstErr' = firstErr
      /\ \/ batch' = pending /\ stored' = stored
         \/ batch' = <<>> /\ stored' = stored \cup ToSet(pending)
         \/ batch' = <<>> /\ stored' = stored /\ pending = <<>>
      /\ UNCHANGED <<kind, persist, input, reader, jobs, worker, main, tempDir>>
  BY QuietDrain
<1> HIDE DEF pending
<1>2. GoroutineInv
  BY DEF ScanInv
<1>3. /\ ~firstErr /\ ~reader.err /\ jobs \in Seq(Good) /\ results \in Seq(Good)
      /\ \A v \in Busy : worker[v].result \in Good
      /\ reader.pc = "done" => reader.pos = Len(input) + 1
      /\ Read = Queued \cup Working \cup Ready \cup Taken
      /\ Queued \cap (Working \cup Ready \cup Taken) = {}
      /\ Working \cap (Ready \cup Taken) = {} /\ Ready \cap Taken = {}
      /\ Distinct(jobs) /\ Distinct(results)
      /\ \A v, u \in Busy : worker[v].result = worker[u].result => v = u
  BY <1>1 DEF ScanInv, PlaceInv
<1>4. /\ ref \in Known /\ results' \in Seq(Good) /\ Distinct(results') /\ ref \in Ready /\ Ready' = Ready \ {ref}
  BY <1>1, <1>3, RefsOf DEF Ready
<1> HIDE DEF ref
<1>5. SpillFine(spill) /\ Held(spill) = Taken /\ IsFiniteSet(Taken) /\ count = Cardinality(Taken)
  BY <1>1 DEF ScanInv, SpillInv, SpillFine, Held, Taken, SpilledRuns
<1>6. ref \notin Taken /\ ref.id \notin IdsIn(Taken)
  <2>1. ref \in Read /\ Taken \subseteq Read /\ ref \notin Taken
    BY <1>3, <1>4
  <2>2. \A r, q \in Read : r.id = q.id => r = q
    BY <1>2, InputRefs
  <2> QED BY <2>1, <2>2 DEF IdsIn
<1>7. /\ SpillFine(spill') /\ Held(spill') = Taken \cup {ref} /\ spill'.dirty = (spill'.buf # <<>>)
  BY <1>1, <1>4, <1>5, <1>6, RefAdded
<1>8. Taken' = Taken \cup {ref}
  BY <1>7 DEF Held, Taken, SpilledRuns
<1>9. SpillInv'
  <2>1. IsFiniteSet(Taken \cup {ref}) /\ Cardinality(Taken \cup {ref}) = Cardinality(Taken) + 1
    BY <1>5, <1>6, FS_AddElement
  <2> QED BY <1>1, <1>5, <1>7, <1>8, <2>1 DEF SpillInv, SpillFine, Held, Taken, SpilledRuns
<1>10. Read' = Read /\ Queued' = Queued /\ Busy' = Busy /\ Working' = Working /\ Distinct(jobs)' = Distinct(jobs)
       /\ Distinct(results)' = Distinct(results')
  BY <1>1 DEF Read, Queued, Busy, Working, Distinct
<1>11. /\ Read' = Queued' \cup Working' \cup Ready' \cup Taken'
       /\ Queued' \cap (Working' \cup Ready' \cup Taken') = {}
       /\ Working' \cap (Ready' \cup Taken') = {} /\ Ready' \cap Taken' = {}
  BY <1>3, <1>4, <1>8, <1>10
<1>12. PlaceInv'
  BY <1>1, <1>3, <1>4, <1>10, <1>11 DEF PlaceInv
<1>13. BatchInv'
  <2> DEFINE S == {r.hash : r \in Known}
  <2>1. /\ batch \in Seq(S)
        /\ IF persist THEN {r.hash : r \in Taken} \subseteq stored \cup ToSet(batch) ELSE batch = <<>>
    BY <1>1 DEF ScanInv, BatchInv
  <2>2. ref.hash \in S /\ {r.hash : r \in Taken'} = {r.hash : r \in Taken} \cup {ref.hash}
    BY <1>4, <1>8
  <2> HIDE DEF S
  <2>3. pending \in Seq(S)
    BY <2>1, <2>2 DEF pending
  <2>4. batch' \in Seq(S)
    <3>1. <<>> \in Seq(S)
      OBVIOUS
    <3>2. batch' = pending \/ batch' = <<>>
      BY <1>1
    <3> QED BY <2>3, <3>1, <3>2
  <2>5. CASE persist
    <3>1. pending # <<>> /\ ToSet(pending) = ToSet(batch) \cup {ref.hash}
      <4>1. Len(pending) = Len(batch) + 1 /\ ToSet(pending) = ToSet(batch) \cup {ref.hash} /\ Len(batch) \in Nat
        BY <2>1, <2>2, <2>5, Appended, ListOf DEF pending
      <4> QED BY <4>1, <2>3, ListOf
    <3>2. {r.hash : r \in Taken'} \subseteq stored' \cup ToSet(batch')
      BY <1>1, <2>1, <2>2, <2>5, <3>1
    <3> QED BY <1>1, <2>4, <2>5, <3>2 DEF BatchInv, S, ToSet
  <2>6. CASE ~persist
    <3>1. batch' = <<>>
      BY <1>1, <2>1, <2>6 DEF pending
    <3> QED BY <1>1, <2>4, <2>6, <3>1 DEF BatchInv, S
  <2> QED BY <2>5, <2>6
<1> QED BY <1>9, <1>12, <1>13

LEMMA LastBatch ==
  ASSUME ScanInv, FinishDrain, stage' = stage
  PROVE  PlaceInv' /\ SpillInv' /\ BatchInv'
<1>1. /\ UNCHANGED <<kind, persist, input, reader, jobs, worker, results, spill, count>> /\ Flush(batch)
  BY DEF FinishDrain, fixed, goroutines
<1>2. /\ batch' = <<>>
      /\ \/ faults' = faults /\ firstErr' = firstErr /\ (batch = <<>> => stored' = stored)
                             /\ (batch # <<>> => stored' = stored \cup ToSet(batch))
         \/ faults' = faults \cup {"put"}
  BY <1>1, Flushed DEF ScanInv, GoroutineInv
<1>3. CASE ~Quiet'
  BY <1>3 DEF PlaceInv, SpillInv, BatchInv
<1>4. CASE Quiet'
  <2>1. faults' = faults
    BY <1>2, <1>4 DEF Quiet
  <2>2. Quiet /\ firstErr' = firstErr /\ (batch = <<>> => stored' = stored) /\ (batch # <<>> => stored' = stored \cup ToSet(batch))
    BY <1>2, <1>4, <2>1 DEF Quiet
  <2>3. PlaceInv'
    BY <1>1, <2>2, OthersArePlaced
  <2>4. SpillInv' /\ Taken' = Taken
    BY <1>1, <2>2 DEF ScanInv, SpillInv, Taken, SpilledRuns
  <2>5. BatchInv'
    <3>1. batch' \in Seq({r.hash : r \in Known})
      BY <1>2
    <3>2. ToSet(<<>>) = {} /\ Taken' = Taken
      BY <2>4, EmptyLists
    <3>3. IF persist THEN {r.hash : r \in Taken} \subseteq stored \cup ToSet(batch) ELSE batch = <<>>
      BY <2>2 DEF ScanInv, BatchInv
    <3>4. persist => {r.hash : r \in Taken} \subseteq stored' \cup ToSet(batch')
      BY <1>2, <2>2, <3>2, <3>3
    <3> QED BY <1>1, <1>2, <3>1, <3>2, <3>4 DEF BatchInv, ToSet
  <2> QED BY <2>3, <2>4, <2>5
<1> QED BY <1>3, <1>4

LEMMA ScanStepInv == ASSUME ScanInv, ScanNext, stage' = stage PROVE ScanInv'
<1>1. GoroutineInv' /\ FaultInv' /\ MainInv'
  BY GoroutineStep DEF ScanInv
<1>2. Quiet' => Quiet
  <2>1. faults \subseteq faults'
    BY DEF ScanNext, ReaderStep, WorkerStep, MainStep, DrainStep, SendJob, SendBadJob, ReadEnds, ReadFails, CodecFails,
           Encode, SendResult, WorkerEnds, MakeSpill, MakeSpillFails, DrainError, DrainRef, DrainSpillFails, FinishDrain,
           Flush, Fault
  <2> QED BY <2>1 DEF Quiet
<1>3. PlaceInv' /\ SpillInv' /\ BatchInv'
  <2>1. CASE SendJob
    BY <2>1, <1>2, JobIsPlaced, SpillAlone DEF SendJob, fixed, mainVars
  <2>2. CASE \E w \in Workers : Encode(w) \/ SendResult(w) \/ WorkerEnds(w)
    BY <2>2, <1>2, JobIsTaken, ResultIsSent, WorkerIsGone, SpillAlone DEF Encode, SendResult, WorkerEnds, Become, fixed, mainVars
  <2>3. CASE SendBadJob \/ ReadFails \/ (\E w \in Workers : CodecFails(w)) \/ MakeSpillFails \/ DrainSpillFails
    <3>1. \E f \in {"decode", "cursor", "codec", "tempdir", "spill"} : Fault(f)
      BY <2>3 DEF SendBadJob, ReadFails, CodecFails, MakeSpillFails, DrainSpillFails
    <3>2. ~Quiet'
      BY <3>1, FaultKept DEF Quiet
    <3> QED BY <3>2 DEF PlaceInv, SpillInv, BatchInv
  <2>4. CASE ReadEnds
    BY <2>4, <1>2, OthersArePlaced, SpillAlone DEF ReadEnds, fixed, mainVars
  <2>5. CASE MakeSpill
    BY <2>5, <1>2, OthersArePlaced, SpillAlone DEF MakeSpill, fixed, goroutines
  <2>6. CASE DrainError
    <3>1. ~Quiet'
      <4> SUFFICES ASSUME Quiet PROVE FALSE
        BY <1>2
      <4>1. results \in Seq(Good) /\ Distinct(results) /\ ~firstErr
        BY DEF ScanInv, PlaceInv
      <4> QED BY <2>6, <4>1, RefsOf DEF DrainError
    <3> QED BY <3>1 DEF PlaceInv, SpillInv, BatchInv
  <2>7. CASE DrainRef
    <3>1. CASE ~Quiet'
      BY <3>1 DEF PlaceInv, SpillInv, BatchInv
    <3> QED BY <2>7, <3>1, RefIsSpilled
  <2>8. CASE FinishDrain
    BY <2>8, LastBatch
  <2> QED BY <2>1, <2>2, <2>3, <2>4, <2>5, <2>6, <2>7, <2>8 DEF ScanNext, ReaderStep, WorkerStep, MainStep, DrainStep
<1> QED BY <1>1, <1>3 DEF ScanInv

-----------------------------------------------------------------------------
\* What a request makes of the scan.

\* A scan that succeeded has the whole collection in its spill.
LEMMA AllTaken ==
  ASSUME ScanInv, main = "ok"
  PROVE  Quiet /\ Taken = ToSet(input) /\ SpillFine(spill) /\ Held(spill) = Taken
<1>1. Quiet /\ reader.pc = "done" /\ WorkersDone /\ jobs = <<>> /\ results = <<>> /\ GoroutineInv
  BY DEF ScanInv, MainInv
<1>2. reader.pos = Len(input) + 1 /\ Read = Queued \cup Working \cup Ready \cup Taken
  BY <1>1 DEF ScanInv, PlaceInv
<1>3. Queued = {} /\ Ready = {}
  BY <1>1, EmptyLists DEF Queued, Ready, RefsIn
<1>4. Working = {}
  BY <1>1 DEF Working, Busy, WorkersDone
<1>5. Read = ToSet(input)
  BY <1>1, <1>2, InputRefs
<1>6. SpillFine(spill) /\ Held(spill) = Taken
  BY <1>1 DEF ScanInv, SpillInv, SpillFine, Held, Taken, SpilledRuns
<1> QED BY <1>1, <1>2, <1>3, <1>4, <1>5, <1>6

LEMMA Opened ==
  ASSUME ScanInv, RequestInv, stage = "open", target = "live", OpenSpill
  PROVE  /\ main = "ok" /\ Quiet /\ SpillFine(spill') /\ Held(spill') = Taken /\ Taken = ToSet(input)
         /\ Merging(to') /\ HeldBy(to') = ToSet(input)
<1>1. main = "ok"
  BY DEF RequestInv
<1>2. Quiet /\ Taken = ToSet(input) /\ SpillFine(spill) /\ Held(spill) = Taken
  BY <1>1, AllTaken
<1>3. spill.dirty = (spill.buf # <<>>)
  BY <1>2 DEF ScanInv, SpillInv
<1>4. /\ SpillFine(Settled(spill)) /\ Held(Settled(spill)) = Held(spill)
      /\ Merging(OpenRuns(Settled(spill))) /\ HeldBy(OpenRuns(Settled(spill))) = Held(spill)
  BY <1>2, <1>3, SpillSettled
<1> QED BY <1>1, <1>2, <1>4 DEF OpenSpill

LEMMA ScanKept ==
  ASSUME ScanInv, UNCHANGED <<kind, persist, input, reader, jobs, worker, results, main, batch, stored, count, firstErr>>,
         tempDir' = tempDir \/ tempDir' = FALSE, faults' = faults \/ faults' = faults \cup {"use"},
         \/ spill' = spill /\ (stage' \in {"scan", "open"} => stage \in {"scan", "open"})
         \/ SpillFine(spill') /\ Held(spill') = Taken /\ stage' \notin {"scan", "open"}
  PROVE  ScanInv'
<1>1. GoroutineInv' /\ (Bad(jobs') = Bad(jobs)) /\ (Bad(results') = Bad(results)) /\ BadWorker' = BadWorker
  BY DEF ScanInv, GoroutineInv, BadWorker, Bad
<1>2. Quiet' = Quiet
  BY DEF Quiet
<1>3. FaultInv'
  BY <1>1 DEF ScanInv, FaultInv
<1>4. MainInv'
  <2>1. main' = "ok" => WorkersDone'
    BY DEF ScanInv, MainInv, WorkersDone
  <2>2. tempDir' \in BOOLEAN /\ (~tempDir => ~tempDir')
    <3>1. tempDir \in BOOLEAN
      BY DEF ScanInv, MainInv
    <3>2. CASE tempDir' = tempDir
      BY <3>1, <3>2
    <3>3. CASE tempDir' = FALSE
      BY <3>3
    <3> QED BY <3>2, <3>3
  <2>3. main' = "ok" => Quiet' /\ ~firstErr' /\ ~reader'.err /\ reader'.pc = "done" /\ jobs' = <<>> /\ results' = <<>> /\ batch' = <<>>
    BY <1>2 DEF ScanInv, MainInv
  <2>4. main' = "error" => "tempdir" \in faults' \/ firstErr' \/ reader'.err
    BY DEF ScanInv, MainInv
  <2>5. main' \in {"spill", "drain", "ok", "error"} /\ count' \in Nat /\ (main' \in {"spill", "error"} => ~tempDir')
    BY <2>2 DEF ScanInv, MainInv
  <2> QED BY <2>1, <2>2, <2>3, <2>4, <2>5 DEF MainInv
<1>5. Taken' = Taken /\ (Quiet => SpillInv')
  <2>1. CASE spill' = spill /\ (stage' \in {"scan", "open"} => stage \in {"scan", "open"})
    BY <1>2, <2>1 DEF ScanInv, SpillInv, Taken, SpilledRuns
  <2>2. CASE SpillFine(spill') /\ Held(spill') = Taken /\ stage' \notin {"scan", "open"}
    BY <1>2, <2>2 DEF ScanInv, SpillInv, SpillFine, Held, Taken, SpilledRuns
  <2> QED BY <2>1, <2>2
<1>6. PlaceInv'
  <2>1. Read' = Read /\ Queued' = Queued /\ Busy' = Busy /\ Working' = Working /\ Ready' = Ready
        /\ Distinct(jobs)' = Distinct(jobs) /\ Distinct(results)' = Distinct(results)
    BY DEF Read, Queued, Busy, Working, Ready, Distinct
  <2>2. ASSUME Quiet
        PROVE  /\ \A w \in Busy' : worker'[w].result \in Good
               /\ \A v, w \in Busy' : worker'[v].result = worker'[w].result => v = w
    BY <2>1, <2>2 DEF ScanInv, PlaceInv
  <2> QED BY <1>2, <1>5, <2>1, <2>2 DEF ScanInv, PlaceInv
<1>7. BatchInv'
  BY <1>2, <1>5 DEF ScanInv, BatchInv, ToSet
<1>8. SpillInv'
  BY <1>2, <1>5 DEF SpillInv
<1> QED BY <1>1, <1>3, <1>4, <1>6, <1>7, <1>8 DEF ScanInv

LEMMA UseKeepsScan == ASSUME ScanInv, RequestInv, UseStep PROVE ScanInv'
<1>1. CASE ScanDone
  BY <1>1, ScanKept DEF ScanDone, scanVars
<1>2. CASE OpenForWrite
  <2>1. target = "live" /\ OpenSpill /\ stage = "open" /\ stage' = "write" /\ UNCHANGED <<keepScan, faults>>
    <3>1. caller = "create" /\ OpenSpill /\ stage = "open" /\ stage' = "write" /\ UNCHANGED <<keepScan, faults>>
      BY <1>2 DEF OpenForWrite
    <3> QED BY <3>1 DEF RequestInv
  <2> QED BY <2>1, Opened, ScanKept DEF keepScan
<1>3. CASE OpenForDiff
  <2>1. stage = "open" /\ stage' = "join" /\ UNCHANGED <<keepScan, faults>> /\ (target = "live" => OpenSpill)
        /\ (target # "live" => spill' = spill)
    BY <1>3 DEF OpenForDiff
  <2>2. CASE target = "live"
    BY <2>1, <2>2, Opened, ScanKept DEF keepScan
  <2>3. CASE target # "live"
    BY <2>1, <2>3, ScanKept DEF keepScan
  <2> QED BY <2>2, <2>3
<1>4. CASE WriteRef \/ OpenPanics \/ JoinBoth \/ JoinFrom \/ JoinTo
  <2>1. UNCHANGED scanVars /\ stage' \notin {"scan", "open"}
    BY <1>4 DEF WriteRef, OpenPanics, JoinBoth, JoinFrom, JoinTo, Advance
  <2> QED BY <2>1, ScanKept DEF scanVars
<1>5. CASE UseFails
  <2>1. faults' = faults \cup {"use"}
    BY <1>5, FaultKept DEF UseFails
  <2> QED BY <1>5, <2>1, ScanKept DEF UseFails, CloseAll
<1>6. CASE UseEnds
  BY <1>6, ScanKept DEF UseEnds, CloseAll
<1> QED BY <1>1, <1>2, <1>3, <1>4, <1>5, <1>6 DEF UseStep

-----------------------------------------------------------------------------
\* The merge join.

LEMMA OrderedAppend ==
  ASSUME NEW S, NEW s \in Seq(S), NEW e \in S, InIdOrder(s), \A r \in ToSet(s) : r.id < e.id
  PROVE  Append(s, e) \in Seq(S) /\ InIdOrder(Append(s, e)) /\ ToSet(Append(s, e)) = ToSet(s) \cup {e}
<1> DEFINE t == Append(s, e)
<1>1. /\ t \in Seq(S) /\ Len(t) = Len(s) + 1 /\ ToSet(t) = ToSet(s) \cup {e}
      /\ \A i \in 1..Len(s) : t[i] = s[i]
      /\ t[Len(s) + 1] = e
  BY Appended
<1>2. DOMAIN s = 1..Len(s) /\ Len(s) \in Nat /\ DOMAIN t = 1..Len(t)
  BY <1>1, ListOf
<1> HIDE DEF t
<1>3. \A i \in 1..Len(s) : s[i].id < e.id
  BY <1>2 DEF ToSet
<1>4. ASSUME NEW i \in DOMAIN t, NEW j \in DOMAIN t, i < j PROVE t[i].id < t[j].id
  <2>1. i \in 1..Len(s) /\ (j \in 1..Len(s) \/ j = Len(s) + 1)
    BY <1>1, <1>2, <1>4
  <2>2. CASE j \in 1..Len(s)
    BY <1>1, <1>2, <1>4, <2>1, <2>2 DEF InIdOrder
  <2>3. CASE j = Len(s) + 1
    BY <1>1, <1>3, <2>1, <2>3
  <2> QED BY <2>1, <2>2, <2>3
<1>5. InIdOrder(t)
  BY <1>4 DEF InIdOrder
<1> QED BY <1>1, <1>5 DEF t

LEMMA HeldKnown == ASSUME NEW runs, Merging(runs) PROVE HeldBy(runs) \subseteq Known
<1>1. \A i \in DOMAIN runs : ToSet(runs[i]) \subseteq Known
  BY RunLists, ListOf
<1> QED BY <1>1 DEF HeldBy

\* One side of the join, once it has passed the identifier x.
LEMMA SidePassed ==
  ASSUME NEW runs, Merging(runs), NEW x \in Int, \A r \in HeldBy(runs) : x <= r.id,
         NEW pops \in BOOLEAN, pops <=> \E r \in HeldBy(runs) : r.id = x,
         NEW next, next = IF pops THEN PopTop(runs) ELSE runs
  PROVE  Merging(next) /\ HeldBy(next) = {r \in HeldBy(runs) : r.id # x}
<1>1. CASE pops
  <2>1. PICK r \in HeldBy(runs) : r.id = x
    BY <1>1
  <2>2. runs # <<>>
    BY <2>1, EmptyLists
  <2>3. /\ TopRef(runs) \in HeldBy(runs) /\ TopRef(runs) \in Known /\ TopRef(runs).id <= r.id
    BY <2>1, <2>2, TopOfRuns
  <2>4. TopRef(runs).id = x
    BY <2>1, <2>3, KnownLists
  <2>5. /\ Merging(next) /\ HeldBy(next) = HeldBy(runs) \ {TopRef(runs)}
        /\ \A q \in HeldBy(next) : TopRef(runs).id < q.id
    BY <1>1, <2>2, PoppedRuns
  <2> QED BY <2>4, <2>5
<1>2. CASE ~pops
  BY <1>2
<1> QED BY <1>1, <1>2

\* The changes of one identifier.
ChangesOf(a, b, x) == {c \in ChangesBetween(a, b) : c.id = x}

LEMMA ChangesByKind ==
  ASSUME NEW a, NEW b, NEW x
  PROVE  ChangesOf(a, b, x) =
            (IF x \in IdsOf(a) \ IdsOf(b) THEN {Change("removed", x)} ELSE {})
       \cup (IF x \in IdsOf(b) \ IdsOf(a) THEN {Change("added", x)} ELSE {})
       \cup (IF \E r \in ToSet(a) : r.id = x /\ \E y \in ToSet(b) : y.id = x /\ y.hash # r.hash
             THEN {Change("modified", x)} ELSE {})
<1> DEFINE removed == {Change("removed", i) : i \in IdsOf(a) \ IdsOf(b)}
           added == {Change("added", i) : i \in IdsOf(b) \ IdsOf(a)}
           differ == {r \in ToSet(a) : \E y \in ToSet(b) : y.id = r.id /\ y.hash # r.hash}
           modified == {Change("modified", r.id) : r \in differ}
<1>1. ChangesOf(a, b, x) = {c \in removed \cup added \cup modified : c.id = x}
  BY DEF ChangesBetween, ChangesOf
<1>2. \A type, i : Change(type, i).id = i
  BY DEF Change
<1>3. /\ {c \in removed : c.id = x} = IF x \in IdsOf(a) \ IdsOf(b) THEN {Change("removed", x)} ELSE {}
      /\ {c \in added : c.id = x} = IF x \in IdsOf(b) \ IdsOf(a) THEN {Change("added", x)} ELSE {}
  BY <1>2
<1>4. {c \in modified : c.id = x} = IF \E r \in differ : r.id = x THEN {Change("modified", x)} ELSE {}
  BY <1>2
<1>5. ChangesOf(a, b, x) = {c \in removed : c.id = x} \cup {c \in added : c.id = x} \cup {c \in modified : c.id = x}
  BY <1>1
<1>6. (\E r \in differ : r.id = x) <=> \E r \in ToSet(a) : r.id = x /\ \E y \in ToSet(b) : y.id = x /\ y.hash # r.hash
  OBVIOUS
<1> HIDE DEF removed, added, modified, differ
<1> QED BY <1>3, <1>4, <1>5, <1>6

LEMMA ChangesAt ==
  ASSUME NEW a, NEW b, NEW x
  PROVE  /\ x \in IdsOf(a) \ IdsOf(b) => ChangesOf(a, b, x) = {Change("removed", x)}
         /\ x \in IdsOf(b) \ IdsOf(a) => ChangesOf(a, b, x) = {Change("added", x)}
<1>1. (\E r \in ToSet(a) : r.id = x /\ \E y \in ToSet(b) : y.id = x /\ y.hash # r.hash) => x \in IdsOf(a) /\ x \in IdsOf(b)
  BY DEF IdsOf, IdsIn
<1> QED BY <1>1, ChangesByKind

LEMMA ChangesAtBoth ==
  ASSUME NEW a, NEW b, NEW f \in ToSet(a), NEW t \in ToSet(b), t.id = f.id,
         \A r \in ToSet(a) : r.id = f.id => r = f, \A r \in ToSet(b) : r.id = f.id => r = t
  PROVE  ChangesOf(a, b, f.id) = IF f.hash # t.hash THEN {Change("modified", f.id)} ELSE {}
<1>1. f.id \in IdsOf(a) /\ f.id \in IdsOf(b)
  BY DEF IdsOf, IdsIn
<1>2. (\E r \in ToSet(a) : r.id = f.id /\ \E y \in ToSet(b) : y.id = f.id /\ y.hash # r.hash) <=> f.hash # t.hash
  OBVIOUS
<1> DEFINE x == f.id
<1>3. /\ x \in IdsOf(a) /\ x \in IdsOf(b)
      /\ (\E r \in ToSet(a) : r.id = x /\ \E y \in ToSet(b) : y.id = x /\ y.hash # r.hash) <=> f.hash # t.hash
  BY <1>1, <1>2
<1> HIDE DEF x
<1>4. ChangesOf(a, b, x) = IF f.hash # t.hash THEN {Change("modified", x)} ELSE {}
  BY <1>3, ChangesByKind
<1> QED BY <1>4 DEF x

\* The lists a diff compares.
LEMMA Compared ==
  ASSUME GoroutineInv, RequestInv, stage \in {"join", "done"}, caller # "create"
  PROVE  /\ old \in Seq(Known) /\ NewRefs \in Seq(Known)
         /\ \A r, q \in ToSet(old) : r.id = q.id => r = q
         /\ \A r, q \in ToSet(NewRefs) : r.id = q.id => r = q
<1>1. old \in Inputs \cup StoredRefs /\ NewRefs \in Inputs \cup StoredRefs
  BY DEF RequestInv, GoroutineInv, NewRefs
<1> QED BY <1>1, KnownLists DEF ToSet

\* A page grows with the changes.
LEMMA NumberedAppend ==
  ASSUME NEW S, NEW list \in Seq(S), NEW c \in S, NEW type
  PROVE  LET more == Append(list, c)
         IN  /\ \A n \in 0..Len(list) : Numbered(list, type, n) \in Nat /\ Numbered(more, type, n) = Numbered(list, type, n)
             /\ Numbered(more, type, Len(more)) = Numbered(list, type, Len(list)) + (IF c.type = type THEN 1 ELSE 0)
<1> DEFINE more == Append(list, c)
           N == Len(list)
           Of(s, n) == {i \in 1..n : s[i].type = type}
<1>1. /\ Len(more) = N + 1 /\ N \in Nat /\ more[N + 1] = c
      /\ \A i \in 1..N : more[i] = list[i]
  BY Appended, ListOf
<1> HIDE DEF more, N
<1>2. ASSUME NEW n \in 0..N PROVE Of(more, n) = Of(list, n) /\ IsFiniteSet(Of(list, n)) /\ Cardinality(Of(list, n)) \in Nat
  <2>1. \A i \in 1..n : more[i] = list[i]
    BY <1>1
  <2>2. IsFiniteSet(1..n)
    BY <1>1, FS_Interval
  <2> QED BY <2>1, <2>2, FS_Subset, FS_CardinalityType
<1>3. Of(more, N + 1) = Of(list, N) \cup (IF c.type = type THEN {N + 1} ELSE {})
  <2>1. 1..N + 1 = (1..N) \cup {N + 1}
    BY <1>1
  <2> QED BY <1>1, <2>1
<1>4. N + 1 \notin Of(list, N) /\ IsFiniteSet(Of(list, N)) /\ Cardinality(Of(list, N)) \in Nat
  <2>1. N \in 0..N /\ N + 1 \notin 1..N
    BY <1>1
  <2>2. N + 1 \notin Of(list, N)
    BY <2>1
  <2> HIDE DEF Of
  <2> QED BY <1>2, <2>1, <2>2
<1>5. Cardinality(Of(more, N + 1)) = Cardinality(Of(list, N)) + (IF c.type = type THEN 1 ELSE 0)
  <2>1. CASE c.type = type
    BY <1>3, <1>4, <2>1, FS_AddElement
  <2>2. CASE c.type # type
    <3>1. Of(more, N + 1) = Of(list, N)
      BY <1>3, <2>2
    <3> HIDE DEF Of
    <3> QED BY <1>4, <2>2, <3>1
  <2> QED BY <2>1, <2>2
<1> QED BY <1>1, <1>2, <1>5 DEF Numbered, more, N

LEMMA NumberedNone == ASSUME NEW list, NEW type PROVE Numbered(list, type, 0) = 0
<1>1. {i \in 1..0 : list[i].type = type} = {}
  OBVIOUS
<1> QED BY <1>1, FS_EmptySet DEF Numbered

LEMMA PageGrows ==
  ASSUME NEW S, NEW list \in Seq(S), NEW c \in S, c.id \in Int, NEW w, w \in Wants, NEW p,
         IsPage(p, list, w.type, ClampedOffset(w.offset), ClampedLimit(w.limit, PageMax))
  PROVE  IsPage(AddToPage(p, c, w, PageMax), Append(list, c), w.type, ClampedOffset(w.offset), ClampedLimit(w.limit, PageMax))
<1> DEFINE start == ClampedOffset(w.offset)
           limit == ClampedLimit(w.limit, PageMax)
           more == Append(list, c)
           total == Numbered(list, w.type, Len(list))
           q == AddToPage(p, c, w, PageMax)
           more_total == Numbered(more, w.type, Len(more))
<1>1. start \in Nat /\ limit \in Nat
  BY DiffAssumption DEF ClampedOffset, ClampedLimit
<1>2. /\ Len(more) = Len(list) + 1 /\ Len(list) \in Nat /\ DOMAIN list = 1..Len(list) /\ DOMAIN more = 1..Len(list) + 1
      /\ more[Len(list) + 1] = c
      /\ \A i \in DOMAIN list : more[i] = list[i]
  BY Appended, ListOf
<1>3. /\ \A n \in 0..Len(list) : Numbered(list, w.type, n) \in Nat /\ Numbered(more, w.type, n) = Numbered(list, w.type, n)
      /\ more_total = total + (IF c.type = w.type THEN 1 ELSE 0)
  BY NumberedAppend
<1>4. q = IF c.type # w.type THEN p
          ELSE [ids |-> IF p.total >= start /\ Len(p.ids) < limit THEN Append(p.ids, c.id) ELSE p.ids, total |-> p.total + 1]
  BY DEF AddToPage
<1>5. /\ p \in [ids : Seq(Int), total : Nat] /\ p.total = total
      /\ Len(p.ids) <= limit
      /\ \A i \in DOMAIN p.ids : \E n \in DOMAIN list :
             list[n].type = w.type /\ Numbered(list, w.type, n) = start + i /\ p.ids[i] = list[n].id
      /\ Len(p.ids) < limit => (start >= total /\ p.ids = <<>>) \/ start + Len(p.ids) = total
  BY DEF IsPage
<1> HIDE DEF start, limit, more, total, q, more_total
<1>6. total \in Nat /\ p.ids \in Seq(Int) /\ Len(p.ids) \in Nat /\ DOMAIN p.ids = 1..Len(p.ids)
  BY <1>5, ListOf
<1>7. \A i \in DOMAIN p.ids : \E n \in DOMAIN more :
          more[n].type = w.type /\ Numbered(more, w.type, n) = start + i /\ p.ids[i] = more[n].id
  <2>1. \A n \in DOMAIN list : n \in DOMAIN more /\ more[n] = list[n] /\ Numbered(more, w.type, n) = Numbered(list, w.type, n)
    BY <1>2, <1>3
  <2> SUFFICES ASSUME NEW i \in DOMAIN p.ids
               PROVE  \E n \in DOMAIN more : more[n].type = w.type /\ Numbered(more, w.type, n) = start + i /\ p.ids[i] = more[n].id
    OBVIOUS
  <2>2. PICK n \in DOMAIN list : list[n].type = w.type /\ Numbered(list, w.type, n) = start + i /\ p.ids[i] = list[n].id
    BY <1>5
  <2> QED BY <2>1, <2>2
<1>8. CASE c.type # w.type
  <2>1. q = p /\ more_total = total
    BY <1>3, <1>4, <1>6, <1>8
  <2> QED BY <1>5, <1>7, <2>1 DEF IsPage, start, limit, more, q, more_total
<1>9. CASE c.type = w.type /\ total >= start /\ Len(p.ids) < limit
  <2>1. q.ids = Append(p.ids, c.id) /\ q.total = total + 1 /\ q \in [ids : Seq(Int), total : Nat] /\ more_total = total + 1
    BY <1>3, <1>4, <1>5, <1>6, <1>9
  <2>2. start + Len(p.ids) = total
    BY <1>1, <1>5, <1>6, <1>9
  <2>3. /\ Len(q.ids) = Len(p.ids) + 1 /\ DOMAIN q.ids = 1..Len(p.ids) + 1 /\ q.ids[Len(p.ids) + 1] = c.id
        /\ \A i \in DOMAIN p.ids : q.ids[i] = p.ids[i]
    BY <1>6, <2>1
  <2>4. more[Len(list) + 1].type = w.type /\ Numbered(more, w.type, Len(list) + 1) = start + (Len(p.ids) + 1)
        /\ Len(list) + 1 \in DOMAIN more
    <3>1. total + 1 = start + (Len(p.ids) + 1)
      BY <1>1, <1>6, <2>2
    <3>2. Numbered(more, w.type, Len(list) + 1) = total + 1
      BY <1>2, <2>1 DEF more_total
    <3> QED BY <1>2, <1>9, <3>1, <3>2
  <2>5. ASSUME NEW i \in DOMAIN q.ids
        PROVE  \E n \in DOMAIN more : more[n].type = w.type /\ Numbered(more, w.type, n) = start + i /\ q.ids[i] = more[n].id
    <3>1. CASE i \in DOMAIN p.ids
      BY <1>7, <2>3, <3>1
    <3>2. CASE i = Len(p.ids) + 1
      BY <1>2, <2>3, <2>4, <3>2
    <3> QED BY <1>6, <2>3, <3>1, <3>2
  <2>6. Len(q.ids) <= limit /\ start + Len(q.ids) = more_total
    BY <1>1, <1>6, <1>9, <2>1, <2>2, <2>3
  <2> QED BY <2>1, <2>5, <2>6 DEF IsPage, start, limit, more, q, more_total
<1>10. CASE c.type = w.type /\ ~(total >= start /\ Len(p.ids) < limit)
  <2>1. q.ids = p.ids /\ q.total = total + 1 /\ q \in [ids : Seq(Int), total : Nat] /\ more_total = total + 1
    BY <1>3, <1>4, <1>5, <1>6, <1>10
  <2>2. Len(q.ids) < limit => start >= more_total /\ q.ids = <<>>
    <3>1. CASE ~(Len(p.ids) < limit)
      BY <2>1, <3>1
    <3>2. CASE ~(total >= start)
      <4>1. start >= total + 1 /\ start + Len(p.ids) # total
        BY <1>1, <1>6, <3>2
      <4> QED BY <1>5, <2>1, <4>1
    <3> QED BY <1>10, <3>1, <3>2
  <2>3. /\ q.total = more_total /\ Len(q.ids) <= limit
        /\ \A i \in DOMAIN q.ids : \E n \in DOMAIN more :
               more[n].type = w.type /\ Numbered(more, w.type, n) = start + i /\ q.ids[i] = more[n].id
    BY <1>5, <1>7, <2>1
  <2> QED BY <2>1, <2>2, <2>3 DEF IsPage, start, limit, more, q, more_total
<1> QED BY <1>8, <1>9, <1>10

LEMMA FirstPage ==
  ASSUME NEW w \in Wants
  PROVE  IsPage(EmptyPage, <<>>, w.type, ClampedOffset(w.offset), ClampedLimit(w.limit, PageMax))
<1>1. ClampedOffset(w.offset) \in Nat /\ ClampedLimit(w.limit, PageMax) \in Nat
  BY DiffAssumption DEF ClampedOffset, ClampedLimit
<1>2. EmptyPage \in [ids : Seq(Int), total : Nat] /\ EmptyPage.ids = <<>> /\ EmptyPage.total = 0
      /\ Len(<<>>) = 0 /\ DOMAIN <<>> = {}
  BY DEF EmptyPage
<1>3. Numbered(<<>>, w.type, Len(<<>>)) = 0
  BY <1>2, NumberedNone
<1> QED BY <1>1, <1>2, <1>3 DEF IsPage

\* One turn of the join: the identifier x is passed on each side that has it.
LEMMA Joined ==
  ASSUME ScanInv, DiffInv, stage = "join", NEW x \in Left, \A i \in Left : x <= i,
         NEW step, Advance(step), step.from \in BOOLEAN, step.to \in BOOLEAN,
         step.from <=> \E r \in HeldBy(from) : r.id = x,
         step.to <=> \E r \in HeldBy(to) : r.id = x,
         step.change # NoChange => step.change \in ChangeRecords /\ step.change.id = x,
         ChangesOf(old, NewRefs, x) = IF step.change = NoChange THEN {} ELSE {step.change}
  PROVE  DiffInv'
<1> DEFINE CB == ChangesBetween(old, NewRefs)
           A == ToSet(old)
           B == ToSet(NewRefs)
<1>1. /\ Merging(from) /\ Merging(to)
      /\ HeldBy(from) = {r \in A : r.id \in Left}
      /\ HeldBy(to) = {r \in B : r.id \in Left}
      /\ ToSet(changes) = {c \in CB : c.id \notin Left}
      /\ \A c \in ToSet(changes), i \in Left : c.id < i
  BY DEF DiffInv, JoinInv
<1>2. /\ from' = (IF step.from THEN PopTop(from) ELSE from) /\ to' = (IF step.to THEN PopTop(to) ELSE to)
      /\ UNCHANGED scanVars /\ UNCHANGED request /\ stage' = stage /\ written' = written
      /\ step.change = NoChange => changes' = changes /\ page' = page
      /\ step.change # NoChange => /\ changes' = Append(changes, step.change)
                                   /\ page' = IF caller = "page" THEN AddToPage(page, step.change, want, PageMax) ELSE page
  BY DEF Advance
<1>3. Left \subseteq Int
  <2>1. HeldBy(from) \subseteq Known /\ HeldBy(to) \subseteq Known
    BY <1>1, HeldKnown
  <2> QED BY <2>1, KnownLists DEF Left, IdsIn
<1>4. \A r \in HeldBy(from) \cup HeldBy(to) : x <= r.id
  BY DEF Left, IdsIn
<1>5. /\ Merging(from') /\ HeldBy(from') = {r \in HeldBy(from) : r.id # x}
      /\ Merging(to') /\ HeldBy(to') = {r \in HeldBy(to) : r.id # x}
  BY <1>1, <1>2, <1>3, <1>4, SidePassed
<1>6. Left' = IdsIn(HeldBy(from')) \cup IdsIn(HeldBy(to'))
  BY DEF Left, IdsIn, HeldBy, ToSet
<1>7. /\ Left' = Left \ {x}
      /\ HeldBy(from') = {r \in A : r.id \in Left'} /\ HeldBy(to') = {r \in B : r.id \in Left'}
  <2> DEFINE L2 == IdsIn(HeldBy(from')) \cup IdsIn(HeldBy(to'))
  <2>1. Left = IdsIn(HeldBy(from)) \cup IdsIn(HeldBy(to))
    BY DEF Left
  <2>2. L2 = Left \ {x} /\ HeldBy(from') = {r \in A : r.id \in L2} /\ HeldBy(to') = {r \in B : r.id \in L2}
    <3> DEFINE F == HeldBy(from)
               T == HeldBy(to)
               F2 == HeldBy(from')
               T2 == HeldBy(to')
    <3>1. /\ F = {r \in A : r.id \in Left} /\ T = {r \in B : r.id \in Left} /\ Left = IdsIn(F) \cup IdsIn(T)
          /\ F2 = {r \in F : r.id # x} /\ T2 = {r \in T : r.id # x}
      BY <1>1, <1>5, <2>1
    <3> HIDE DEF A, B, F, T, F2, T2
    <3>2. IdsIn(F2) \cup IdsIn(T2) = Left \ {x}
      BY <3>1 DEF IdsIn
    <3>3. F2 = {r \in A : r.id \in Left \ {x}} /\ T2 = {r \in B : r.id \in Left \ {x}}
      BY <3>1
    <3> QED BY <3>2, <3>3 DEF F2, T2
  <2> QED BY <1>6, <2>2
<1>8. changes \in Seq(ChangeRecords) /\ InIdOrder(changes)
  BY DEF DiffInv, OrderInv
<1>9. /\ changes' \in Seq(ChangeRecords) /\ InIdOrder(changes')
      /\ ToSet(changes') = ToSet(changes) \cup {c \in CB : c.id = x}
  <2>1. CASE step.change = NoChange
    BY <1>2, <1>8, <2>1 DEF ChangesOf
  <2>2. CASE step.change # NoChange
    <3>1. step.change \in ChangeRecords /\ step.change.id = x
      BY <2>2
    <3>2. \A r \in ToSet(changes) : r.id < step.change.id
      BY <1>1, <3>1
    <3>3. /\ Append(changes, step.change) \in Seq(ChangeRecords) /\ InIdOrder(Append(changes, step.change))
          /\ ToSet(Append(changes, step.change)) = ToSet(changes) \cup {step.change}
      BY <1>8, <3>1, <3>2, OrderedAppend
    <3>4. {c \in CB : c.id = x} = {step.change}
      BY <2>2 DEF ChangesOf
    <3> QED BY <1>2, <2>2, <3>3, <3>4
  <2> QED BY <2>1, <2>2
<1>10. NewRefs' = NewRefs /\ old' = old
  BY <1>2 DEF NewRefs, scanVars, request
<1> HIDE DEF CB
<1>11. ToSet(changes') = {c \in CB : c.id \notin Left'}
  BY <1>1, <1>7, <1>9
<1>12. \A c \in ToSet(changes'), i \in Left' : c.id < i
  <2> SUFFICES ASSUME NEW c \in ToSet(changes'), NEW i \in Left' PROVE c.id < i
    OBVIOUS
  <2>1. i \in Left /\ i # x /\ x <= i /\ i \in Int /\ x \in Int
    BY <1>3, <1>7
  <2>2. c \in ToSet(changes) \/ c.id = x
    BY <1>9
  <2> QED BY <1>1, <2>1, <2>2
<1>13. JoinInv'
  <2>1. /\ Merging(from)' = Merging(from') /\ Merging(to)' = Merging(to')
        /\ HeldBy(from)' = HeldBy(from') /\ HeldBy(to)' = HeldBy(to')
        /\ ToSet(old)' = A /\ ToSet(NewRefs)' = B /\ ToSet(changes)' = ToSet(changes')
        /\ ChangesBetween(old, NewRefs)' = CB
    BY <1>10 DEF Merging, HeldBy, ToSet, CB, NoneTwice, InIdOrder, ChangesBetween, IdsOf, IdsIn
  <2> QED BY <1>5, <1>7, <1>11, <1>12, <2>1 DEF JoinInv
<1>14. OrderInv'
  BY <1>2, <1>9 DEF DiffInv, OrderInv, InIdOrder
<1>15. PageInv'
  <2> SUFFICES ASSUME caller = "page" PROVE PageInv'
    BY <1>2 DEF PageInv, request
  <2>1. IsPage(page, changes, want.type, ClampedOffset(want.offset), ClampedLimit(want.limit, PageMax)) /\ want \in Wants
    BY DEF DiffInv, PageInv, RequestInv
  <2>2. IsPage(page', changes', want.type, ClampedOffset(want.offset), ClampedLimit(want.limit, PageMax))
    <3>1. CASE step.change = NoChange
      BY <1>2, <2>1, <3>1
    <3>2. CASE step.change # NoChange
      <4>1. step.change \in ChangeRecords /\ step.change.id \in Int
        BY <1>3, <3>2
      <4>2. IsPage(AddToPage(page, step.change, want, PageMax), Append(changes, step.change), want.type,
                   ClampedOffset(want.offset), ClampedLimit(want.limit, PageMax))
        BY <1>8, <2>1, <4>1, PageGrows
      <4> QED BY <1>2, <3>2, <4>2
    <3> QED BY <3>1, <3>2
  <2>3. want' = want
    BY <1>2 DEF request
  <2> QED BY <2>2, <2>3 DEF PageInv
<1>16. RequestInv'
  BY <1>2 DEF DiffInv, RequestInv, request, scanVars
<1>17. WriteInv' /\ DoneInv'
  BY <1>2 DEF WriteInv, DoneInv
<1> QED BY <1>13, <1>14, <1>15, <1>16, <1>17 DEF DiffInv

\* The three loops of mergeJoin each take the smallest identifier that is left.
LEMMA JoinSteps == ASSUME ScanInv, DiffInv, JoinBoth \/ JoinFrom \/ JoinTo PROVE DiffInv'
<1> DEFINE f == TopRef(from)
           t == TopRef(to)
           A == ToSet(old)
           B == ToSet(NewRefs)
<1>1. stage = "join"
  BY DEF JoinBoth, JoinFrom, JoinTo
<1>2. /\ Merging(from) /\ Merging(to)
      /\ HeldBy(from) = {r \in A : r.id \in Left}
      /\ HeldBy(to) = {r \in B : r.id \in Left}
  BY <1>1 DEF DiffInv, JoinInv
<1>3. /\ \A r, q \in A : r.id = q.id => r = q
      /\ \A r, q \in B : r.id = q.id => r = q
  BY <1>1, Compared DEF DiffInv, ScanInv, RequestInv
<1>4. from # <<>> => f \in HeldBy(from) /\ f.id \in Int /\ \A r \in HeldBy(from) : f.id <= r.id
  BY <1>2, TopOfRuns, KnownLists
<1>5. to # <<>> => t \in HeldBy(to) /\ t.id \in Int /\ \A r \in HeldBy(to) : t.id <= r.id
  BY <1>2, TopOfRuns, KnownLists
<1>6. /\ from = <<>> => HeldBy(from) = {}
      /\ to = <<>> => HeldBy(to) = {}
  BY EmptyLists
<1>7. (\A r \in HeldBy(from) : r.id \in Int) /\ (\A r \in HeldBy(to) : r.id \in Int)
  BY <1>2, HeldKnown, KnownLists
<1>8. /\ \A i : i \in Left <=> (\E r \in HeldBy(from) : r.id = i) \/ (\E r \in HeldBy(to) : r.id = i)
      /\ \A i \in Left : i \in IdsOf(old) <=> \E r \in HeldBy(from) : r.id = i
      /\ \A i \in Left : i \in IdsOf(NewRefs) <=> \E r \in HeldBy(to) : r.id = i
  <2>1. \A i : i \in Left <=> (\E r \in HeldBy(from) : r.id = i) \/ (\E r \in HeldBy(to) : r.id = i)
    BY DEF Left, IdsIn
  <2>2. \A i : (i \in IdsOf(old) <=> \E r \in A : r.id = i) /\ (i \in IdsOf(NewRefs) <=> \E r \in B : r.id = i)
    BY DEF IdsOf, IdsIn
  <2> HIDE DEF A, B
  <2> QED BY <1>2, <2>1, <2>2
<1>9. \A type, x : Change(type, x) # NoChange /\ Change(type, x).id = x
                   /\ (type \in {"added", "removed", "modified"} /\ x \in Int => Change(type, x) \in ChangeRecords)
  BY DEF Change, NoChange, ChangeRecords
<1>10. ASSUME from # <<>>, NEW step, step = RestOfFrom(f), Advance(step), \A r \in HeldBy(to) : f.id < r.id
       PROVE  DiffInv'
  <2>1. step.change = Change("removed", f.id) /\ step.from = TRUE /\ step.to = FALSE
    BY <1>10 DEF RestOfFrom
  <2>2. f.id \in Left /\ \A i \in Left : f.id <= i
    BY <1>4, <1>7, <1>8, <1>10
  <2>3. ~ \E r \in HeldBy(to) : r.id = f.id
    BY <1>4, <1>7, <1>10
  <2>4. ChangesOf(old, NewRefs, f.id) = {Change("removed", f.id)}
    <3>1. f.id \in IdsOf(old) \ IdsOf(NewRefs)
      BY <1>4, <1>8, <1>10, <2>2, <2>3
    <3> HIDE DEF f
    <3> QED BY <3>1, ChangesAt
  <2>5. \E r \in HeldBy(from) : r.id = f.id
    BY <1>4, <1>10
  <2>6. f.id \in Int
    BY <1>4, <1>10
  <2>7. step.change # NoChange /\ step.change \in ChangeRecords /\ step.change.id = f.id
    BY <1>9, <2>1, <2>6
  <2>8. ChangesOf(old, NewRefs, f.id) = IF step.change = NoChange THEN {} ELSE {step.change}
    BY <2>1, <2>4, <2>7
  <2> HIDE DEF f
  <2> QED BY <1>1, <1>10, <2>1, <2>2, <2>3, <2>5, <2>7, <2>8, Joined
<1>11. ASSUME to # <<>>, NEW step, step = RestOfTo(t), Advance(step), \A r \in HeldBy(from) : t.id < r.id
       PROVE  DiffInv'
  <2>1. step.change = Change("added", t.id) /\ step.from = FALSE /\ step.to = TRUE
    BY <1>11 DEF RestOfTo
  <2>2. t.id \in Left /\ \A i \in Left : t.id <= i
    BY <1>5, <1>7, <1>8, <1>11
  <2>3. ~ \E r \in HeldBy(from) : r.id = t.id
    BY <1>5, <1>7, <1>11
  <2>4. ChangesOf(old, NewRefs, t.id) = {Change("added", t.id)}
    <3>1. t.id \in IdsOf(NewRefs) \ IdsOf(old)
      BY <1>5, <1>8, <1>11, <2>2, <2>3
    <3> HIDE DEF t
    <3> QED BY <3>1, ChangesAt
  <2>5. \E r \in HeldBy(to) : r.id = t.id
    BY <1>5, <1>11
  <2>6. t.id \in Int
    BY <1>5, <1>11
  <2>7. step.change # NoChange /\ step.change \in ChangeRecords /\ step.change.id = t.id
    BY <1>9, <2>1, <2>6
  <2>8. ChangesOf(old, NewRefs, t.id) = IF step.change = NoChange THEN {} ELSE {step.change}
    BY <2>1, <2>4, <2>7
  <2> HIDE DEF t
  <2> QED BY <1>1, <1>11, <2>1, <2>2, <2>3, <2>5, <2>7, <2>8, Joined
<1>12. CASE JoinFrom
  BY <1>6, <1>10, <1>12 DEF JoinFrom
<1>13. CASE JoinTo
  BY <1>6, <1>11, <1>13 DEF JoinTo
<1>14. CASE JoinBoth
  <2> DEFINE step == JoinHeads(f, t)
  <2>1. from # <<>> /\ to # <<>> /\ Advance(step)
    BY <1>14 DEF JoinBoth
  <2>2. CASE f.id < t.id
    <3>1. step = RestOfFrom(f)
      BY <2>2 DEF JoinHeads, RestOfFrom
    <3>2. \A r \in HeldBy(to) : f.id < r.id
      BY <1>4, <1>5, <1>7, <2>1, <2>2
    <3> QED BY <1>10, <2>1, <3>1, <3>2
  <2>3. CASE t.id < f.id
    <3>1. step = RestOfTo(t)
      BY <1>4, <1>5, <2>1, <2>3 DEF JoinHeads, RestOfTo
    <3>2. \A r \in HeldBy(from) : t.id < r.id
      BY <1>4, <1>5, <1>7, <2>1, <2>3
    <3> QED BY <1>11, <2>1, <3>1, <3>2
  <2>4. CASE f.id = t.id
    <3>1. /\ step.from = TRUE /\ step.to = TRUE
          /\ step.change = IF f.hash # t.hash THEN Change("modified", f.id) ELSE NoChange
      BY <1>4, <1>5, <2>1, <2>4 DEF JoinHeads
    <3>2. f.id \in Left /\ f.id \in Int /\ \A i \in Left : f.id <= i
      BY <1>4, <1>5, <1>8, <2>1, <2>4
    <3>3. f \in A /\ t \in B
      BY <1>2, <1>4, <1>5, <2>1
    <3>4. ChangesOf(old, NewRefs, f.id) = IF f.hash # t.hash THEN {Change("modified", f.id)} ELSE {}
      <4>1. /\ f \in ToSet(old) /\ t \in ToSet(NewRefs) /\ t.id = f.id
            /\ \A r \in ToSet(old) : r.id = f.id => r = f
            /\ \A r \in ToSet(NewRefs) : r.id = f.id => r = t
        BY <1>3, <2>4, <3>3
      <4> HIDE DEF f, t
      <4> QED BY <4>1, ChangesAtBoth
    <3>5. (\E r \in HeldBy(from) : r.id = f.id) /\ (\E r \in HeldBy(to) : r.id = f.id)
      BY <1>4, <1>5, <2>1, <2>4
    <3>6. step.change # NoChange => step.change \in ChangeRecords /\ step.change.id = f.id
      BY <1>9, <3>1, <3>2
    <3>7. ChangesOf(old, NewRefs, f.id) = IF step.change = NoChange THEN {} ELSE {step.change}
      BY <1>9, <3>1, <3>4
    <3> HIDE DEF step, f
    <3> QED BY <1>1, <2>1, <3>1, <3>2, <3>5, <3>6, <3>7, Joined
  <2> QED BY <1>4, <1>5, <2>1, <2>2, <2>3, <2>4
<1> QED BY <1>12, <1>13, <1>14

-----------------------------------------------------------------------------
\* The other steps of a request.

LEMMA Written == ASSUME ScanInv, DiffInv, WriteRef PROVE DiffInv'
<1> DEFINE top == TopRef(to)
<1>1. /\ stage = "write" /\ to # <<>> /\ written' = Append(written, top) /\ to' = PopTop(to)
      /\ UNCHANGED scanVars /\ UNCHANGED request /\ UNCHANGED <<stage, from, changes, page>>
  BY DEF WriteRef
<1>2. /\ Merging(to) /\ ToSet(written) \cup HeldBy(to) = ToSet(input)
      /\ \A r \in ToSet(written), q \in HeldBy(to) : r.id < q.id
  BY <1>1 DEF DiffInv, WriteInv
<1>3. written \in Seq(Known) /\ InIdOrder(written) /\ changes \in Seq(ChangeRecords) /\ InIdOrder(changes)
  BY DEF DiffInv, OrderInv
<1>4. top \in HeldBy(to) /\ top \in Known
  BY <1>1, <1>2, TopOfRuns
<1>5. /\ Merging(PopTop(to)) /\ HeldBy(PopTop(to)) = HeldBy(to) \ {top}
      /\ \A r \in HeldBy(PopTop(to)) : top.id < r.id
  BY <1>1, <1>2, PoppedRuns
<1> HIDE DEF top
<1>6. written' \in Seq(Known) /\ InIdOrder(written') /\ ToSet(written') = ToSet(written) \cup {top}
  BY <1>1, <1>2, <1>3, <1>4, OrderedAppend
<1>7. OrderInv'
  BY <1>1, <1>3, <1>6 DEF OrderInv, InIdOrder
<1>8. WriteInv'
  <2>1. ToSet(written') \cup HeldBy(to') = ToSet(input)
    BY <1>1, <1>2, <1>4, <1>5, <1>6
  <2>2. \A r \in ToSet(written'), q \in HeldBy(to') : r.id < q.id
    BY <1>1, <1>2, <1>5, <1>6
  <2>3. input' = input /\ Merging(to')
    BY <1>1, <1>5 DEF scanVars
  <2> QED BY <2>1, <2>2, <2>3 DEF WriteInv
<1>9. RequestInv'
  BY <1>1 DEF DiffInv, RequestInv, request, scanVars
<1> QED BY <1>1, <1>7, <1>8, <1>9 DEF DiffInv, JoinInv, PageInv, DoneInv

LEMMA ScanReturned == ASSUME ScanInv, DiffInv, ScanDone PROVE DiffInv'
<1>1. /\ stage = "scan" /\ main \in {"ok", "error"} /\ stage' = (IF main = "error" THEN "failed" ELSE "open")
      /\ UNCHANGED scanVars /\ UNCHANGED request /\ UNCHANGED <<from, to, changes, page, written>>
  BY DEF ScanDone
<1>2. (main = "error" => ~tempDir) /\ RequestInv
  BY DEF ScanInv, MainInv, DiffInv
<1>3. RequestInv'
  BY <1>1, <1>2 DEF RequestInv, request, scanVars
<1>4. OrderInv'
  BY <1>1 DEF DiffInv, OrderInv, InIdOrder
<1> QED BY <1>1, <1>3, <1>4 DEF DiffInv, JoinInv, WriteInv, PageInv, DoneInv

LEMMA WriteOpened == ASSUME ScanInv, DiffInv, OpenForWrite PROVE DiffInv'
<1>1. /\ stage = "open" /\ caller = "create" /\ OpenSpill /\ stage' = "write"
      /\ UNCHANGED keepScan /\ UNCHANGED faults /\ UNCHANGED request /\ UNCHANGED <<from, changes, page, written>>
  BY DEF OpenForWrite
<1>2. target = "live" /\ from = <<>> /\ written = <<>> /\ RequestInv
  BY <1>1 DEF DiffInv, RequestInv
<1>3. main = "ok" /\ Merging(to') /\ HeldBy(to') = ToSet(input)
  BY <1>1, <1>2, Opened
<1>4. OrderInv'
  BY <1>1 DEF DiffInv, OrderInv, InIdOrder
<1>5. WriteInv'
  <2>1. ToSet(written) = {} /\ input' = input /\ written' = written
    BY <1>1, <1>2, EmptyLists DEF keepScan
  <2> QED BY <1>3, <2>1 DEF WriteInv
<1>6. RequestInv'
  BY <1>1, <1>2, <1>3 DEF RequestInv, request, keepScan
<1> QED BY <1>1, <1>4, <1>5, <1>6 DEF DiffInv, JoinInv, PageInv, DoneInv

LEMMA Panicked == ASSUME ScanInv, DiffInv, OpenPanics PROVE DiffInv'
<1>1. /\ stage = "open" /\ caller = "diff" /\ target = "live" /\ caller' \in {"count", "page"} /\ stage' = "panicked"
      /\ UNCHANGED scanVars /\ UNCHANGED <<target, old, new, want, from, to, changes, page, written>>
  BY DEF OpenPanics
<1>2. RequestInv'
  BY <1>1 DEF DiffInv, RequestInv, scanVars
<1>3. OrderInv'
  BY <1>1 DEF DiffInv, OrderInv, InIdOrder
<1> QED BY <1>1, <1>2, <1>3 DEF DiffInv, JoinInv, WriteInv, PageInv, DoneInv

LEMMA DiffOpened == ASSUME ScanInv, DiffInv, OpenForDiff PROVE DiffInv'
<1>1. /\ stage = "open" /\ caller = "diff" /\ stage' = "join" /\ caller' \in {"cli", "tui", "count", "page"}
      /\ old' \in StoredRefs /\ from' = StoredRuns(old')
      /\ \/ target = "live" /\ OpenSpill /\ new' = new
         \/ target # "live" /\ new' \in StoredRefs /\ to' = StoredRuns(new') /\ spill' = spill
      /\ IF caller' = "page" THEN want' \in Wants ELSE UNCHANGED want
      /\ UNCHANGED keepScan /\ UNCHANGED <<faults, target, changes, page, written>>
  BY DEF OpenForDiff
<1>2. RequestInv /\ target \in {"live", "stored"} /\ changes = <<>> /\ written = <<>> /\ page = EmptyPage
  BY <1>1 DEF DiffInv, RequestInv
<1>3. \A refs \in StoredRefs : refs \in Seq(Known) /\ Merging(StoredRuns(refs)) /\ HeldBy(StoredRuns(refs)) = ToSet(refs)
  BY KnownLists, OpenedList
<1>4. Merging(from') /\ HeldBy(from') = ToSet(old')
  BY <1>1, <1>3
<1>5. Merging(to') /\ HeldBy(to') = ToSet(NewRefs')
  <2>1. CASE target = "live"
    <3>1. OpenSpill /\ NewRefs' = input
      BY <1>1, <2>1 DEF NewRefs, keepScan
    <3> QED BY <1>1, <1>2, <2>1, <3>1, Opened
  <2>2. CASE target # "live"
    <3>1. NewRefs' = new' /\ to' = StoredRuns(new') /\ new' \in StoredRefs
      BY <1>1, <2>2 DEF NewRefs
    <3> QED BY <1>3, <3>1
  <2> QED BY <2>1, <2>2
<1>6. Left' = IdsOf(old') \cup IdsOf(NewRefs')
  BY <1>4, <1>5 DEF Left, IdsOf, IdsIn, HeldBy, ToSet
<1>7. /\ \A c \in ChangesBetween(old', NewRefs') : c.id \in Left'
      /\ \A r \in ToSet(old') : r.id \in Left'
      /\ \A r \in ToSet(NewRefs') : r.id \in Left'
  BY <1>6 DEF ChangesBetween, Change, IdsOf, IdsIn
<1>8. JoinInv'
  <2>1. /\ Merging(from)' /\ Merging(to)' /\ HeldBy(from)' = ToSet(old') /\ HeldBy(to)' = ToSet(NewRefs')
        /\ ToSet(old)' = ToSet(old') /\ ToSet(NewRefs)' = ToSet(NewRefs')
        /\ ChangesBetween(old, NewRefs)' = ChangesBetween(old', NewRefs') /\ ToSet(changes)' = {}
    BY <1>1, <1>2, <1>4, <1>5, EmptyLists
  <2> QED BY <1>7, <2>1 DEF JoinInv
<1>9. OrderInv'
  BY <1>1 DEF DiffInv, OrderInv, InIdOrder
<1>10. PageInv'
  <2> SUFFICES ASSUME caller' = "page" PROVE PageInv'
    BY DEF PageInv
  <2>1. want' \in Wants /\ page' = EmptyPage /\ changes' = <<>>
    BY <1>1, <1>2
  <2>2. IsPage(page', changes', want'.type, ClampedOffset(want'.offset), ClampedLimit(want'.limit, PageMax))
    BY <2>1, FirstPage
  <2> QED BY <2>2 DEF PageInv
<1>11. RequestInv'
  BY <1>1, <1>2 DEF RequestInv, keepScan
<1> QED BY <1>1, <1>8, <1>9, <1>10, <1>11 DEF DiffInv, WriteInv, DoneInv

LEMMA Ended == ASSUME ScanInv, DiffInv, UseFails \/ UseEnds PROVE DiffInv'
<1>1. /\ stage \in {"join", "write"} /\ tempDir' = FALSE /\ from' = <<>> /\ to' = <<>>
      /\ UNCHANGED <<persist, input, main, request, changes, page, written>>
      /\ \/ stage' = "failed" /\ faults' = faults \cup {"use"}
         \/ stage' = "done" /\ faults' = faults /\ from = <<>> /\ to = <<>>
  BY FaultKept DEF UseFails, UseEnds, CloseAll
<1>2. UNCHANGED <<caller, target, old, new, want>>
  BY <1>1 DEF request
<1>3. RequestInv'
  BY <1>1, <1>2 DEF DiffInv, RequestInv
<1>4. OrderInv'
  BY <1>1 DEF DiffInv, OrderInv, InIdOrder
<1>5. PageInv'
  BY <1>1, <1>2 DEF DiffInv, RequestInv, PageInv
<1>6. DoneInv'
  <2> SUFFICES ASSUME stage' = "done" PROVE DoneInv'
    BY DEF DoneInv
  <2>1. from = <<>> /\ to = <<>> /\ HeldBy(from) = {} /\ HeldBy(to) = {}
    BY <1>1, EmptyLists
  <2>2. NewRefs' = NewRefs
    BY <1>1, <1>2 DEF NewRefs
  <2>3. CASE stage = "join"
    <3>1. Left = {} /\ caller # "create"
      BY <2>1, <2>3 DEF Left, IdsIn, DiffInv, RequestInv
    <3>2. ToSet(changes) = ChangesBetween(old, NewRefs)
      BY <2>3, <3>1 DEF DiffInv, JoinInv
    <3> QED BY <1>1, <1>2, <2>2, <3>1, <3>2 DEF DoneInv
  <2>4. CASE stage = "write"
    <3>1. caller = "create" /\ ToSet(written) = ToSet(input)
      BY <2>1, <2>4 DEF DiffInv, RequestInv, WriteInv
    <3> QED BY <1>1, <1>2, <3>1 DEF DoneInv
  <2> QED BY <1>1, <2>3, <2>4
<1> QED BY <1>1, <1>3, <1>4, <1>5, <1>6 DEF DiffInv, JoinInv, WriteInv

\* A scan that goes on leaves the request alone.
LEMMA ScanGoesOn == ASSUME ScanInv, DiffInv, ScanStep PROVE DiffInv'
<1>1. /\ target = "live" /\ UNCHANGED <<caller, target, stage, old, new, from, to, changes, want, page, written>>
      /\ ScanNext
  BY DEF ScanStep, Scanning, diffVars
<1>2. /\ UNCHANGED <<kind, persist, input>>
      /\ main \in {"ok", "error"} => main' = main /\ tempDir' = tempDir
  BY <1>1 DEF ScanNext, ReaderStep, WorkerStep, MainStep, DrainStep, SendJob, SendBadJob, ReadEnds, ReadFails, CodecFails,
     Encode, SendResult, WorkerEnds, Become, MakeSpill, MakeSpillFails, DrainError, DrainRef, DrainSpillFails, FinishDrain,
     fixed, mainVars
<1>3. stage # "scan" => main \in {"ok", "error"}
  BY <1>1 DEF DiffInv, RequestInv
<1>4. RequestInv'
  BY <1>1, <1>2, <1>3 DEF DiffInv, RequestInv
<1>5. OrderInv'
  BY <1>1 DEF DiffInv, OrderInv, InIdOrder
<1>6. NewRefs' = NewRefs /\ Left' = Left
  BY <1>1, <1>2 DEF NewRefs, Left
<1>7. JoinInv'
  BY <1>1, <1>6 DEF DiffInv, JoinInv
<1>8. WriteInv' /\ DoneInv' /\ PageInv'
  BY <1>1, <1>2, <1>6 DEF DiffInv, WriteInv, DoneInv, PageInv
<1> QED BY <1>4, <1>5, <1>7, <1>8 DEF DiffInv

-----------------------------------------------------------------------------
\* The theorems.

LEMMA InitInv == ASSUME DiffInit PROVE ResultInv
<1>1. /\ kind \in {"mongo", "sql"} /\ persist \in BOOLEAN /\ input \in Inputs
      /\ reader = [pos |-> 1, pc |-> "reading", err |-> FALSE]
      /\ jobs = <<>> /\ results = <<>> /\ worker = [w \in Workers |-> [pc |-> "start"]] /\ main = "spill"
      /\ spill = NewSpill /\ tempDir = FALSE /\ batch = <<>> /\ stored = {} /\ count = 0 /\ firstErr = FALSE /\ faults = {}
  BY DEF DiffInit, ScanInit
<1>2. /\ caller \in {"create", "diff"} /\ target \in {"live", "stored"}
      /\ (caller = "create") = persist
      /\ caller = "create" => target = "live"
      /\ stage = IF target = "live" THEN "scan" ELSE "open"
      /\ from = <<>> /\ to = <<>> /\ changes = <<>> /\ page = EmptyPage /\ written = <<>>
  BY <1>1 DEF DiffInit, Scanning
<1>3. Len(input) \in Nat /\ ChannelSize \in Nat
  BY <1>1, Sizes
<1>4. GoroutineInv
  <2>1. <<>> \in Seq(Outcomes) /\ Len(<<>>) = 0
    OBVIOUS
  <2>2. /\ reader \in [pos : Nat \ {0}, pc : {"reading", "done"}, err : BOOLEAN] /\ reader.pos <= Len(input) + 1
        /\ reader.pc = "reading" /\ reader.err = FALSE
    BY <1>1, <1>3
  <2>3. /\ worker \in [Workers -> [pc : {"start", "idle", "done"}] \cup [pc : {"sending"}, result : Outcomes]]
        /\ \A w \in Workers : worker[w].pc = "start"
    BY <1>1
  <2>4. /\ jobs \in Seq(Outcomes) /\ Len(jobs) <= ChannelSize
        /\ results \in Seq(Outcomes) /\ Len(results) <= ChannelSize
    BY <1>1, <1>3, <2>1
  <2> QED BY <1>1, <2>2, <2>3, <2>4 DEF GoroutineInv
<1>5. FaultInv /\ MainInv /\ Quiet
  BY <1>1 DEF FaultInv, MainInv, Quiet
<1>6. spill.buf = <<>> /\ spill.runs = <<>> /\ spill.dirty = FALSE /\ spill \in [buf : Seq(Known), runs : Seq(Seq(Known)), dirty : BOOLEAN]
  BY <1>1, EmptyLists DEF NewSpill
<1>7. Taken = {} /\ NoneTwice(SpilledRuns)
  BY <1>6, AppendedEmpty, EmptyLists DEF Taken, SpilledRuns
<1>8. Read = {} /\ Queued = {} /\ Busy = {} /\ Working = {} /\ Ready = {} /\ Distinct(jobs) /\ Distinct(results)
      /\ jobs \in Seq(Good) /\ results \in Seq(Good)
  <2>1. Busy = {}
    BY <1>1 DEF Busy
  <2>2. \A i \in 1..reader.pos - 1 : FALSE
    BY <1>1
  <2>3. <<>> \in Seq(Good) /\ DOMAIN <<>> = {} /\ ToSet(<<>>) = {}
    BY EmptyLists
  <2> QED BY <1>1, <2>1, <2>2, <2>3 DEF Read, Queued, Working, Ready, RefsIn, Distinct
<1>9. PlaceInv
  BY <1>1, <1>7, <1>8 DEF PlaceInv
<1>10. SpillInv
  BY <1>1, <1>6, <1>7, FS_EmptySet DEF SpillInv
<1>11. BatchInv
  <2>1. <<>> \in Seq({r.hash : r \in Known})
    OBVIOUS
  <2> QED BY <1>1, <1>7, <2>1 DEF BatchInv
<1>12. RequestInv
  BY <1>1, <1>2 DEF RequestInv
<1>13. OrderInv
  <2>1. <<>> \in Seq(ChangeRecords) /\ <<>> \in Seq(Known) /\ InIdOrder(<<>>)
    BY EmptyLists
  <2> QED BY <1>2, <2>1 DEF OrderInv
<1>14. JoinInv /\ WriteInv /\ PageInv /\ DoneInv
  BY <1>2 DEF JoinInv, WriteInv, PageInv, DoneInv
<1> QED BY <1>4, <1>5, <1>9, <1>10, <1>11, <1>12, <1>13, <1>14 DEF ResultInv, ScanInv, DiffInv

LEMMA StepInv == ASSUME ResultInv, [DiffNext]_allVars PROVE ResultInv'
<1>1. ScanInv /\ DiffInv /\ RequestInv
  BY DEF ResultInv, DiffInv
<1>2. CASE ScanStep
  <2>1. ScanNext /\ stage' = stage
    BY <1>2 DEF ScanStep, diffVars
  <2> QED BY <1>1, <1>2, <2>1, ScanStepInv, ScanGoesOn DEF ResultInv
<1>3. CASE UseStep
  <2>1. DiffInv'
    BY <1>1, <1>3, Written, ScanReturned, WriteOpened, Panicked, DiffOpened, JoinSteps, Ended DEF UseStep
  <2> QED BY <1>1, <1>3, <2>1, UseKeepsScan DEF ResultInv
<1>4. CASE UNCHANGED allVars
  <2>1. UNCHANGED scanVars /\ UNCHANGED diffVars
    BY <1>4 DEF allVars
  <2>2. ScanInv'
    <3>1. /\ UNCHANGED <<kind, persist, input, reader, jobs, worker, results, main, batch, stored, count, firstErr>>
          /\ tempDir' = tempDir /\ faults' = faults /\ spill' = spill /\ stage' = stage
      BY <2>1 DEF scanVars, diffVars
    <3> QED BY <1>1, <3>1, ScanKept
  <2>3. DiffInv'
    <3>1. UNCHANGED <<persist, input, main, tempDir, faults, caller, target, stage, old, new, from, to, changes, want, page, written>>
      BY <2>1 DEF scanVars, diffVars
    <3>2. NewRefs' = NewRefs /\ Left' = Left
      BY <3>1 DEF NewRefs, Left
    <3> QED BY <1>1, <3>1, <3>2 DEF DiffInv, RequestInv, JoinInv, OrderInv, WriteInv, PageInv, DoneInv
  <2> QED BY <2>2, <2>3 DEF ResultInv
<1> QED BY <1>2, <1>3, <1>4 DEF DiffNext

\* pipeline.go:102-163. The invariant of a scan and of what is made of it.
THEOREM ResultInvAlways == DiffSpec => []ResultInv
BY InitInv, StepInv, PTL DEF DiffSpec

LEMMA LengthIsSize == ASSUME GoroutineInv PROVE Cardinality(ToSet(input)) = Len(input)
<1>1. /\ input \in Seq(Known) /\ Len(input) \in Nat /\ DOMAIN input = 1..Len(input)
      /\ \A i, j \in 1..Len(input) : input[i].id = input[j].id => i = j
  BY InputRefs
<1>2. ToSet(input) = {input[i] : i \in 1..Len(input)}
  BY <1>1 DEF ToSet
<1> DEFINE f == [i \in 1..Len(input) |-> input[i]]
<1>3. f \in Bijection(1..Len(input), ToSet(input))
  BY <1>1, <1>2 DEF Bijection, Injection, Surjection, IsInjective
<1>4. IsFiniteSet(1..Len(input)) /\ Cardinality(1..Len(input)) = Len(input)
  BY <1>1, FS_Interval
<1>5. ExistsBijection(1..Len(input), ToSet(input))
  BY <1>3 DEF ExistsBijection
<1> QED BY <1>4, <1>5, FS_Bijection

LEMMA ScanFollows == ASSUME ResultInv PROVE ScanIsCorrect
<1>1. GoroutineInv /\ MainInv /\ ScanInv /\ RequestInv
  BY DEF ResultInv, ScanInv, DiffInv
<1>2. ScanTypeOK
  BY <1>1 DEF ScanTypeOK, GoroutineInv, MainInv
<1>3. ScanIsComplete
  <2> SUFFICES ASSUME main = "ok" PROVE ScanIsComplete
    BY DEF ScanIsComplete
  <2>1. Quiet /\ Taken = ToSet(input) /\ batch = <<>>
    BY <1>1, AllTaken DEF MainInv
  <2>2. HeldBy(SpilledRuns) = ToSet(input) /\ NoneTwice(SpilledRuns) /\ count = Len(input)
    BY <1>1, <2>1, LengthIsSize DEF ScanInv, SpillInv, Taken
  <2>3. persist => {r.hash : r \in ToSet(input)} \subseteq stored
    BY <1>1, <2>1, EmptyLists DEF ScanInv, BatchInv
  <2> QED BY <2>2, <2>3 DEF ScanIsComplete
<1>4. NoFaultIsSwallowed /\ ErrorReadAfterStream /\ FailedScanLeavesNoFiles
  BY <1>1 DEF MainInv, GoroutineInv, Quiet, NoFaultIsSwallowed, ErrorReadAfterStream, FailedScanLeavesNoFiles
<1>5. SpillsAreRemoved
  BY <1>1 DEF RequestInv, SpillsAreRemoved
<1> QED BY <1>2, <1>3, <1>4, <1>5 DEF ScanIsCorrect

\* pipeline.go:102-163, pipeline_sql.go:94-152. Whatever the workers' order and wherever the runs
\* are cut, for every number of workers, size of run and batch and every collection: a scan that
\* reports success has taken, counted and stored every document, and lost no failure on the way.
THEOREM ScanIsCorrectAlways == DiffSpec => []ScanIsCorrect
BY ResultInvAlways, ScanFollows, PTL

LEMMA DiffFollows == ASSUME ResultInv PROVE DiffIsCorrect
<1>1. RequestInv /\ OrderInv /\ DoneInv /\ PageInv
  BY DEF ResultInv, DiffInv
<1>2. StoredRefsAreSorted /\ DiffIsExact
  BY <1>1 DEF OrderInv, DoneInv, StoredRefsAreSorted, DiffIsExact
<1>3. PageIsSlice
  <2> SUFFICES ASSUME stage = "done", caller = "page" PROVE PageIsSlice
    BY DEF PageIsSlice
  <2> DEFINE start == ClampedOffset(want.offset)
             limit == ClampedLimit(want.limit, PageMax)
  <2>1. IsPage(page, changes, want.type, start, limit)
    BY <1>1 DEF PageInv
  <2>2. limit \in Nat /\ limit <= PageMax /\ PageMax \in Nat
    BY <1>1, DiffAssumption DEF RequestInv, ClampedLimit
  <2>3. \A n : Matching(n) = Numbered(changes, want.type, n)
    BY DEF Matching, Numbered
  <2> HIDE DEF start, limit
  <2>4. Len(page.ids) \in Nat /\ Len(page.ids) <= PageMax
    BY <2>1, <2>2 DEF IsPage
  <2> QED BY <2>1, <2>3, <2>4 DEF IsPage, PageIsSlice, start, limit
<1> QED BY <1>2, <1>3 DEF DiffIsCorrect

\* diff.go:128-294, snapshotter.go:79-93. For every pair of collections the merge join over sorted
\* runs reports exactly their difference, in order; a page is exactly its slice of it; and what
\* Create writes is every document once, in the order the next diff relies on.
THEOREM DiffIsCorrectAlways == DiffSpec => []DiffIsCorrect
BY ResultInvAlways, DiffFollows, PTL
=============================================================================
