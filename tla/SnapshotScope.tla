---------------------------- MODULE SnapshotScope ----------------------------
(***************************************************************************)
(* One snapshot scope (the directory of one connection + database in       *)
(* internal/snapshot).  Processes run Create, GC and Tag on its index.json,*)
(* manifests, doc-ref lists and content-addressed objects, under the       *)
(* store's own file lock (bolt backend only) and the scope lock; any of    *)
(* them may fail or die between two steps.                                 *)
(***************************************************************************)
EXTENDS Naturals, FiniteSets

CONSTANTS Procs,      \* processes that operate on the scope
          None,       \* no process
          Backend,    \* the scope's storage backend: "bolt" or "fs"
          Hashes,     \* content hashes of documents
          NumColls,   \* number of collections in the database
          MaxSnaps,   \* bound: how many snapshots are ever begun
          KeepLasts,  \* the --keep-last values GC is called with
          MaxDeaths   \* bound: how many processes die

ASSUME ScopeAssumption == /\ None \notin Procs
                          /\ Backend \in {"bolt", "fs"}
                          /\ NumColls \in Nat
                          /\ MaxSnaps \in Nat
                          /\ KeepLasts \subseteq Nat
                          /\ MaxDeaths \in Nat

Ids   == 1..MaxSnaps      \* snapshot ids, in the order uuid.NewString made them
Colls == 1..NumColls      \* collections, in the order a scan visits them

VARIABLES
  (* on disk *)
  index,       \* index.json: the ids it lists, and those it lists with a tag
  manifests,   \* ids with a manifest file
  labelled,    \* ids whose manifest file carries a tag
  docrefs,     \* <<id, collection>> pairs with a stored doc-ref list
  objects,     \* hashes in the object store
  scanned,     \* what Create(id) read from each collection, and its doc-ref list holds
  createdAt,   \* the second Create(id) stamped into manifest and summary; 0 before
  nextId,      \* the next unused id
  (* locks and processes *)
  storeLock,   \* who has the bolt file open
  holder,      \* who created the scope lock file
  alive,       \* processes that have not died
  pc,          \* where each process is
  job          \* the local variables of each process's operation

diskVars == <<index, manifests, labelled, docrefs, objects, scanned, createdAt>>
vars == <<diskVars, nextId, storeLock, holder, alive, pc, job>>

Mutex == INSTANCE ScopeMutex

Index == [ids : SUBSET Ids, tagged : SUBSET Ids]

Job == [op     : {"none", "create", "gc", "tag"},
        id     : Ids \cup {0},        \* the snapshot the operation is working on
        coll   : 1..NumColls + 1,     \* the collection a Create is scanning
        view   : Index,               \* the copy of index.json it loaded
        doomed : SUBSET Ids,          \* GC: snapshots still to be deleted
        sweep  : SUBSET Hashes]       \* GC: objects still to be deleted

NoIndex == [ids |-> {}, tagged |-> {}]
NoJob == [op |-> "none", id |-> 0, coll |-> 1, view |-> NoIndex,
          doomed |-> {}, sweep |-> {}]

Labels == {"idle", "scan", "refs", "manifest", "lock", "load", "publish",
           "recover", "recoverRefs", "prune", "pruneRefs", "mark", "sweep",
           "label", "tagIndex", "unlock", "dead"}

TypeOK == /\ index \in Index
          /\ manifests \subseteq Ids
          /\ labelled \subseteq Ids
          /\ docrefs \subseteq Ids \X Colls
          /\ objects \subseteq Hashes
          /\ scanned \in [Ids -> [Colls -> SUBSET Hashes]]
          /\ createdAt \in [Ids -> Nat]
          /\ nextId \in 1..MaxSnaps + 1
          /\ storeLock \in Procs \cup {None}
          /\ holder \in Procs \cup {None}
          /\ alive \subseteq Procs
          /\ pc \in [Procs -> Labels]
          /\ job \in [Procs -> Job]

Init == /\ index = NoIndex
        /\ manifests = {}
        /\ labelled = {}
        /\ docrefs = {}
        /\ objects = {}
        /\ scanned = [i \in Ids |-> [c \in Colls |-> {}]]
        /\ createdAt = [i \in Ids |-> 0]
        /\ nextId = 1
        /\ storeLock = None
        /\ Mutex!MutexInit
        /\ pc = [p \in Procs |-> "idle"]
        /\ job = [p \in Procs |-> NoJob]

Goto(p, from, to) == /\ pc[p] = from
                     /\ pc' = [pc EXCEPT ![p] = to]

-----------------------------------------------------------------------------
(* Opening the store, taking the scope lock, returning *)

\* bolt.Open waits for the file's exclusive lock; the fs backend has no lock.
OpenStore(p) == IF Backend = "bolt"
                THEN storeLock = None /\ storeLock' = p
                ELSE UNCHANGED storeLock

\* Mutant of TakeScopeLock: the critical section runs without the lock.
TakeScopeLock_NotExclusive(p) ==
    /\ Goto(p, "lock", "load")
    /\ UNCHANGED <<diskVars, nextId, storeLock, holder, alive, job>>

\* withScopeLock creates the lock file.
TakeScopeLock(p) == /\ Goto(p, "lock", "load")
                    /\ Mutex!Acquire(p)
                    /\ UNCHANGED <<diskVars, nextId, storeLock, job>>

\* withScopeLock removes the lock file of a dead process.
ReclaimScopeLock(p) == /\ pc[p] = "lock"
                       /\ Mutex!Reclaim(p)
                       /\ UNCHANGED <<diskVars, nextId, storeLock, pc, job>>

\* What a returning operation gives up: the deferred os.Remove of the lock
\* file, the deferred backend.Close, its local variables.
Return(p) == /\ pc' = [pc EXCEPT ![p] = "idle"]
             /\ job' = [job EXCEPT ![p] = NoJob]
             /\ holder' = (IF holder = p THEN None ELSE holder)
             /\ storeLock' = (IF storeLock = p THEN None ELSE storeLock)
             /\ UNCHANGED <<diskVars, nextId, alive>>

\* The operation is done.
Finish(p) == pc[p] = "unlock" /\ Return(p)

\* The operation returns an error: a failed write, a lock timeout, a lost
\* database connection, a missing file.  Nothing already written is undone.
Fail(p) == pc[p] \notin {"idle", "unlock", "dead"} /\ Return(p)

\* The process dies.  The kernel drops its bolt lock; its lock file stays.
Die(p) == /\ Cardinality(Procs \ alive) < MaxDeaths
          /\ Mutex!Die(p)
          /\ pc' = [pc EXCEPT ![p] = "dead"]
          /\ job' = [job EXCEPT ![p] = NoJob]
          /\ storeLock' = (IF storeLock = p THEN None ELSE storeLock)
          /\ UNCHANGED <<diskVars, nextId>>

-----------------------------------------------------------------------------
(* Create *)

\* Open the store and draw a manifest id.
BeginCreate(p) ==
    /\ Goto(p, "idle", "scan")
    /\ nextId \in Ids
    /\ nextId' = nextId + 1
    /\ job' = [job EXCEPT ![p] = [NoJob EXCEPT !.op = "create", !.id = nextId]]
    /\ OpenStore(p)
    /\ UNCHANGED <<diskVars, holder, alive>>

\* Mutant of PutObjects: the scan runs past the last collection.
PutObjects_PastEnd(p) ==
    /\ Goto(p, "scan", "refs")
    /\ objects' = objects
    /\ UNCHANGED <<index, manifests, labelled, docrefs, scanned, createdAt, nextId,
                   storeLock, holder, alive, job>>

\* PutMany: the documents of the next collection go into the object store,
\* those already there are skipped.
PutObjects(p) ==
    /\ job[p].coll \in Colls
    /\ Goto(p, "scan", "refs")
    /\ \E content \in SUBSET Hashes :
          /\ objects' = objects \cup content
          /\ scanned' = [scanned EXCEPT ![job[p].id][job[p].coll] = content]
    /\ UNCHANGED <<index, manifests, labelled, docrefs, createdAt, nextId,
                   storeLock, holder, alive, job>>

\* onCollection: WriteDocRefs for the collection that finished scanning.
WriteDocRefs(p) ==
    /\ Goto(p, "refs", "scan")
    /\ docrefs' = docrefs \cup {<<job[p].id, job[p].coll>>}
    /\ job' = [job EXCEPT ![p].coll = @ + 1]
    /\ UNCHANGED <<index, manifests, labelled, objects, scanned, createdAt,
                   nextId, storeLock, holder, alive>>

\* Every collection is scanned: stamp the manifest, in the same second as an
\* earlier one or in a later second.
StampManifest(p) ==
    /\ job[p].coll = NumColls + 1
    /\ Goto(p, "scan", "manifest")
    /\ \E second \in 1..MaxSnaps :
          /\ \A i \in Ids : createdAt[i] <= second
          /\ \/ second = 1
             \/ \E i \in Ids : createdAt[i] + 1 >= second
          /\ createdAt' = [createdAt EXCEPT ![job[p].id] = second]
    /\ UNCHANGED <<index, manifests, labelled, docrefs, objects, scanned,
                   nextId, storeLock, holder, alive, job>>

\* Mutant of SaveManifest: a failed write is not noticed.
SaveManifest_Unchecked(p) ==
    /\ Goto(p, "manifest", "lock")
    /\ UNCHANGED <<diskVars, nextId, storeLock, holder, alive, job>>

\* saveManifest, atomically by rename.
SaveManifest(p) ==
    /\ Goto(p, "manifest", "lock")
    /\ manifests' = manifests \cup {job[p].id}
    /\ UNCHANGED <<index, labelled, docrefs, objects, scanned, createdAt,
                   nextId, storeLock, holder, alive, job>>

\* Under the scope lock: the index is read again ...
LoadForPublish(p) ==
    /\ job[p].op = "create"
    /\ Goto(p, "load", "publish")
    /\ job' = [job EXCEPT ![p].view = index]
    /\ UNCHANGED <<diskVars, nextId, storeLock, holder, alive>>

\* ... and saved with the new summary appended.
Publish(p) ==
    /\ Goto(p, "publish", "unlock")
    /\ index' = [job[p].view EXCEPT !.ids = @ \cup {job[p].id}]
    /\ UNCHANGED <<manifests, labelled, docrefs, objects, scanned, createdAt,
                   nextId, storeLock, holder, alive, job>>

-----------------------------------------------------------------------------
(* Tag: takes the scope lock only, never opens the store *)

BeginTag(p) ==
    /\ Goto(p, "idle", "lock")
    /\ job' = [job EXCEPT ![p] = [NoJob EXCEPT !.op = "tag"]]
    /\ UNCHANGED <<diskVars, nextId, storeLock, holder, alive>>

\* Find the snapshot in the index and load its manifest.
LoadForTag(p) ==
    /\ job[p].op = "tag"
    /\ Goto(p, "load", "label")
    /\ \E i \in (index.ids \ index.tagged) \cap manifests :
          job' = [job EXCEPT ![p].view = index, ![p].id = i]
    /\ UNCHANGED <<diskVars, nextId, storeLock, holder, alive>>

\* The snapshot carries that tag already: nothing to do.
AlreadyTagged(p) ==
    /\ job[p].op = "tag"
    /\ Goto(p, "load", "unlock")
    /\ index.tagged # {}
    /\ UNCHANGED <<diskVars, nextId, storeLock, holder, alive, job>>

\* saveManifest with the new tag.
LabelManifest(p) ==
    /\ Goto(p, "label", "tagIndex")
    /\ manifests' = manifests \cup {job[p].id}
    /\ labelled' = labelled \cup {job[p].id}
    /\ UNCHANGED <<index, docrefs, objects, scanned, createdAt, nextId,
                   storeLock, holder, alive, job>>

\* saveIndex with the new tag.
TagIndex(p) ==
    /\ Goto(p, "tagIndex", "unlock")
    /\ index' = [job[p].view EXCEPT !.tagged = @ \cup {job[p].id}]
    /\ UNCHANGED <<manifests, labelled, docrefs, objects, scanned, createdAt,
                   nextId, storeLock, holder, alive, job>>

-----------------------------------------------------------------------------
(* GC: recover abandoned manifests, prune, save the index, mark, sweep *)

BeginGC(p) ==
    /\ Goto(p, "idle", "lock")
    /\ job' = [job EXCEPT ![p] = [NoJob EXCEPT !.op = "gc"]]
    /\ OpenStore(p)
    /\ UNCHANGED <<diskVars, nextId, holder, alive>>

\* Mutant of LoadForGC: abandoned manifests are not recovered.
LoadForGC_NoRecovery(p) ==
    /\ job[p].op = "gc"
    /\ Goto(p, "load", "recover")
    /\ job' = [job EXCEPT ![p].view = index]
    /\ UNCHANGED <<diskVars, nextId, storeLock, holder, alive>>

\* loadIndex, then ReadDir of the manifests directory: a manifest the index
\* does not list is taken for the leftover of an interrupted Create.
LoadForGC(p) ==
    /\ job[p].op = "gc"
    /\ Goto(p, "load", "recover")
    /\ job' = [job EXCEPT ![p].view = index, ![p].doomed = manifests \ index.ids]
    /\ UNCHANGED <<diskVars, nextId, storeLock, holder, alive>>

\* Mutant of RemoveManifest: the doc-ref lists go before the manifest.
RemoveManifest_RefsFirst(p, from, to) ==
    /\ Goto(p, from, to)
    /\ \E i \in job[p].doomed :
          /\ docrefs' = docrefs \ ({i} \X Colls)
          /\ job' = [job EXCEPT ![p].id = i]
    /\ UNCHANGED <<index, manifests, labelled, objects, scanned, createdAt, nextId,
                   storeLock, holder, alive>>

\* Both deleting loops of GC remove a snapshot's manifest first ...
RemoveManifest(p, from, to) ==
    /\ Goto(p, from, to)
    /\ \E i \in job[p].doomed :
          /\ manifests' = manifests \ {i}
          /\ labelled' = labelled \ {i}
          /\ job' = [job EXCEPT ![p].id = i]
    /\ UNCHANGED <<index, docrefs, objects, scanned, createdAt, nextId,
                   storeLock, holder, alive>>

\* ... and its doc-ref lists next.
DeleteDocRefs(p, from, to) ==
    /\ Goto(p, from, to)
    /\ docrefs' = docrefs \ ({job[p].id} \X Colls)
    /\ job' = [job EXCEPT ![p].doomed = @ \ {job[p].id}]
    /\ UNCHANGED <<index, manifests, labelled, objects, scanned, createdAt,
                   nextId, storeLock, holder, alive>>

RecoverManifest(p) == RemoveManifest(p, "recover", "recoverRefs")
RecoverDocRefs(p)  == DeleteDocRefs(p, "recoverRefs", "recover")
PruneManifest(p)   == RemoveManifest(p, "prune", "pruneRefs")
PruneDocRefs(p)    == DeleteDocRefs(p, "pruneRefs", "prune")

\* The last n of ids sorted by creation time (sort.Slice is not stable: equal
\* seconds may come out in any order).
IsNewest(last, n, ids) ==
    /\ last \subseteq ids
    /\ Cardinality(last) = (IF n < Cardinality(ids) THEN n ELSE Cardinality(ids))
    /\ \A i \in ids \ last, j \in last : createdAt[i] <= createdAt[j]

\* Mutant of DecideKept: tags are not looked at.
DecideKept_IgnoringTags(p) ==
    /\ job[p].doomed = {}
    /\ Goto(p, "recover", "prune")
    /\ \E n \in KeepLasts, last \in SUBSET job[p].view.ids :
          /\ IsNewest(last, n, job[p].view.ids)
          /\ job' = [job EXCEPT ![p].view.ids = last,
                                ![p].doomed = job[p].view.ids \ last]
    /\ UNCHANGED <<diskVars, nextId, storeLock, holder, alive>>

\* Keep the tagged snapshots and the newest --keep-last, delete the others.
DecideKept(p) ==
    /\ job[p].doomed = {}
    /\ Goto(p, "recover", "prune")
    /\ \E n \in KeepLasts, last \in SUBSET job[p].view.ids :
          /\ IsNewest(last, n, job[p].view.ids)
          /\ LET kept == last \cup job[p].view.tagged
             IN  job' = [job EXCEPT ![p].view.ids = kept,
                                    ![p].doomed = job[p].view.ids \ kept]
    /\ UNCHANGED <<diskVars, nextId, storeLock, holder, alive>>

\* saveIndex with the kept snapshots only.
SavePrunedIndex(p) ==
    /\ job[p].doomed = {}
    /\ Goto(p, "prune", "mark")
    /\ index' = job[p].view
    /\ UNCHANGED <<manifests, labelled, docrefs, objects, scanned, createdAt,
                   nextId, storeLock, holder, alive, job>>

\* What the doc-ref lists of the snapshots in ids point to.
Referenced(ids) == UNION {scanned[ref[1]][ref[2]] : ref \in docrefs \cap (ids \X Colls)}

\* Mutant of Mark: only the tagged snapshots' references are collected.
Mark_TaggedOnly(p) ==
    /\ job[p].view.ids \subseteq manifests
    /\ Goto(p, "mark", "sweep")
    /\ job' = [job EXCEPT ![p].sweep = objects \ Referenced(job[p].view.tagged)]
    /\ UNCHANGED <<diskVars, nextId, storeLock, holder, alive>>

\* Collect the hashes the kept snapshots reference (a kept snapshot without a
\* manifest makes loadManifest fail), and list the objects without a reference.
Mark(p) ==
    /\ job[p].view.ids \subseteq manifests
    /\ Goto(p, "mark", "sweep")
    /\ job' = [job EXCEPT ![p].sweep = objects \ Referenced(job[p].view.ids)]
    /\ UNCHANGED <<diskVars, nextId, storeLock, holder, alive>>

SweepObject(p) ==
    /\ pc[p] = "sweep"
    /\ \E h \in job[p].sweep :
          /\ objects' = objects \ {h}
          /\ job' = [job EXCEPT ![p].sweep = @ \ {h}]
    /\ UNCHANGED <<index, manifests, labelled, docrefs, scanned, createdAt,
                   nextId, storeLock, holder, alive, pc>>

SweepDone(p) ==
    /\ job[p].sweep = {}
    /\ Goto(p, "sweep", "unlock")
    /\ UNCHANGED <<diskVars, nextId, storeLock, holder, alive, job>>

-----------------------------------------------------------------------------
CreateStep(p) == \/ BeginCreate(p) \/ PutObjects(p) \/ WriteDocRefs(p)
                 \/ StampManifest(p) \/ SaveManifest(p)
                 \/ LoadForPublish(p) \/ Publish(p)

TagStep(p) == \/ BeginTag(p) \/ LoadForTag(p) \/ AlreadyTagged(p)
              \/ LabelManifest(p) \/ TagIndex(p)

GCStep(p) == \/ BeginGC(p) \/ LoadForGC(p)
             \/ RecoverManifest(p) \/ RecoverDocRefs(p) \/ DecideKept(p)
             \/ PruneManifest(p) \/ PruneDocRefs(p) \/ SavePrunedIndex(p)
             \/ Mark(p) \/ SweepObject(p) \/ SweepDone(p)

LockStep(p) == \/ TakeScopeLock(p) \/ ReclaimScopeLock(p)
               \/ Finish(p) \/ Fail(p) \/ Die(p)

Next == \E p \in Procs : CreateStep(p) \/ TagStep(p) \/ GCStep(p) \/ LockStep(p)

Spec == Init /\ [][Next]_vars

-----------------------------------------------------------------------------
(* Properties *)

\* Everything a Restore of snapshot i reads: a doc-ref list for each collection
\* and each document it names.
Complete(i) == \A c \in Colls : /\ <<i, c>> \in docrefs
                                /\ scanned[i][c] \subseteq objects

\* Create, GC and the object store agree on what a published snapshot needs: a
\* snapshot that the index lists and whose manifest can be loaded is complete,
\* whatever other operations, failures and crashes went on around it.
ListedIsComplete == \A i \in index.ids \cap manifests : Complete(i)

\* Create "stores a new snapshot": when it returns without an error, the manifest
\* and everything it refers to are there.
CreatedIsComplete ==
    \A p \in Procs : pc[p] = "unlock" /\ job[p].op = "create" =>
        job[p].id \in index.ids \cap manifests /\ Complete(job[p].id)

\* "Tagged snapshots are always kept" (GC) and "protected from GC" (Tag): once
\* the index shows a tag, the snapshot keeps its manifest (with the tag in it) and its content.
TaggedIsKept == /\ index.tagged \subseteq index.ids \cap manifests \cap labelled
                /\ \A i \in index.tagged : Complete(i)

\* The hazard withScopeLock exists for: nobody's save of the index drops what
\* another process put there.  An entry only goes when a GC that decided to
\* prune it saves the index, and a tag never goes.
KeepsOthersEntries ==
    /\ index.tagged \subseteq index'.tagged
    /\ \/ index.ids \subseteq index'.ids
       \/ \E p \in Procs : /\ pc[p] = "prune"
                           /\ index'.ids = index.ids \cap job[p].view.ids
NoLostUpdate == [][KeepsOthersEntries]_index

\* A GC that gets to its end leaves nothing behind for an older interruption:
\* every manifest is listed, and exactly the referenced objects remain.
GCLeavesNoGarbage ==
    \A p \in Procs : pc[p] = "unlock" /\ job[p].op = "gc" =>
        /\ manifests = index.ids
        /\ objects = Referenced(index.ids)

\* A manifest.json "if lost, just makes one snapshot invisible": it does not keep
\* a GC from marking and sweeping.
LostManifestIsHarmless ==
    \A p \in Procs : pc[p] = "mark" => job[p].view.ids \subseteq manifests

\* The scope implements the abstract history: publishing, tagging and pruning
\* look atomic, and the content of a listed snapshot never changes.
Restorable(i) == [c \in Colls |-> IF <<i, c>> \in docrefs
                                  THEN scanned[i][c] \cap objects ELSE {}]
History == INSTANCE SnapshotHistory
             WITH Contents <- [Colls -> SUBSET Hashes],
                  history <- [i \in index.ids \cap manifests |-> Restorable(i)],
                  pinned <- index.tagged
ImplementsHistory == History!HistorySpec
=============================================================================
