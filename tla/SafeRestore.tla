----------------------------- MODULE SafeRestore -----------------------------
(***************************************************************************)
(* Restore and RestoreWithSafety of internal/snapshot/restore.go: one      *)
(* restore of a snapshot over the live database it was taken from, with    *)
(* the safety snapshot before it and the automatic rollback after it.      *)
(* Every step can fail and the process can die; other processes run GC on  *)
(* the scope, which is the abstract history that SnapshotScope implements. *)
(***************************************************************************)
CONSTANTS Colls,      \* collections of the database
          Keys,       \* _id values of documents
          Vals,       \* the rest of a document
          All         \* no --collection option: restore every collection

ASSUME RestoreAssumption == All \notin Colls

Ids == {"source", "safety"}     \* the snapshot to restore, the safety snapshot

\* What a collection can hold: no two documents with one _id.  A collection that
\* does not exist and an empty one are alike to whoever reads it.
Content == {docs \in SUBSET (Keys \X Vals) :
               \A d, e \in docs : d[1] = e[1] => d = e}

\* A snapshot holds the collections that existed when it was made.
SnapshotContent == UNION {[names -> Content] : names \in SUBSET Colls}

VARIABLES
  history,    \* the scope's snapshots
  pinned,     \* the tagged ones
  pruned,     \* those that GC has pruned
  live,       \* content of each collection of the live database
  storeOpen,  \* this process has the bolt store open
  pc,         \* where it is
  drop,       \* RestoreOptions.Drop
  only,       \* RestoreOptions.Collection, or All
  phase,      \* "restore", or "rollback": the second call of Restore
  names,      \* collections still to be restored
  coll,       \* the collection being restored
  pending,    \* documents of it still to be inserted
  touched,    \* RestoreResult.Touched of the first call
  before,     \* the live database when the restore began
  wanted      \* the content of the snapshot to restore

scopeVars == <<history, pinned, pruned>>
args == <<drop, only, before, wanted>>
vars == <<scopeVars, args, live, storeOpen, pc, phase, names, coll, pending, touched>>

History == INSTANCE SnapshotHistory WITH Contents <- SnapshotContent

Running == {"safety", "get", "open", "next", "insert", "indexes"}
Ended   == {"done", "failed", "rolledBack", "rollbackFailed", "crashed"}

TypeOK == /\ \E ids \in SUBSET Ids : history \in [ids -> SnapshotContent]
          /\ pinned \subseteq Ids
          /\ pruned \subseteq Ids
          /\ live \in [Colls -> Content]
          /\ storeOpen \in BOOLEAN
          /\ pc \in Running \cup Ended
          /\ drop \in BOOLEAN
          /\ only \in Colls \cup {All}
          /\ phase \in {"restore", "rollback"}
          /\ names \subseteq Colls
          /\ coll \in Colls \cup {All}
          /\ pending \in Content
          /\ touched \subseteq Colls
          /\ before \in [Colls -> Content]
          /\ wanted \in SnapshotContent

Init == /\ wanted \in SnapshotContent
        /\ history = [i \in {"source"} |-> wanted]
        /\ pinned \in SUBSET {"source"}
        /\ pruned = {}
        /\ live \in [Colls -> Content]
        /\ before = live
        /\ storeOpen = FALSE
        /\ drop \in BOOLEAN
        /\ only \in Colls \cup {All}
        /\ pc = (IF drop THEN "safety" ELSE "get")
        /\ phase = "restore"
        /\ names = {}
        /\ coll = All
        /\ pending = {}
        /\ touched = {}

Goto(from, to) == pc = from /\ pc' = to

Snapshot == IF phase = "restore" THEN "source" ELSE "safety"

\* Mutant of Dropping: the rollback's call of Restore does not ask for a drop.
Dropping_NotInRollback == drop /\ phase = "restore"

Dropping == drop \/ phase = "rollback"

-----------------------------------------------------------------------------
\* Mutant of TakeSafety: the restore goes on without the safety snapshot.
TakeSafety_Skipped == /\ Goto("safety", "get")
                      /\ UNCHANGED <<scopeVars, args, live, storeOpen, phase, names,
                                     coll, pending, touched>>

\* Create of the live database: every collection that exists, and one that is
\* empty may exist.
TakeSafety ==
    /\ Goto("safety", "get")
    /\ \E existing \in SUBSET Colls :
          /\ \A c \in Colls \ existing : live[c] = {}
          /\ History!Publish("safety", [c \in existing |-> live[c]])
    /\ UNCHANGED <<pruned, args, live, storeOpen, phase, names, coll, pending, touched>>

\* Get: the manifest tells the names of the collections.
GetManifest ==
    /\ Goto("get", "open")
    /\ Snapshot \in DOMAIN history
    /\ names' = {c \in DOMAIN history[Snapshot] :
                    phase = "restore" => only \in {c, All}}
    /\ UNCHANGED <<scopeVars, args, live, storeOpen, phase, coll, pending, touched>>

\* OpenBackend and Connect; an --collection that is not there is an error.
OpenStore ==
    /\ Goto("open", "next")
    /\ phase = "restore" /\ only # All => names # {}
    /\ storeOpen' = TRUE
    /\ UNCHANGED <<scopeVars, args, live, phase, names, coll, pending, touched>>

\* IterDocRefs: no refs under this id is not an error.
Refs(c) == IF Snapshot \in DOMAIN history THEN history[Snapshot][c] ELSE {}

\* Touched belongs to the first Restore's result; the rollback's is ignored.
Touch(c) == touched' = IF drop /\ phase = "restore" THEN touched \cup {c} ELSE touched

\* Mutant of StartCollection: a collection that existed is not dropped.
StartCollection_KeepsOld(c) ==
    /\ Goto("next", "insert")
    /\ c \in names
    /\ names' = names \ {c}
    /\ coll' = c
    /\ pending' = Refs(c)
    /\ Touch(c)
    /\ UNCHANGED <<scopeVars, args, live, storeOpen, phase>>

\* Drop the collection if asked to, and open its doc-refs.
StartCollection(c) ==
    /\ Goto("next", "insert")
    /\ c \in names
    /\ names' = names \ {c}
    /\ coll' = c
    /\ pending' = Refs(c)
    /\ Touch(c)
    /\ live' = IF Dropping THEN [live EXCEPT ![c] = {}] ELSE live
    /\ UNCHANGED <<scopeVars, args, storeOpen, phase>>

\* Mutant of InsertDoc: a document with the same _id is replaced.
InsertDoc_Replaces(d) ==
    /\ pc = "insert"
    /\ d \in pending
    /\ live' = [live EXCEPT ![coll] = {e \in @ : e[1] # d[1]} \cup {d}]
    /\ pending' = pending \ {d}
    /\ UNCHANGED <<scopeVars, args, storeOpen, pc, phase, names, coll, touched>>

\* Mutant of InsertDoc: an _id that is already there is not noticed.
InsertDoc_IgnoresIds(d) ==
    /\ pc = "insert"
    /\ d \in pending
    /\ live' = [live EXCEPT ![coll] = @ \cup {d}]
    /\ pending' = pending \ {d}
    /\ UNCHANGED <<scopeVars, args, storeOpen, pc, phase, names, coll, touched>>

\* InsertMany stores the documents of a batch one by one until one has an _id
\* that is already there.
InsertDoc(d) ==
    /\ pc = "insert"
    /\ d \in pending
    /\ \A e \in live[coll] : e[1] # d[1]
    /\ live' = [live EXCEPT ![coll] = @ \cup {d}]
    /\ pending' = pending \ {d}
    /\ UNCHANGED <<scopeVars, args, storeOpen, pc, phase, names, coll, touched>>

AllInserted ==
    /\ pending = {}
    /\ Goto("insert", "indexes")
    /\ UNCHANGED <<scopeVars, args, live, storeOpen, phase, names, coll, pending, touched>>

\* recreateIndexes: the collection is complete.
RecreateIndexes ==
    /\ Goto("indexes", "next")
    /\ UNCHANGED <<scopeVars, args, live, storeOpen, phase, names, coll, pending, touched>>

\* Restore returns without an error.
Complete ==
    /\ names = {}
    /\ Goto("next", IF phase = "restore" THEN "done" ELSE "rolledBack")
    /\ storeOpen' = FALSE
    /\ UNCHANGED <<scopeVars, args, live, phase, names, coll, pending, touched>>

-----------------------------------------------------------------------------
\* Create returns an error: nothing has been restored yet.
SafetyFails ==
    /\ Goto("safety", "failed")
    /\ UNCHANGED <<scopeVars, args, live, storeOpen, phase, names, coll, pending, touched>>

\* Restore returns an error.  After the first call with a touched collection
\* the safety snapshot is restored, all of it.
Return(result) ==
    /\ touched' = result
    /\ storeOpen' = FALSE
    /\ IF drop /\ phase = "restore" /\ result # {}
       THEN pc' = "get" /\ phase' = "rollback"
       ELSE /\ pc' = IF phase = "restore" THEN "failed" ELSE "rollbackFailed"
            /\ UNCHANGED phase

\* A step of Restore fails: no such snapshot, no connection, an unreadable
\* object, a duplicate _id, an index that cannot be built.
Fail ==
    /\ pc \in {"get", "open", "insert", "indexes"}
    /\ Return(touched)
    /\ UNCHANGED <<scopeVars, args, live, names, coll, pending>>

\* Mutant of DropFails: Touched is recorded after the drop, not before it.
DropFails_Unrecorded ==
    /\ pc = "next"
    /\ Dropping
    /\ \E c \in names :
          /\ live' \in {live, [live EXCEPT ![c] = {}]}
          /\ coll' = c
          /\ Return(touched)
    /\ UNCHANGED <<scopeVars, args, names, pending>>

\* Drop itself returns an error, with the collection gone or not.
DropFails ==
    /\ pc = "next"
    /\ Dropping
    /\ \E c \in names :
          /\ live' \in {live, [live EXCEPT ![c] = {}]}
          /\ coll' = c
          /\ Return(IF phase = "restore" THEN touched \cup {c} ELSE touched)
    /\ UNCHANGED <<scopeVars, args, names, pending>>

\* The process dies.
Crash ==
    /\ pc \in Running
    /\ pc' = "crashed"
    /\ storeOpen' = FALSE
    /\ UNCHANGED <<scopeVars, args, live, phase, names, coll, pending, touched>>

\* Another process's GC prunes an untagged snapshot; bolt keeps it out while
\* this process has the store open.
GC ==
    /\ ~storeOpen
    /\ pc \in Running
    /\ \E i \in Ids : History!Prune(i) /\ pruned' = pruned \cup {i}
    /\ UNCHANGED <<args, live, storeOpen, pc, phase, names, coll, pending, touched>>

\* The restore has ended.
Terminated == pc \in Ended /\ UNCHANGED vars

Next == \/ TakeSafety \/ GetManifest \/ OpenStore
        \/ \E c \in Colls : StartCollection(c)
        \/ \E d \in Keys \X Vals : InsertDoc(d)
        \/ AllInserted \/ RecreateIndexes \/ Complete
        \/ SafetyFails \/ Fail \/ DropFails \/ Crash \/ GC \/ Terminated

Spec == Init /\ [][Next]_vars

-----------------------------------------------------------------------------
Selected == {c \in DOMAIN wanted : only \in {c, All}}

\* What the snapshot gives a collection.
Given(c) == IF c \in Selected THEN wanted[c] ELSE {}

\* "Restore applies a stored snapshot": after a dropping restore that reports
\* success the selected collections are as in the snapshot, the others as before.
RestoredExactly ==
    pc = "done" /\ drop =>
        live = [c \in Colls |-> IF c \in Selected THEN wanted[c] ELSE before[c]]

\* The same of a snapshot that no GC prunes during the restore, a tagged one for
\* instance.
KeptIsRestoredExactly == "source" \notin pruned => RestoredExactly

\* "A non-destructive restore (Drop=false) only adds/overwrites documents and
\* never deletes data": it adds documents of the snapshot to the selected
\* collections, and what was there stays, in whatever way it ends.  The code
\* overwrites nothing: InsertMany refuses an _id that is there, and the restore
\* fails at that document, its batch half done.  One that succeeds has therefore
\* added all of a snapshot that was not pruned, beside all that was there.
NonDestructive ==
    ~drop => \A c \in Colls :
        /\ before[c] \subseteq live[c]
        /\ live[c] \subseteq before[c] \cup Given(c)
        /\ pc = "done" /\ "source" \notin pruned => Given(c) \subseteq live[c]

\* "A restore that failed without ever touching a collection ... nothing
\* changed": where RestoreWithSafety decides against a rollback, none is needed.
FailedUntouched == pc = "failed" /\ drop => live = before

\* The safety snapshot is taken "so the prior state is never unrecoverable":
\* what a dropping restore has overwritten is in the safety snapshot, even after
\* a crash.
PriorStateRecoverable ==
    drop => \A c \in Colls :
        \/ live[c] = before[c]
        \/ /\ "safety" \in DOMAIN history
           /\ before[c] = (IF c \in DOMAIN history["safety"]
                           THEN history["safety"][c] ELSE {})

\* The same as long as no GC prunes the safety snapshot.
PriorStateKept == "safety" \notin pruned => PriorStateRecoverable

\* A rollback that reports success has brought back every collection that the
\* safety snapshot holds.
RolledBackCollections ==
    pc = "rolledBack" /\ "safety" \in DOMAIN history =>
        \A c \in DOMAIN history["safety"] : live[c] = before[c]

\* The rollback is "to bring every touched collection back to its pre-restore
\* state".
RollbackRestoresTouched ==
    pc = "rolledBack" => \A c \in touched : live[c] = before[c]
=============================================================================
