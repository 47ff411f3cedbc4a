-------------------------- MODULE SafeRestoreProofs --------------------------
(***************************************************************************)
(* What a restore never does to the live database: for any collections,    *)
(* documents and snapshots of MongoDB (SafeRestore), and in the second     *)
(* half for SQL restores, whatever fails and whoever else uses the session *)
(* (SqlSnapshots).                                                         *)
(***************************************************************************)
EXTENDS SafeRestore, SqlSnapshots, TLAPS

\* Every variable keeps its type, and the collection being restored is one.
TypeInv == TypeOK /\ (pc \in {"insert", "indexes"} => coll \in Colls)

\* The collections still to come are in the snapshot, if that is still there.
NamesInv ==
    pc \in {"open", "next", "insert", "indexes"} /\ Snapshot \in DOMAIN history =>
        names \subseteq DOMAIN history[Snapshot]

LEMMA EmptyContent == {} \in Content
  BY DEF Content

LEMMA TypeInvInductive == TypeInv /\ NamesInv /\ [Next]_vars => TypeInv'
<1> SUFFICES ASSUME TypeInv, NamesInv, [Next]_vars PROVE TypeInv'
  OBVIOUS
<1> USE RestoreAssumption, EmptyContent
        DEF TypeInv, TypeOK, Ids, Running, Ended, Goto, scopeVars, args
<1>1. CASE TakeSafety
  <2>1. PICK existing \in SUBSET Colls :
           History!Publish("safety", [c \in existing |-> live[c]])
    BY <1>1 DEF TakeSafety
  <2>2. [c \in existing |-> live[c]] \in SnapshotContent
    BY DEF SnapshotContent
  <2>3. PICK ids \in SUBSET Ids : history \in [ids -> SnapshotContent]
    OBVIOUS
  <2>4. history' \in [ids \cup {"safety"} -> SnapshotContent]
    BY <2>1, <2>2, <2>3 DEF History!Publish
  <2>5. ids \cup {"safety"} \in SUBSET Ids
    BY <2>3
  <2> QED BY <1>1, <2>1, <2>4, <2>5 DEF TakeSafety, History!Publish
<1>2. CASE GetManifest
  BY <1>2 DEF GetManifest, Snapshot, SnapshotContent
<1>3. CASE OpenStore
  BY <1>3 DEF OpenStore
<1>4. ASSUME NEW c \in Colls, StartCollection(c) PROVE TypeInv'
  <2>1. c \in names
    BY <1>4 DEF StartCollection
  <2>2. PICK ids \in SUBSET Ids : history \in [ids -> SnapshotContent]
    OBVIOUS
  <2>3. Refs(c) \in Content
    <3>1. CASE Snapshot \notin DOMAIN history
      BY <3>1 DEF Refs
    <3>2. CASE Snapshot \in DOMAIN history
      <4>1. PICK existing \in SUBSET Colls : history[Snapshot] \in [existing -> Content]
        <5>1. history[Snapshot] \in SnapshotContent
          BY <2>2, <3>2
        <5> QED BY <5>1 DEF SnapshotContent
      <4>2. c \in DOMAIN history[Snapshot]
        BY <1>4, <2>1, <3>2 DEF StartCollection, NamesInv
      <4> QED BY <3>2, <4>1, <4>2 DEF Refs
    <3> QED BY <3>1, <3>2
  <2>4. live' \in [Colls -> Content]
    BY <1>4 DEF StartCollection
  <2>5. touched' \subseteq Colls
    BY <1>4 DEF StartCollection, Touch
  <2> QED BY <1>4, <2>1, <2>3, <2>4, <2>5 DEF StartCollection
<1>5. ASSUME NEW d \in Keys \X Vals, InsertDoc(d) PROVE TypeInv'
  <2>1. live[coll] \cup {d} \in Content /\ pending \ {d} \in Content
    BY <1>5 DEF InsertDoc, Content
  <2> QED BY <1>5, <2>1 DEF InsertDoc
<1>6. CASE AllInserted \/ RecreateIndexes \/ Complete \/ SafetyFails \/ Crash
  BY <1>6 DEF AllInserted, RecreateIndexes, Complete, SafetyFails, Crash
<1>7. CASE Fail
  BY <1>7 DEF Fail, Return
<1>8. CASE DropFails
  <2>1. UNCHANGED <<history, pinned, pruned, drop, only, names, pending, before, wanted>>
    BY <1>8 DEF DropFails, Return
  <2>2. live' \in [Colls -> Content] /\ coll' \in Colls
    BY <1>8 DEF DropFails
  <2>3. phase' \in {"restore", "rollback"} /\ pc' \in Running \cup Ended /\ pc' \notin {"insert", "indexes"}
    BY <1>8 DEF DropFails, Return
  <2>4. storeOpen' \in BOOLEAN /\ touched' \subseteq Colls
    BY <1>8 DEF DropFails, Return, Touch
  <2> QED BY <2>1, <2>2, <2>3, <2>4
<1>9. CASE GC
  <2>1. PICK i \in Ids : History!Prune(i)
    BY <1>9 DEF GC
  <2>2. PICK ids \in SUBSET Ids : history \in [ids -> SnapshotContent]
    OBVIOUS
  <2>3. history' \in [ids \ {i} -> SnapshotContent]
    BY <2>1, <2>2 DEF History!Prune
  <2>4. ids \ {i} \in SUBSET Ids
    BY <2>2
  <2> QED BY <1>9, <2>1, <2>3, <2>4 DEF GC, History!Prune
<1>10. CASE UNCHANGED vars
  BY <1>10 DEF vars
<1> QED
  BY <1>1, <1>2, <1>3, <1>4, <1>5, <1>6, <1>7, <1>8, <1>9, <1>10
     DEF Next, Terminated

LEMMA NamesInvInductive == NamesInv /\ [Next]_vars => NamesInv'
<1> SUFFICES ASSUME NamesInv, [Next]_vars PROVE NamesInv'
  OBVIOUS
<1> USE DEF NamesInv, Snapshot, Goto, scopeVars
<1>1. CASE TakeSafety
  BY <1>1 DEF TakeSafety
<1>2. CASE GetManifest
  BY <1>2 DEF GetManifest
<1>3. CASE OpenStore
  BY <1>3 DEF OpenStore
<1>4. ASSUME NEW c \in Colls, StartCollection(c) PROVE NamesInv'
  BY <1>4 DEF StartCollection
<1>5. ASSUME NEW d \in Keys \X Vals, InsertDoc(d) PROVE NamesInv'
  BY <1>5 DEF InsertDoc
<1>6. CASE AllInserted \/ RecreateIndexes
  BY <1>6 DEF AllInserted, RecreateIndexes
<1>7. CASE Complete \/ SafetyFails \/ Crash
  BY <1>7 DEF Complete, SafetyFails, Crash
<1>8. CASE Fail \/ DropFails
  BY <1>8 DEF Fail, DropFails, Return
<1>9. CASE GC
  BY <1>9 DEF GC, History!Prune, args
<1>10. CASE UNCHANGED vars
  BY <1>10 DEF vars
<1> QED
  BY <1>1, <1>2, <1>3, <1>4, <1>5, <1>6, <1>7, <1>8, <1>9, <1>10
     DEF Next, Terminated

LEMMA TypeInvAlways == Spec => [](TypeInv /\ NamesInv)
<1>1. Init => TypeInv /\ NamesInv
  <2> SUFFICES ASSUME Init PROVE TypeInv /\ NamesInv
    OBVIOUS
  <2>1. history \in [{"source"} -> SnapshotContent]
    BY DEF Init
  <2>2. {"source"} \in SUBSET Ids
    BY DEF Ids
  <2> QED BY <2>1, <2>2, EmptyContent
          DEF Init, TypeInv, TypeOK, NamesInv, Running, Ended
<1>2. TypeInv /\ NamesInv /\ [Next]_vars => (TypeInv /\ NamesInv)'
  BY TypeInvInductive, NamesInvInductive
<1> QED BY <1>1, <1>2, PTL DEF Spec

\* Every variable of a restore keeps its type: the documents of a collection never
\* share an _id, neither in the live database nor in a snapshot.
THEOREM TypeCorrect == Spec => []TypeOK
BY TypeInvAlways, PTL DEF TypeInv

-----------------------------------------------------------------------------
\* Without --drop there is no rollback; what was there stays, only documents of
\* the snapshot come to it, and of the collections done none is missing.
Missing(c) == IF pc = "insert" /\ c = coll THEN pending ELSE {}

AddsOnly ==
    /\ phase = "restore"
    /\ "source" \in DOMAIN history => history["source"] = wanted
    /\ pc \in {"open", "next", "insert", "indexes"} => names \subseteq Selected
    /\ pc = "insert" => coll \in Selected /\ pending \subseteq wanted[coll]
    /\ \A c \in Colls : before[c] \subseteq live[c] /\ live[c] \subseteq before[c] \cup Given(c)

AddsAll ==
    /\ "source" \in DOMAIN history
    /\ pc = "open" => names = Selected
    /\ pc = "done" => names = {}
    /\ pc \in {"next", "insert", "indexes", "done"} =>
          \A c \in Selected \ names : wanted[c] \subseteq live[c] \cup Missing(c)

KeepInv == ~drop => AddsOnly /\ ("source" \notin pruned => AddsAll)

LEMMA KeepInvInductive == TypeInv /\ KeepInv /\ [Next]_vars => KeepInv'
<1> SUFFICES ASSUME TypeInv, KeepInv, [Next]_vars PROVE KeepInv'
  OBVIOUS
<1>0. /\ UNCHANGED <<drop, only, wanted, before>>
      /\ "source" \in pruned => "source" \in pruned'
  BY DEF Next, vars, args, scopeVars, Terminated, TakeSafety, GetManifest, OpenStore,
         StartCollection, InsertDoc, AllInserted, RecreateIndexes, Complete,
         SafetyFails, Fail, DropFails, Crash, GC
<1> SUFFICES ASSUME ~drop PROVE AddsOnly' /\ ("source" \notin pruned' => AddsAll')
  BY <1>0 DEF KeepInv
<1>a. AddsOnly /\ ("source" \notin pruned => AddsAll)
  BY DEF KeepInv
<1>b. /\ Selected' = Selected /\ \A c : Given(c)' = Given(c)
      /\ Selected \subseteq Colls
      /\ live \in [Colls -> Content]
  BY <1>0 DEF Selected, Given, TypeInv, TypeOK, SnapshotContent
<1> USE <1>0, <1>a, <1>b DEF Goto, scopeVars, args
<1>1. CASE TakeSafety
  BY <1>1 DEF TakeSafety, AddsOnly, AddsAll, Missing, History!Publish
<1>2. CASE GetManifest
  <2>1. names' = {c \in DOMAIN history["source"] : only \in {c, All}} /\ "source" \in DOMAIN history
    BY <1>2 DEF GetManifest, Snapshot, AddsOnly
  <2>2. names' = Selected
    BY <2>1 DEF AddsOnly, Selected
  <2> QED BY <1>2, <2>2 DEF GetManifest, AddsOnly, AddsAll
<1>3. CASE OpenStore
  BY <1>3 DEF OpenStore, AddsOnly, AddsAll
<1>4. ASSUME NEW c \in Colls, StartCollection(c)
      PROVE  AddsOnly' /\ ("source" \notin pruned' => AddsAll')
  <2>1. live' = live /\ c \in names /\ names' = names \ {c} /\ pc = "next"
    BY <1>4 DEF StartCollection, Dropping, AddsOnly
  <2>2. c \in Selected
    BY <2>1 DEF AddsOnly
  <2>3. Refs(c) \subseteq wanted[c] /\ ("source" \notin pruned => Refs(c) = wanted[c])
    BY DEF Refs, Snapshot, AddsOnly, AddsAll
  <2> QED BY <1>4, <2>1, <2>2, <2>3 DEF StartCollection, AddsOnly, AddsAll, Missing
<1>5. ASSUME NEW d \in Keys \X Vals, InsertDoc(d)
      PROVE  AddsOnly' /\ ("source" \notin pruned' => AddsAll')
  <2>1. /\ pc = "insert" /\ coll \in Selected /\ d \in wanted[coll]
        /\ live' = [live EXCEPT ![coll] = @ \cup {d}]
    BY <1>5 DEF InsertDoc, AddsOnly
  <2>2. AddsOnly'
    BY <1>5, <2>1 DEF InsertDoc, AddsOnly, Given
  <2>3. "source" \notin pruned => AddsAll'
    BY <1>5, <2>1 DEF InsertDoc, AddsAll, Missing
  <2> QED BY <1>5, <2>2, <2>3 DEF InsertDoc
<1>6. CASE AllInserted \/ RecreateIndexes
  BY <1>6 DEF AllInserted, RecreateIndexes, AddsOnly, AddsAll, Missing
<1>7. CASE Complete
  BY <1>7 DEF Complete, AddsOnly, AddsAll, Missing
<1>8. CASE SafetyFails \/ Crash
  BY <1>8 DEF SafetyFails, Crash, AddsOnly, AddsAll, Missing
<1>9. CASE Fail
  BY <1>9 DEF Fail, Return, AddsOnly, AddsAll, Missing
<1>10. CASE DropFails
  BY <1>10 DEF DropFails, Dropping, AddsOnly
<1>11. CASE GC
  BY <1>11 DEF GC, History!Prune, AddsOnly, AddsAll, Missing
<1>12. CASE UNCHANGED vars
  BY <1>12 DEF vars, AddsOnly, AddsAll, Missing
<1> QED
  BY <1>1, <1>2, <1>3, <1>4, <1>5, <1>6, <1>7, <1>8, <1>9, <1>10, <1>11, <1>12
     DEF Next, Terminated

\* A restore without --drop only adds documents of the snapshot: it never loses or
\* changes one of the live database, in whatever way it ends, and leaves none out
\* when it reports success, unless a GC pruned the snapshot under it.
THEOREM NonDestructiveAlways == Spec => []NonDestructive
<1>1. Init => KeepInv
  BY DEF Init, KeepInv, AddsOnly, AddsAll, Given, Missing
<1>2. TypeInv /\ KeepInv /\ [Next]_vars => KeepInv'
  BY KeepInvInductive
<1>3. KeepInv => NonDestructive
  <2> SUFFICES ASSUME KeepInv, ~drop
               PROVE  \A c \in Colls : /\ before[c] \subseteq live[c]
                                       /\ live[c] \subseteq before[c] \cup Given(c)
                                       /\ pc = "done" /\ "source" \notin pruned =>
                                             Given(c) \subseteq live[c]
    BY DEF NonDestructive
  <2>1. \A c \in Colls : before[c] \subseteq live[c] /\ live[c] \subseteq before[c] \cup Given(c)
    BY DEF KeepInv, AddsOnly
  <2>2. ASSUME pc = "done", "source" \notin pruned, NEW c \in Colls
        PROVE  Given(c) \subseteq live[c]
    <3>1. AddsAll
      BY <2>2 DEF KeepInv
    <3>2. names = {} /\ Missing(c) = {}
      BY <2>2, <3>1 DEF AddsAll, Missing
    <3>3. c \in Selected => wanted[c] \subseteq live[c] \cup Missing(c)
      BY <2>2, <3>1, <3>2 DEF AddsAll
    <3> QED BY <3>2, <3>3 DEF Given
  <2> QED BY <2>1, <2>2
<1> QED BY <1>1, <1>2, <1>3, TypeInvAlways, PTL DEF Spec

-----------------------------------------------------------------------------
\* The live database is as before until Touched names the first collection, and
\* once it does the first call of Restore cannot simply fail.
TouchInv ==
    drop => /\ phase = "restore" /\ touched = {} => live = before
            /\ phase = "restore" /\ pc \in {"insert", "indexes"} => touched # {}
            /\ pc \in {"safety", "failed"} => phase = "restore" /\ touched = {}

LEMMA TouchInvInductive == TypeInv /\ TouchInv /\ [Next]_vars => TouchInv'
<1> SUFFICES ASSUME TypeInv, TouchInv, [Next]_vars PROVE TouchInv'
  OBVIOUS
<1> USE DEF TouchInv, TypeInv, TypeOK, Running, Goto, scopeVars, args
<1>1. CASE TakeSafety \/ GetManifest \/ OpenStore \/ GC
  BY <1>1 DEF TakeSafety, GetManifest, OpenStore, GC
<1>2. ASSUME NEW c \in Colls, StartCollection(c) PROVE TouchInv'
  BY <1>2 DEF StartCollection, Touch
<1>3. ASSUME NEW d \in Keys \X Vals, InsertDoc(d) PROVE TouchInv'
  BY <1>3 DEF InsertDoc
<1>4. CASE AllInserted \/ RecreateIndexes \/ Complete \/ SafetyFails \/ Crash
  BY <1>4 DEF AllInserted, RecreateIndexes, Complete, SafetyFails, Crash
<1>5. CASE Fail
  BY <1>5 DEF Fail, Return
<1>6. CASE DropFails
  BY <1>6 DEF DropFails, Return
<1>7. CASE UNCHANGED vars
  BY <1>7 DEF vars
<1> QED
  BY <1>1, <1>2, <1>3, <1>4, <1>5, <1>6, <1>7 DEF Next, Terminated

\* Where a dropping restore reports a failure and does not roll back, the live
\* database is as it was.
THEOREM FailedUntouchedAlways == Spec => []FailedUntouched
<1>1. Init => TouchInv
  BY DEF Init, TouchInv
<1>2. TypeInv /\ TouchInv /\ [Next]_vars => TouchInv'
  BY TouchInvInductive
<1>3. TouchInv => FailedUntouched
  BY DEF TouchInv, FailedUntouched
<1> QED BY <1>1, <1>2, <1>3, TypeInvAlways, PTL DEF Spec

-----------------------------------------------------------------------------
InSafety(c) == IF c \in DOMAIN history["safety"] THEN history["safety"][c] ELSE {}

\* Before the safety snapshot nothing changes; after it the snapshot holds what
\* was there.
SafetyInv ==
    drop /\ "safety" \notin pruned =>
        \/ /\ pc \in {"safety", "failed", "crashed"}
           /\ "safety" \notin DOMAIN history
           /\ live = before
        \/ /\ "safety" \in DOMAIN history
           /\ \A c \in Colls : before[c] = InSafety(c)

LEMMA SafetyInvInductive == TypeInv /\ SafetyInv /\ [Next]_vars => SafetyInv'
<1> SUFFICES ASSUME TypeInv, SafetyInv, [Next]_vars, drop, "safety" \notin pruned'
             PROVE  SafetyInv'
  BY DEF SafetyInv, Next, vars, args, Terminated, TakeSafety, GetManifest, OpenStore,
         StartCollection, InsertDoc, AllInserted, RecreateIndexes, Complete,
         SafetyFails, Fail, DropFails, Crash, GC
<1> USE DEF SafetyInv, InSafety, Goto, scopeVars, args
<1>1. CASE TakeSafety
  <2>1. PICK existing \in SUBSET Colls :
           /\ \A c \in Colls \ existing : live[c] = {}
           /\ History!Publish("safety", [c \in existing |-> live[c]])
    BY <1>1 DEF TakeSafety
  <2>2. "safety" \notin DOMAIN history /\ live = before
    BY <1>1, <2>1 DEF TakeSafety, History!Publish
  <2>3. history'["safety"] = [c \in existing |-> live[c]]
    BY <2>1 DEF History!Publish
  <2> QED BY <1>1, <2>1, <2>2, <2>3 DEF TakeSafety, History!Publish
<1>2. CASE GetManifest \/ OpenStore
  BY <1>2 DEF GetManifest, OpenStore
<1>3. ASSUME NEW c \in Colls, StartCollection(c) PROVE SafetyInv'
  BY <1>3 DEF StartCollection
<1>4. ASSUME NEW d \in Keys \X Vals, InsertDoc(d) PROVE SafetyInv'
  BY <1>4 DEF InsertDoc
<1>5. CASE AllInserted \/ RecreateIndexes \/ Complete \/ SafetyFails \/ Crash
  BY <1>5 DEF AllInserted, RecreateIndexes, Complete, SafetyFails, Crash
<1>6. CASE Fail \/ DropFails
  BY <1>6 DEF Fail, DropFails, Return
<1>7. CASE GC
  BY <1>7 DEF GC, History!Prune
<1>8. CASE UNCHANGED vars
  BY <1>8 DEF vars
<1> QED
  BY <1>1, <1>2, <1>3, <1>4, <1>5, <1>6, <1>7, <1>8 DEF Next, Terminated

\* As long as no GC prunes the safety snapshot, what a dropping restore has
\* overwritten is in it at every moment, a crash included.
THEOREM PriorStateKeptAlways == Spec => []PriorStateKept
<1>1. Init => SafetyInv
  BY DEF Init, SafetyInv
<1>2. TypeInv /\ SafetyInv /\ [Next]_vars => SafetyInv'
  BY SafetyInvInductive
<1>3. SafetyInv => PriorStateKept
  BY DEF SafetyInv, InSafety, PriorStateKept, PriorStateRecoverable
<1> QED BY <1>1, <1>2, <1>3, TypeInvAlways, PTL DEF Spec

-----------------------------------------------------------------------------
\* What a dropping restore has done so far: the selected collections that are not
\* among the remaining names have the snapshot's content, the one in hand will
\* have it when nothing is pending, and all others are as before.
Underway == pc \in {"insert", "indexes"}

Progress ==
    /\ names \subseteq Selected
    /\ \A c \in Colls : c \notin Selected \/ c \in names => live[c] = before[c]
    /\ \A c \in Selected \ names : live[c] = wanted[c] \/ (Underway /\ c = coll)
    /\ Underway => coll \in Selected \ names
    /\ pc = "insert" => live[coll] \cup pending = wanted[coll]
    /\ pc = "indexes" => live[coll] = wanted[coll]
    /\ pc = "done" => names = {}

ExactInv ==
    /\ pc = "done" => phase = "restore"
    /\ drop /\ "source" \notin pruned /\ phase = "restore" =>
          /\ "source" \in DOMAIN history /\ history["source"] = wanted
          /\ pc \in {"safety", "get", "open"} => live = before
          /\ pc = "open" => names = Selected
          /\ pc \in {"next", "insert", "indexes", "done"} => Progress

LEMMA ExactInvInductive == TypeInv /\ ExactInv /\ [Next]_vars => ExactInv'
<1> SUFFICES ASSUME TypeInv, ExactInv, [Next]_vars PROVE ExactInv'
  OBVIOUS
<1>0. live \in [Colls -> Content] /\ Selected \subseteq Colls /\ Selected = Selected'
  <2>1. wanted' = wanted /\ only' = only
    BY DEF Next, vars, args, Terminated, TakeSafety, GetManifest, OpenStore,
           StartCollection, InsertDoc, AllInserted, RecreateIndexes, Complete,
           SafetyFails, Fail, DropFails, Crash, GC
  <2> QED BY <2>1 DEF TypeInv, TypeOK, Selected, SnapshotContent
<1> USE DEF ExactInv, Underway, Goto, scopeVars, args
<1>1. CASE TakeSafety
  BY <1>1 DEF TakeSafety, History!Publish
<1>2. CASE GetManifest
  BY <1>2 DEF GetManifest, Snapshot, Selected
<1>3. CASE OpenStore
  BY <1>0, <1>3 DEF OpenStore, Progress
<1>4. ASSUME NEW c \in Colls, StartCollection(c) PROVE ExactInv'
  <2> SUFFICES ASSUME drop, "source" \notin pruned, phase = "restore"
               PROVE  Progress'
    BY <1>4 DEF StartCollection
  <2>1. Progress /\ Refs(c) = wanted[c] /\ c \in names
    BY <1>4 DEF StartCollection, Refs, Snapshot
  <2>2. c \in Selected
    BY <2>1 DEF Progress
  <2>3. live' = [live EXCEPT ![c] = {}]
    BY <1>4 DEF StartCollection, Dropping
  <2> QED BY <1>0, <1>4, <2>1, <2>2, <2>3 DEF StartCollection, Progress
<1>5. ASSUME NEW d \in Keys \X Vals, InsertDoc(d) PROVE ExactInv'
  BY <1>0, <1>5 DEF InsertDoc, Progress
<1>6. CASE AllInserted \/ RecreateIndexes
  BY <1>0, <1>6 DEF AllInserted, RecreateIndexes, Progress
<1>7. CASE Complete
  BY <1>0, <1>7 DEF Complete, Progress
<1>8. CASE SafetyFails \/ Crash
  BY <1>8 DEF SafetyFails, Crash
<1>9. CASE Fail \/ DropFails
  BY <1>9 DEF Fail, DropFails, Return
<1>10. CASE GC
  BY <1>0, <1>10 DEF GC, History!Prune, Progress
<1>11. CASE UNCHANGED vars
  BY <1>0, <1>11 DEF vars, Progress
<1> QED
  BY <1>1, <1>2, <1>3, <1>4, <1>5, <1>6, <1>7, <1>8, <1>9, <1>10, <1>11
     DEF Next, Terminated

\* A dropping restore that reports success has made the selected collections what
\* the snapshot holds and left the others alone, unless a GC pruned the snapshot
\* under it.
THEOREM KeptIsRestoredExactlyAlways == Spec => []KeptIsRestoredExactly
<1>1. Init => ExactInv
  BY DEF Init, ExactInv
<1>2. TypeInv /\ ExactInv /\ [Next]_vars => ExactInv'
  BY ExactInvInductive
<1>3. TypeInv /\ ExactInv => KeptIsRestoredExactly
  <2> SUFFICES ASSUME TypeInv, ExactInv, "source" \notin pruned, pc = "done", drop
               PROVE  live = [c \in Colls |-> IF c \in Selected THEN wanted[c]
                                                                ELSE before[c]]
    BY DEF KeptIsRestoredExactly, RestoredExactly
  <2>1. Progress
    BY DEF ExactInv
  <2>2. \A c \in Colls : live[c] = IF c \in Selected THEN wanted[c] ELSE before[c]
    BY <2>1 DEF Progress, Underway
  <2> QED BY <2>2 DEF TypeInv, TypeOK
<1> QED BY <1>1, <1>2, <1>3, TypeInvAlways, PTL DEF Spec
-----------------------------------------------------------------------------
\* The rollback restores all of the safety snapshot: the collections of it that
\* are not among the remaining names are as before, the one in hand will be when
\* nothing is pending.
KeptInSafety(c) == c \in DOMAIN history["safety"] => live[c] = before[c]

RollbackInv ==
    /\ pc = "safety" => /\ phase = "restore"
                        /\ "safety" \notin pruned \cup DOMAIN history
    /\ "safety" \in pruned => "safety" \notin DOMAIN history
    /\ phase = "rollback" => drop /\ pc # "done"
    /\ pc = "rolledBack" => phase = "rollback"
    /\ pc \in {"next", "insert", "indexes"} => storeOpen
    /\ phase = "rollback" /\ "safety" \in DOMAIN history =>
          /\ pc = "open" => names = DOMAIN history["safety"]
          /\ pc \in {"next", "insert", "indexes"} =>
                \A c \in Colls \ names : KeptInSafety(c) \/ (c = coll /\ pc = "insert")
          /\ pc = "insert" => coll \notin names /\ live[coll] \cup pending = before[coll]
          /\ pc = "rolledBack" => \A c \in Colls : KeptInSafety(c)

LEMMA RollbackInvInductive ==
    TypeInv /\ NamesInv /\ SafetyInv /\ RollbackInv /\ [Next]_vars => RollbackInv'
<1> SUFFICES ASSUME TypeInv, NamesInv, SafetyInv, RollbackInv, [Next]_vars
             PROVE  RollbackInv'
  OBVIOUS
<1> USE DEF RollbackInv, KeptInSafety, TypeInv, TypeOK, Goto, scopeVars, args
<1>1. CASE TakeSafety
  BY <1>1 DEF TakeSafety, History!Publish
<1>2. CASE GetManifest
  BY <1>2 DEF GetManifest, Snapshot
<1>3. CASE OpenStore
  BY <1>3 DEF OpenStore
<1>4. ASSUME NEW c \in Colls, StartCollection(c) PROVE RollbackInv'
  <2>1. CASE phase = "rollback" /\ "safety" \in DOMAIN history
    <3>1. "safety" \notin pruned /\ drop
      BY <2>1
    <3>2. c \in DOMAIN history["safety"]
      BY <1>4, <2>1 DEF StartCollection, NamesInv, Snapshot
    <3>3. Refs(c) = before[c]
      BY <2>1, <3>1, <3>2 DEF SafetyInv, InSafety, Refs, Snapshot
    <3>4. live' = [live EXCEPT ![c] = {}]
      BY <1>4, <2>1 DEF StartCollection, Dropping
    <3> QED BY <1>4, <2>1, <3>3, <3>4 DEF StartCollection
  <2>2. CASE ~(phase = "rollback" /\ "safety" \in DOMAIN history)
    BY <1>4, <2>2 DEF StartCollection
  <2> QED BY <2>1, <2>2
<1>5. ASSUME NEW d \in Keys \X Vals, InsertDoc(d) PROVE RollbackInv'
  BY <1>5 DEF InsertDoc
<1>6. CASE AllInserted \/ RecreateIndexes
  BY <1>6 DEF AllInserted, RecreateIndexes
<1>7. CASE Complete
  BY <1>7 DEF Complete
<1>8. CASE SafetyFails \/ Crash
  BY <1>8 DEF SafetyFails, Crash
<1>9. CASE Fail \/ DropFails
  BY <1>9 DEF Fail, DropFails, Return
<1>10. CASE GC
  <2>1. PICK i \in Ids : History!Prune(i) /\ pruned' = pruned \cup {i}
    BY <1>10 DEF GC
  <2>2. DOMAIN history' = DOMAIN history \ {i} /\ i \in DOMAIN history
    BY <2>1 DEF History!Prune
  <2>3. "safety" \in DOMAIN history' => history'["safety"] = history["safety"]
    BY <2>1 DEF History!Prune
  <2> QED BY <1>10, <2>1, <2>2, <2>3 DEF GC
<1>11. CASE UNCHANGED vars
  BY <1>11 DEF vars
<1> QED
  BY <1>1, <1>2, <1>3, <1>4, <1>5, <1>6, <1>7, <1>8, <1>9, <1>10, <1>11
     DEF Next, Terminated

\* An automatic rollback that reports success has given every collection of the
\* safety snapshot the content it had before the restore began.
THEOREM RolledBackCollectionsAlways == Spec => []RolledBackCollections
<1>1. Init => SafetyInv /\ RollbackInv
  BY DEF Init, SafetyInv, RollbackInv
<1>2. TypeInv /\ NamesInv /\ SafetyInv /\ RollbackInv /\ [Next]_vars
         => (SafetyInv /\ RollbackInv)'
  BY SafetyInvInductive, RollbackInvInductive
<1>3. TypeInv /\ RollbackInv => RolledBackCollections
  <2> SUFFICES ASSUME TypeInv, RollbackInv, pc = "rolledBack", "safety" \in DOMAIN history,
                      NEW c \in DOMAIN history["safety"]
               PROVE  live[c] = before[c]
    BY DEF RolledBackCollections
  <2>1. c \in Colls
    BY DEF TypeInv, TypeOK, SnapshotContent
  <2> QED BY <2>1 DEF RollbackInv, KeptInSafety
<1> QED BY <1>1, <1>2, <1>3, TypeInvAlways, PTL DEF Spec

-----------------------------------------------------------------------------
(***************************************************************************)
(* The same for SQL snapshots: what a restore leaves in the tables and on  *)
(* the session's connections.                                              *)
(***************************************************************************)
Worklists == {Tables, <<"child">>, <<"parent">>, <<>>}
Conns     == [checks : BOOLEAN, tenant : BOOLEAN]
RowSet    == [key : 1..5, val : {"bytes", "plain", "base64"}]

\* Where a restore can be.
StageInv ==
    /\ stage \in {"safety", "restore", "rollback", "restored", "rolledBack", "failed"}
    /\ step \in {"get", "open", "schema", "disable", "clear", "read", "insert", "enable"}
    /\ todo \in Worklists /\ failed \in BOOLEAN /\ dropping \in BOOLEAN
    /\ stage \notin {"restore", "rollback"} \/ todo = <<>> => step \in {"get", "open", "schema"}
    /\ stage = "safety" => step = "get"
    /\ stage \in {"safety", "rollback", "rolledBack"} \/ step = "clear" => dropping
    /\ stage = "restore" => todo # <<>>
    /\ stage \in {"restored", "rolledBack"} => todo = <<>>
    /\ failed => step = "enable"
    /\ touchedTables \subseteq Names /\ cleared \subseteq touchedTables
    /\ (cleared # {} => dropping)

\* The pool; as long as nobody else uses the session, it is the connection that Open
\* prepared, with its checks off while a table is being restored.
PoolInv ==
    /\ pool \in Seq(Conns) /\ held \in [kind : {"conn"}, conn : Conns] \cup {None}
    /\ bare \in BOOLEAN /\ disturbed \in Nat
    /\ Len(pool) + (IF held = None THEN 0 ELSE 1) <= MaxOpen
    /\ disturbed = 0 =>
         /\ held = None /\ Len(pool) = 1 /\ pool[1].tenant /\ ~bare
         /\ step \in {"clear", "read", "insert", "enable"} => ~pool[1].checks
         /\ step \in {"get", "open", "schema", "disable"} /\ "enable" \notin faults => pool[1].checks
    /\ written \subseteq {3, 5} /\ (disturbed = 0 => written = {})
    /\ deleted \subseteq {"source", "safety"}

\* Two tables agree on the rows that no other client wrote.
Agree(keys, a, b) == \A r \in RowSet : r.key \notin keys => (r \in a <=> r \in b)
Same(a, b) == Agree(written, a, b)

\* What the safety snapshot holds.
Unchanged(rows) == \A r \in rows : r.val = Value

SavedInv ==
    /\ db \in [Databases -> [Names -> SUBSET RowSet]] /\ target \in Databases
    /\ safety # None => \A t \in Names : safety.rows[t] \in SUBSET RowSet /\ Unchanged(safety.rows[t])
    /\ stage = "safety" =>
         /\ cleared = {} /\ touchedTables = {}
         /\ safety = None => todo = Tables
         /\ safety # None => safety.tables = (Names \ ToSet(todo)) \ keyless
         /\ \A t \in Names : Same(db["home"][t], Live("home", t))
         /\ \A d \in Databases, t \in Names : Unchanged(db[d][t])
    /\ safety # None /\ target = "home" =>
         \A t \in safety.tables : Same(safety.rows[t], Live("home", t))
    /\ dropping /\ (stage \in {"restore", "rollback", "restored", "rolledBack"} \/ cleared # {}) =>
         safety # None /\ safety.tables = Names \ keyless

\* What the tables hold: what was there before, unless it was cleared, and the rows
\* that have been read and inserted; nothing is read of a snapshot that is gone.
Base(t) == IF dropping THEN {} ELSE Live("home", t)
ReadBy  == IF stage \in {"restore", "restored"} THEN "source" ELSE "safety"
From(t) == IF ReadBy \in deleted THEN {}
           ELSE IF stage \in {"restore", "restored"} THEN Stored(t) ELSE safety.rows[t]
With(t, rest) == Base(t) \cup {Literal(r) : r \in From(t) \ rest}
Due     == IF stage \in {"restore", "restored"} THEN Names ELSE safety.tables

TableInv ==
    /\ stage \in {"restore", "restored", "rollback", "rolledBack"} =>
         \A t \in Due \ ToSet(todo) : Same(db["home"][t], With(t, {}))
    /\ stage \in {"restore", "rollback"} /\ step \in {"get", "open"} => Due \subseteq ToSet(todo)
    /\ stage \in {"restore", "rollback"} /\ todo # <<>> =>
         LET t == Head(todo)
         IN /\ step = "read" => Same(db["home"][t], Base(t))
            /\ step = "insert" => refs \subseteq From(t) /\ Same(db["home"][t], With(t, refs))
            /\ step = "enable" /\ ~failed => Same(db["home"][t], With(t, {}))
    /\ ~dropping /\ stage = "restore" => \A t \in ToSet(todo) :
         (t = Head(todo) /\ step \in {"insert", "enable"}) \/ Same(db["home"][t], Live("home", t))

IndexInv ==
    engine # "mysql" /\ stage \in {"restore", "restored"} =>
        ("parent" \in ToSet(todo) /\ ~(Head(todo) = "parent" /\ step = "enable" /\ ~failed))
        \/ "home" \in indexed

\* Without a fault and other users a restore that clears the tables does not fail.
CalmInv ==
    /\ clash => ~dropping
    /\ dropping /\ disturbed = 0 /\ faults = {} /\ "source" \notin deleted => ~failed /\ stage \notin {"rollback", "rolledBack", "failed"}

SqlInv == StageInv /\ PoolInv /\ SavedInv /\ TableInv /\ IndexInv /\ CalmInv
LEMMA NamesAre == Names = {"child", "parent"} /\ ToSet(Tables) = Names /\ ToSet(<<>>) = {}
BY DEF Names, Tables, ToSet

LEMMA WorkLists ==
    /\ Tables \in Worklists /\ <<>> \in Worklists /\ Tables # <<>>
    /\ \A w \in Worklists : /\ ToSet(w) \subseteq Names
                            /\ w # <<>> => /\ Head(w) \in ToSet(w) /\ Tail(w) \in Worklists
                                           /\ ToSet(Tail(w)) = ToSet(w) \ {Head(w)}
                            /\ ToSet(w) = {} => w = <<>>
<1>1. Tables \in Worklists /\ <<>> \in Worklists /\ Tables # <<>>
  BY DEF Worklists, Tables
<1>2. ASSUME NEW w \in Worklists
      PROVE  /\ ToSet(w) \subseteq Names
             /\ w # <<>> => /\ Head(w) \in ToSet(w) /\ Tail(w) \in Worklists
                            /\ ToSet(Tail(w)) = ToSet(w) \ {Head(w)}
             /\ ToSet(w) = {} => w = <<>>
  <2>1. CASE w = Tables
    <3>1. Head(w) = "child" /\ Tail(w) = <<"parent">> /\ ToSet(w) = {"child", "parent"}
      BY <2>1, NamesAre DEF Tables
    <3>2. ToSet(<<"parent">>) = {"parent"}
      BY DEF ToSet
    <3> QED BY <3>1, <3>2, NamesAre DEF Worklists
  <2>2. CASE w = <<"child">> \/ w = <<"parent">>
    <3>1. PICK t \in Names : w = <<t>>
      BY <2>2, NamesAre
    <3>2. Head(w) = t /\ Tail(w) = <<>> /\ ToSet(w) = {t}
      BY <3>1 DEF ToSet
    <3> QED BY <3>1, <3>2, NamesAre DEF Worklists
  <2>3. CASE w = <<>>
    BY <2>3, NamesAre
  <2> QED BY <2>1, <2>2, <2>3 DEF Worklists
<1> QED BY <1>1, <1>2

LEMMA InOrderLists == \A tables \in SUBSET Names :
    InOrder(tables) \in Worklists /\ ToSet(InOrder(tables)) = tables
<1> SUFFICES ASSUME NEW tables \in SUBSET Names
             PROVE  \E list \in Worklists : ToSet(list) = tables
  BY DEF InOrder, Worklists
<1>1. ToSet(<<"child">>) = {"child"} /\ ToSet(<<"parent">>) = {"parent"}
  BY DEF ToSet
<1>2. tables = {} \/ tables = {"child"} \/ tables = {"parent"} \/ tables = Names
  BY NamesAre
<1> QED BY <1>1, <1>2, NamesAre DEF Worklists

LEMMA FrontOfPool ==
    ASSUME PoolInv, pool # <<>>
    PROVE  Front(pool) \in Seq(Conns) /\ Len(Front(pool)) = Len(pool) - 1 /\ Last(pool) \in Conns
<1>1. pool \in Seq(Conns) /\ Len(pool) \in Nat /\ Len(pool) > 0
  BY DEF PoolInv
<1>2. PICK n : n = Len(pool) - 1
  OBVIOUS
<1>3. n \in Nat /\ n <= Len(pool)
  BY <1>1, <1>2
<1>4. SubSeq(pool, 1, n) \in Seq(Conns) /\ Len(SubSeq(pool, 1, n)) = n
  BY <1>1, <1>3
<1> QED BY <1>1, <1>2, <1>4 DEF Front, Last

\* What a statement does to the pool.
LEMMA Statement ==
    ASSUME PoolInv, NEW conn, Conn \in Conns => conn \in Conns, Exec(conn)
    PROVE  /\ Conn \in Conns /\ conn \in Conns
           /\ pool' \in Seq(Conns) /\ held' = held /\ bare' \in BOOLEAN
           /\ Len(pool') + (IF held = None THEN 0 ELSE 1) <= MaxOpen
           /\ disturbed = 0 => /\ Conn = pool[1] /\ Conn.tenant
                               /\ Len(pool') = 1 /\ pool'[1] = conn /\ ~bare'
<1>1. Len(pool) \in Nat /\ (pool # <<>> <=> Len(pool) > 0)
  BY DEF PoolInv
<1>2. Conn \in Conns
  <2>1. CASE pool # <<>>
    BY <1>1, <2>1 DEF PoolInv, Conn, Last
  <2>2. CASE pool = <<>>
    BY <2>2 DEF Conn, Fresh, Conns
  <2> QED BY <2>1, <2>2
<1>3. conn \in Conns
  BY <1>2
<1>4. CASE pool # <<>>
  <2>1. Front(pool) \in Seq(Conns) /\ Len(Front(pool)) = Len(pool) - 1
    BY <1>4, FrontOfPool
  <2>2. pool' = Append(Front(pool), conn) /\ held' = held /\ bare' = (bare \/ ~Conn.tenant)
    BY <1>4 DEF Exec
  <2>3. pool' \in Seq(Conns) /\ Len(pool') = Len(pool) /\ pool'[Len(pool)] = conn
    BY <1>1, <1>3, <2>1, <2>2
  <2>4. Conn = pool[Len(pool)]
    BY <1>4 DEF Conn, Last
  <2> QED BY <1>2, <1>3, <2>2, <2>3, <2>4 DEF PoolInv
<1>5. CASE pool = <<>>
  <2>1. pool' = <<conn>> /\ held' = held /\ bare' = (bare \/ ~Conn.tenant)
    BY <1>5 DEF Exec
  <2>2. pool' \in Seq(Conns) /\ Len(pool') = 1
    BY <1>3, <2>1
  <2>3. held = None \/ MaxOpen > 1
    BY <1>5 DEF Exec, CanRun
  <2>4. bare' \in BOOLEAN
    BY <2>1, <1>2 DEF PoolInv, Conns
  <2>5. disturbed # 0
    BY <1>5, <1>1 DEF PoolInv
  <2> QED BY <1>2, <1>3, <2>1, <2>2, <2>3, <2>4, <2>5 DEF MaxOpen
<1> QED BY <1>4, <1>5

-----------------------------------------------------------------------------
\* The steps of the restore, but for what they do to the tables.

LEMMA AbandonStage ==
    ASSUME StageInv, Abandon, stage \in {"restore", "rollback"},
           UNCHANGED <<dropping, cleared, touchedTables>>
    PROVE  StageInv'
<1>1. InOrder({t \in Names : Saved(t)}) \in Worklists
  BY InOrderLists
<1> QED BY <1>1 DEF StageInv, Abandon

LEMMA StageStep == SqlInv /\ [SqlNext]_sqlVars => StageInv'
<1> SUFFICES ASSUME SqlInv, [SqlNext]_sqlVars PROVE StageInv'
  OBVIOUS
<1>0. /\ StageInv
      /\ todo # <<>> => Head(todo) \in Names /\ Tail(todo) \in Worklists
      /\ Tables \in Worklists /\ Tables # <<>>
  BY WorkLists DEF SqlInv, StageInv
<1> USE <1>0 DEF StageInv
<1>1. CASE ScanTable \/ ScanFails \/ Publish
  <2>1. CASE ScanTable
    BY <2>1 DEF ScanTable, request
  <2>2. CASE ScanFails
    BY <2>2 DEF ScanFails, request
  <2>3. CASE Publish
    BY <2>3 DEF Publish, request, data
  <2> QED BY <1>1, <2>1, <2>2, <2>3
<1>2. CASE ReadManifest \/ OpenBackend \/ LoadSchema
  <2>1. CASE ReadManifest
    BY <2>1, AbandonStage DEF ReadManifest, Calling, GoTo, request, data
  <2>2. CASE OpenBackend
    BY <2>2 DEF OpenBackend, Calling, GoTo, request, data
  <2>3. CASE LoadSchema
    BY <2>3 DEF LoadSchema, At, Restoring, Calling, GoTo, request, data
  <2> QED BY <1>2, <2>1, <2>2, <2>3
<1>3. CASE DisableChecks
  BY <1>3 DEF DisableChecks, At, Restoring, Calling, GoTo, Clearing, request, data
<1>4. CASE PrepareFails
  BY <1>4, AbandonStage DEF PrepareFails, At, Restoring, Calling, request, data
<1>5. CASE Clear
  BY <1>5 DEF Clear, At, Restoring, Calling, GoTo, BodyFails, request
<1>6. CASE ReadRefs
  BY <1>6 DEF ReadRefs, At, Restoring, Calling, GoTo, request, data
<1>7. CASE InsertBatch
  BY <1>7 DEF InsertBatch, At, Restoring, Calling, GoTo, BodyFails, request
<1>8. CASE Reindex
  BY <1>8 DEF Reindex, At, Restoring, Calling, GoTo, BodyFails, request
<1>9. CASE StatementFails
  BY <1>9 DEF StatementFails, At, Restoring, Calling, GoTo, BodyFails, request
<1>10. CASE EnableChecks
  <2>1. UNCHANGED <<dropping, cleared, touchedTables>> /\ stage \in {"restore", "rollback"} /\ todo # <<>>
    BY <1>10 DEF EnableChecks, At, Restoring, Calling, request, data
  <2>2. CASE failed
    BY <1>10, <2>1, <2>2, AbandonStage DEF EnableChecks, AfterTable
  <2>3. CASE ~failed
    BY <1>10, <2>1, <2>3 DEF EnableChecks, AfterTable
  <2> QED BY <2>2, <2>3
<1>11. CASE EnableFails
  BY <1>11, AbandonStage DEF EnableFails, At, Restoring, Calling, request, data
<1>12. CASE NothingToRollBack
  BY <1>12 DEF NothingToRollBack, request, data
<1>13. CASE TakeConn \/ ReturnConn \/ LoseConn \/ OthersDelete \/ OthersInsert \/ GCDeletes
  BY <1>13 DEF TakeConn, ReturnConn, LoseConn, OthersDelete, OthersInsert, GCDeletes, request, data, control
<1>14. CASE UNCHANGED sqlVars
  BY <1>14 DEF sqlVars, request, data, control
<1> QED BY <1>1, <1>2, <1>3, <1>4, <1>5, <1>6, <1>7, <1>8, <1>9, <1>10, <1>11, <1>12, <1>13, <1>14
     DEF SqlNext, SafetyStep, TableStep

LEMMA PoolStep == SqlInv /\ [SqlNext]_sqlVars => PoolInv'
<1> SUFFICES ASSUME SqlInv, [SqlNext]_sqlVars PROVE PoolInv'
  OBVIOUS
<1> USE DEF SqlInv, PoolInv
\* A statement that leaves the checks as they are, or sets them.
<1>1. ASSUME NEW conn, Conn \in Conns => conn \in Conns, conn.tenant = Conn.tenant, Exec(conn),
             UNCHANGED <<disturbed, faults, engine, others>>,
             disturbed = 0 =>
               /\ step' \in {"clear", "read", "insert", "enable"} => ~conn.checks
               /\ step' \in {"get", "open", "schema", "disable"} /\ "enable" \notin faults => conn.checks
      PROVE  PoolInv'
  <2>1. /\ Conn \in Conns /\ conn \in Conns
        /\ pool' \in Seq(Conns) /\ held' = held /\ bare' \in BOOLEAN
        /\ Len(pool') + (IF held = None THEN 0 ELSE 1) <= MaxOpen
        /\ disturbed = 0 => /\ Conn = pool[1] /\ Conn.tenant
                            /\ Len(pool') = 1 /\ pool'[1] = conn /\ ~bare'
    BY <1>1, Statement
  <2>2. MaxOpen' = MaxOpen
    BY <1>1 DEF MaxOpen
  <2> QED BY <1>1, <2>1, <2>2 DEF others
\* A statement that leaves them as they are finds them as the step wants them.
<1>2. ASSUME Exec(Conn), UNCHANGED <<disturbed, faults, engine, others>>,
             step' = step \/ {step, step'} \subseteq {"clear", "read", "insert", "enable"}
                          \/ {step, step'} \subseteq {"get", "open", "schema", "disable"}
      PROVE  PoolInv'
  <2>1. disturbed = 0 => Conn = pool[1]
    BY <1>2, Statement
  <2>2. disturbed = 0 =>
          /\ step' \in {"clear", "read", "insert", "enable"} => ~Conn.checks
          /\ step' \in {"get", "open", "schema", "disable"} /\ "enable" \notin faults => Conn.checks
    BY <1>2, <2>1
  <2> QED BY <1>1, <1>2, <2>2
<1>3. ASSUME UNCHANGED <<pool, held, bare, disturbed, engine, others>>, faults \subseteq faults',
             disturbed = 0 =>
               /\ step' \in {"clear", "read", "insert", "enable"} => ~pool[1].checks
               /\ step' \in {"get", "open", "schema", "disable"} /\ "enable" \notin faults' => pool[1].checks
      PROVE  PoolInv'
  BY <1>3 DEF MaxOpen, others
<1>4. CASE ScanTable \/ LoadSchema \/ Clear \/ InsertBatch \/ Reindex
  <2>1. CASE ScanTable
    BY <2>1, <1>2 DEF ScanTable, request
  <2>2. CASE LoadSchema
    BY <2>2, <1>2 DEF LoadSchema, At, GoTo, request
  <2>3. CASE Clear
    <3>1. step' \in {"read", "enable"} /\ step = "clear"
      BY <2>3 DEF Clear, At, GoTo, BodyFails
    <3> QED BY <2>3, <3>1, <1>2 DEF Clear, request
  <2>4. CASE InsertBatch
    <3>1. step' \in {"insert", "enable"} /\ step = "insert"
      BY <2>4 DEF InsertBatch, At, GoTo, BodyFails
    <3> QED BY <2>4, <3>1, <1>2 DEF InsertBatch, request
  <2>5. CASE Reindex
    <3>1. step' = "enable" /\ step = "insert"
      BY <2>5 DEF Reindex, At, GoTo, BodyFails
    <3> QED BY <2>5, <3>1, <1>2 DEF Reindex, request
  <2> QED BY <1>4, <2>1, <2>2, <2>3, <2>4, <2>5
<1>5. CASE DisableChecks
  <2> DEFINE conn == [Conn EXCEPT !.checks = FALSE]
  <2>1. step' \in {"clear", "read"} /\ Exec(conn) /\ UNCHANGED <<disturbed, faults, engine, others>>
    BY <1>5 DEF DisableChecks, GoTo, request
  <2>2. Conn \in Conns => conn \in Conns /\ conn.tenant = Conn.tenant /\ ~conn.checks
    BY DEF Conns
  <2>3. Conn \in Conns
    BY <2>1, <2>2, Statement
  <2> HIDE DEF conn
  <2> QED BY <1>1, <2>1, <2>2, <2>3
<1>6. CASE EnableChecks
  <2> DEFINE conn == [Conn EXCEPT !.checks = TRUE]
  <2>1. step' \in {"get", "schema"} /\ Exec(conn) /\ UNCHANGED <<disturbed, faults, engine, others>>
    BY <1>6 DEF EnableChecks, AfterTable, Abandon, request
  <2>2. Conn \in Conns => conn \in Conns /\ conn.tenant = Conn.tenant /\ conn.checks
    BY DEF Conns
  <2>3. Conn \in Conns
    BY <2>1, <2>2, Statement
  <2> HIDE DEF conn
  <2> QED BY <1>1, <2>1, <2>2, <2>3
<1>7. CASE ScanFails \/ Publish \/ ReadManifest \/ OpenBackend \/ ReadRefs \/ NothingToRollBack
  <2>1. CASE ScanFails \/ Publish
    BY <1>3, <2>1 DEF ScanFails, Publish, Fails, request
  <2>2. CASE ReadManifest
    BY <1>3, <2>2 DEF ReadManifest, GoTo, Abandon, request
  <2>3. CASE OpenBackend
    BY <1>3, <2>3 DEF OpenBackend, GoTo, request
  <2>4. CASE ReadRefs \/ NothingToRollBack
    BY <1>3, <2>4 DEF ReadRefs, NothingToRollBack, At, GoTo, request
  <2> QED BY <1>7, <2>1, <2>2, <2>3, <2>4
<1>8. CASE PrepareFails \/ StatementFails \/ EnableFails
  <2>1. CASE PrepareFails
    BY <2>1, <1>3 DEF PrepareFails, At, Abandon, Fails, request
  <2>2. CASE StatementFails
    BY <2>2, <1>3 DEF StatementFails, At, BodyFails, GoTo, Fails, request
  <2>3. CASE EnableFails
    BY <2>3, <1>3 DEF EnableFails, At, Abandon, Fails, request
  <2> QED BY <1>8, <2>1, <2>2, <2>3
<1>9. CASE TakeConn \/ ReturnConn \/ LoseConn \/ OthersDelete \/ OthersInsert \/ GCDeletes
  <2>1. pool # <<>> => Front(pool) \in Seq(Conns) /\ Len(Front(pool)) = Len(pool) - 1 /\ Last(pool) \in Conns
    BY FrontOfPool
  <2>2. CASE TakeConn
    <3>1. held' \in [kind : {"conn"}, conn : Conns] /\ held' # None
      BY <2>1, <2>2 DEF TakeConn, None
    <3> QED BY <2>1, <2>2, <3>1 DEF TakeConn, Disturb, MaxOpen, request, others
  <2>3. CASE ReturnConn
    <3>1. held \in [kind : {"conn"}, conn : Conns]
      BY <2>3 DEF ReturnConn
    <3>2. held.conn \in Conns
      BY <3>1
    <3>3. pool' \in Seq(Conns) /\ Len(pool') = Len(pool) + 1
      BY <2>3, <3>2 DEF ReturnConn
    <3> QED BY <2>3, <3>3 DEF ReturnConn, MaxOpen, request, control, others
  <2>4. CASE LoseConn
    BY <2>1, <2>4 DEF LoseConn, Disturb, MaxOpen, request, control, others
  <2>5. CASE OthersDelete \/ OthersInsert
    <3>1. UNCHANGED <<pool, held, bare, deleted, engine>> /\ disturbed' = disturbed + 1 /\ written' \subseteq {3, 5}
      BY <2>5 DEF OthersDelete, OthersInsert, Disturb, request
    <3> QED BY <3>1 DEF MaxOpen
  <2>6. CASE GCDeletes
    BY <2>6 DEF GCDeletes, Reads, MaxOpen, request, control
  <2> QED BY <1>9, <2>2, <2>3, <2>4, <2>5, <2>6
<1>10. CASE UNCHANGED sqlVars
  BY <1>10, <1>3 DEF sqlVars, request, control
<1> QED BY <1>4, <1>5, <1>6, <1>7, <1>8, <1>9, <1>10 DEF SqlNext, SafetyStep, TableStep

-----------------------------------------------------------------------------
\* The safety snapshot.

LEMMA RowsTyped == \A t \in Names :
    /\ Live("home", t) \subseteq RowSet /\ Live("away", t) \subseteq RowSet /\ Stored(t) \subseteq RowSet
    /\ Unchanged(Live("home", t)) /\ Unchanged(Live("away", t)) /\ Unchanged(Stored(t))
    /\ Row(5, Value) \in RowSet /\ Row(5, Value).val = Value /\ Row(5, Value).key = 5
<1> SUFFICES ASSUME NEW t \in Names
             PROVE  /\ Live("home", t) \subseteq RowSet /\ Live("away", t) \subseteq RowSet
                    /\ Stored(t) \subseteq RowSet
                    /\ Unchanged(Live("home", t)) /\ Unchanged(Live("away", t)) /\ Unchanged(Stored(t))
                    /\ Row(5, Value) \in RowSet /\ Row(5, Value).val = Value /\ Row(5, Value).key = 5
  OBVIOUS
<1>1. Value \in {"bytes", "plain"}
  BY DEF Value
<1>2. \A k \in 1..5 : Row(k, Value) \in RowSet /\ Row(k, Value).val = Value /\ Row(k, Value).key = k
  BY <1>1 DEF Row, RowSet
<1>3. Live("home", t) = {Row(2, Value), Row(3, Value)} /\ Live("away", t) = {Row(4, Value)}
      /\ Stored(t) = {Row(1, Value)}
  BY DEF Live, Stored
<1>4. 1 \in 1..5 /\ 2 \in 1..5 /\ 3 \in 1..5 /\ 4 \in 1..5 /\ 5 \in 1..5
  OBVIOUS
<1> QED BY <1>2, <1>3, <1>4 DEF Unchanged

\* Where rows can be converted, those that nobody changed come back as they were.
LEMMA Converted == Convertible => \A r : r.val = Value => Literal(r) = r
BY DEF Convertible, Literal, Value

LEMMA AgreeLaws ==
    /\ \A keys, a : Agree(keys, a, a)
    /\ \A keys, a, b, c : Agree(keys, a, b) /\ Agree(keys, b, c) => Agree(keys, a, c)
    /\ \A keys, more, a, b : Agree(keys, a, b) /\ keys \subseteq more => Agree(more, a, b)
    /\ \A a, b \in SUBSET RowSet : Agree({}, a, b) => a = b
<1>1. \A a, b \in SUBSET RowSet : Agree({}, a, b) => a = b
  BY DEF Agree
<1>2. \A keys, a : Agree(keys, a, a)
  BY DEF Agree
<1>3. \A keys, a, b, c : Agree(keys, a, b) /\ Agree(keys, b, c) => Agree(keys, a, c)
  BY DEF Agree
<1>4. \A keys, more, a, b : Agree(keys, a, b) /\ keys \subseteq more => Agree(more, a, b)
  BY DEF Agree
<1> QED BY <1>1, <1>2, <1>3, <1>4

\* What others write leaves alike what they have not written.
LEMMA OthersWrite ==
    ASSUME SqlInv, OthersDelete \/ OthersInsert
    PROVE  /\ db' \in [Databases -> [Names -> SUBSET RowSet]]
           /\ written \subseteq written'
           /\ \A t \in Names : Agree(written', db'["home"][t], db["home"][t])
           /\ \A d \in Databases : \A t \in Names :
                (\A r \in db[d][t] : r.val = Value) => \A r \in db'[d][t] : r.val = Value
<1>1. db \in [Databases -> [Names -> SUBSET RowSet]] /\ target \in Databases /\ "home" \in Databases
  BY DEF SqlInv, SavedInv, Databases
<1>2. \A t \in Names : Row(5, Value) \in RowSet /\ Row(5, Value).val = Value /\ Row(5, Value).key = 5
  BY RowsTyped
<1>3. CASE OthersDelete
  <2> DEFINE rows == [t \in Names |-> {r \in db[target][t] : r.key # 3}]
  <2>1. rows \in [Names -> SUBSET RowSet] /\ \A t \in Names : rows[t] = {r \in db[target][t] : r.key # 3}
    BY <1>1
  <2>2. db' = [db EXCEPT ![target] = rows] /\ written' = written \cup {3}
    BY <1>3 DEF OthersDelete
  <2> HIDE DEF rows
  <2> QED BY <1>1, <2>1, <2>2 DEF Agree
<1>4. CASE OthersInsert
  <2> DEFINE rows == [t \in Names |-> db[target][t] \cup {Row(5, Value)}]
  <2>1. rows \in [Names -> SUBSET RowSet] /\ \A t \in Names : rows[t] = db[target][t] \cup {Row(5, Value)}
    BY <1>1, <1>2
  <2>2. db' = [db EXCEPT ![target] = rows] /\ written' = written \cup {5}
    BY <1>4 DEF OthersInsert
  <2> HIDE DEF rows
  <2> QED BY <1>1, <1>2, <2>1, <2>2 DEF Agree
<1> QED BY <1>3, <1>4

\* A row keeps its key when it is converted.
LEMMA LiteralTyped == \A r \in RowSet : Literal(r) \in RowSet /\ Literal(r).key = r.key
BY DEF RowSet, Literal, Row

\* What the restore writes keeps the database's type.
LEMMA DbTyped ==
    ASSUME SqlInv, NEW t \in Names, NEW rows \in SUBSET RowSet,
           db' = [db EXCEPT !["home"][t] = rows]
    PROVE  /\ db' \in [Databases -> [Names -> SUBSET RowSet]]
           /\ db'["home"][t] = rows /\ \A u \in Names : u # t => db'["home"][u] = db["home"][u]
<1>1. db \in [Databases -> [Names -> SUBSET RowSet]] /\ "home" \in Databases
  BY DEF SqlInv, SavedInv, Databases
<1> QED BY <1>1

\* The source of a restore's rows.
LEMMA SourceTyped ==
    ASSUME SqlInv, Restoring
    PROVE  /\ Head(todo) \in Names /\ Head(todo) \in ToSet(todo)
           /\ From(Head(todo)) = IF Reads \in deleted THEN {} ELSE Source(Head(todo))
           /\ From(Head(todo)) \in SUBSET RowSet
<1>1. Head(todo) \in Names /\ Head(todo) \in ToSet(todo)
  BY WorkLists DEF SqlInv, StageInv, Restoring
<1>2. From(Head(todo)) = IF Reads \in deleted THEN {} ELSE Source(Head(todo))
  BY DEF Restoring, Calling, Source, From, Reads, ReadBy
<1>3. From(Head(todo)) \in SUBSET RowSet
  <2>1. CASE stage = "restore"
    BY <1>1, <2>1, RowsTyped DEF From
  <2>2. CASE stage = "rollback"
    BY <1>1, <2>2 DEF From, SqlInv, StageInv, SavedInv
  <2> QED BY <2>1, <2>2 DEF Restoring, Calling
<1> QED BY <1>1, <1>2, <1>3

\* What agreed goes on to do so when others write more rows.
LEMMA SameLater == written \subseteq written' => \A a, b : Same(a, b) => Agree(written', a, b)
BY AgreeLaws DEF Same

\* Nothing that happens after the safety stage touches what was saved.
LEMMA SafetyKept ==
    ASSUME SqlInv, stage \in {"restore", "rollback"}, stage' # "safety",
           UNCHANGED <<safety, request>>, written \subseteq written',
           db' \in [Databases -> [Names -> SUBSET RowSet]], cleared' # {} => dropping
    PROVE  SavedInv'
<1>1. Value' = Value /\ \A t : Live("home", t)' = Live("home", t)
  BY DEF Live, Value, Row, request
<1>2. \A a, b : Same(a, b) => Agree(written', a, b)
  BY SameLater
<1> QED BY <1>1, <1>2 DEF SqlInv, SavedInv, Same, Unchanged, request

LEMMA SavedStep == SqlInv /\ [SqlNext]_sqlVars => SavedInv'
<1> SUFFICES ASSUME SqlInv, [SqlNext]_sqlVars PROVE SavedInv'
  OBVIOUS
<1>1. SavedInv /\ StageInv /\ StageInv' /\ db \in [Databases -> [Names -> SUBSET RowSet]]
  BY StageStep DEF SqlInv, SavedInv
<1>0. UNCHANGED request => Value' = Value /\ \A t : Live("home", t)' = Live("home", t)
  BY DEF Live, Value, Row, request
<1>2. CASE ScanTable
  <2>1. /\ stage = "safety" /\ todo # <<>> /\ UNCHANGED <<request, db, touchedTables, cleared, stage, others>>
        /\ todo' = Tail(todo) /\ Head(todo) \in ToSet(todo) /\ ToSet(todo') = ToSet(todo) \ {Head(todo)}
        /\ ToSet(todo) \subseteq Names
    BY <1>1, <1>2, WorkLists DEF ScanTable, StageInv
  <2> DEFINE t == Head(todo)
             more == IF HasPrimaryKey(t) THEN {t} ELSE {}
             tables == (IF safety = None THEN {} ELSE safety.tables) \cup more
             rows == [u \in Names |-> IF u \in more THEN StreamedRows(u) ELSE Rows(u)]
  <2>2. safety' = [kind |-> "safety", index |-> CapturedIndex, tables |-> tables, rows |-> rows]
    BY <1>2 DEF ScanTable
  <2>3. safety' # None /\ safety'.tables = tables /\ safety'.rows = rows
    BY <2>2 DEF None
  <2>4. tables = (Names \ ToSet(todo')) \ keyless
    <3>1. safety = None => ToSet(todo) = Names
      BY <1>1, <2>1, NamesAre DEF SavedInv
    <3> QED BY <1>1, <2>1, <3>1 DEF SavedInv, HasPrimaryKey
  <2>5. \A u \in Names : rows[u] \in SUBSET RowSet /\ Unchanged(rows[u])
    BY <1>1, <2>1 DEF StreamedRows, Rows, SavedInv, Unchanged
  <2>6. ASSUME target = "home", NEW u \in tables
        PROVE  Same(rows[u], Live("home", u))
    <3>1. u \in Names /\ u \notin ToSet(todo')
      BY <2>4, <2>6
    <3>2. CASE u \in more
      <4>1. rows[u] = db["home"][u]
        BY <2>6, <3>1, <3>2 DEF StreamedRows
      <4> QED BY <1>1, <2>1, <3>1, <4>1 DEF SavedInv
    <3>3. CASE u \notin more
      <4>1. safety # None /\ u \in safety.tables /\ rows[u] = safety.rows[u]
        BY <2>6, <3>1, <3>3 DEF Rows
      <4> QED BY <1>1, <2>6, <4>1 DEF SavedInv
    <3> QED BY <3>2, <3>3
  <2>7. \A a, b : Same(a, b) => Agree(written', a, b)
    BY <1>0, <2>1, SameLater DEF others
  <2> HIDE DEF tables, rows, more, t
  <2> QED BY <1>0, <1>1, <2>1, <2>3, <2>4, <2>5, <2>6, <2>7 DEF SavedInv, Same, Unchanged, request
<1>3. CASE ScanFails
  <2>1. \A a, b : Same(a, b) => Agree(written', a, b)
    BY <1>0, <1>3, SameLater DEF ScanFails, others
  <2> QED BY <1>1, <1>3, <1>0, <2>1 DEF ScanFails, SavedInv, Same, Unchanged, request
<1>4. CASE Publish
  <2>1. stage = "safety" /\ todo = <<>> /\ stage' = "restore" /\ UNCHANGED <<request, data, others>>
    BY <1>4 DEF Publish
  <2>2. safety # None /\ safety.tables = Names \ keyless
    <3>1. safety # None
      BY <1>1, <2>1, WorkLists DEF SavedInv
    <3> QED BY <1>1, <2>1, <3>1, NamesAre DEF SavedInv
  <2>3. \A a, b : Same(a, b) => Agree(written', a, b)
    BY <1>0, <2>1, SameLater DEF others
  <2> QED BY <1>0, <1>1, <2>1, <2>2, <2>3 DEF SavedInv, Same, Unchanged, request, data
<1>5. CASE ReadManifest \/ OpenBackend \/ LoadSchema \/ DisableChecks \/ PrepareFails \/ ReadRefs \/ Reindex
           \/ StatementFails \/ EnableChecks \/ EnableFails \/ NothingToRollBack \/ GCDeletes
  <2>1. /\ stage \in {"restore", "rollback"} /\ UNCHANGED <<db, safety, request, written, cleared>>
    BY <1>5 DEF ReadManifest, OpenBackend, LoadSchema, DisableChecks, PrepareFails, ReadRefs, Reindex,
                StatementFails, EnableChecks, EnableFails, NothingToRollBack, GCDeletes, At, Restoring, Calling, data, others
  <2>2. stage' # "safety"
    BY <1>5, <2>1 DEF ReadManifest, OpenBackend, GCDeletes, control, LoadSchema, DisableChecks, PrepareFails, ReadRefs, Reindex, StatementFails, EnableChecks,
                EnableFails, NothingToRollBack, AfterTable, Abandon, BodyFails, GoTo
  <2> QED BY <1>1, <2>1, <2>2, SafetyKept DEF StageInv
<1>6. CASE Clear
  <2>1. /\ Restoring /\ UNCHANGED <<safety, request, others>> /\ stage' = stage
        /\ UNCHANGED db \/ db' = [db EXCEPT !["home"][Head(todo)] = {}]
    BY <1>6 DEF Clear, At, BodyFails, GoTo, Reached
  <2>2. db' \in [Databases -> [Names -> SUBSET RowSet]]
    BY <1>1, <2>1, SourceTyped, DbTyped
  <2>3. cleared' # {} => dropping
    BY <1>1, <2>1 DEF StageInv, request
  <2> QED BY <2>1, <2>2, <2>3, SafetyKept DEF Restoring, Calling, others
<1>7. CASE InsertBatch
  <2>1. /\ Restoring /\ step = "insert" /\ UNCHANGED <<safety, request, others, cleared>> /\ stage' = stage
        /\ UNCHANGED db \/ \E r \in refs :
             db' = [db EXCEPT !["home"][Head(todo)] = db["home"][Head(todo)] \cup {Literal(r)}]
    BY <1>7 DEF InsertBatch, At, BodyFails, GoTo, Reached
  <2>2. db' \in [Databases -> [Names -> SUBSET RowSet]]
    <3>1. Head(todo) \in Names /\ refs \subseteq RowSet
      BY <2>1, SourceTyped DEF SqlInv, TableInv, Restoring, Calling
    <3>2. \A r \in refs : db["home"][Head(todo)] \cup {Literal(r)} \in SUBSET RowSet
      BY <1>1, <3>1, LiteralTyped DEF Databases
    <3> QED BY <1>1, <2>1, <3>1, <3>2, DbTyped
  <2> QED BY <1>1, <2>1, <2>2, SafetyKept DEF Restoring, Calling, others, StageInv
<1>8. CASE TakeConn \/ ReturnConn \/ LoseConn
  <2>1. UNCHANGED <<request, data, stage, todo, others>>
    BY <1>8 DEF TakeConn, ReturnConn, LoseConn, control
  <2>2. \A a, b : Same(a, b) => Agree(written', a, b)
    BY <1>0, <2>1, SameLater DEF others
  <2> QED BY <1>0, <1>1, <2>1, <2>2 DEF SavedInv, Same, Unchanged, request, data
<1>9. CASE OthersDelete \/ OthersInsert
  <2>1. /\ target \in Databases /\ UNCHANGED <<request, safety, touchedTables, cleared, stage, todo>>
        /\ written \subseteq written'
    BY <1>1, <1>9 DEF OthersDelete, OthersInsert, control, SavedInv
  <2>2. /\ db' \in [Databases -> [Names -> SUBSET RowSet]]
        /\ \A t \in Names : Agree(written', db'["home"][t], db["home"][t])
        /\ \A d \in Databases : \A t \in Names :
             (\A r \in db[d][t] : r.val = Value) => \A r \in db'[d][t] : r.val = Value
    BY <1>9, OthersWrite
  <2>3. \A a, b : Same(a, b) => Agree(written', a, b)
    BY <2>1, SameLater
  <2>4. stage = "safety" => \A t \in Names : Agree(written', db'["home"][t], Live("home", t))
    <3> SUFFICES ASSUME stage = "safety", NEW t \in Names
                 PROVE  Agree(written', db'["home"][t], Live("home", t))
      OBVIOUS
    <3>1. Agree(written', db["home"][t], Live("home", t))
      BY <1>1, <2>3 DEF SavedInv
    <3> QED BY <2>2, <3>1, AgreeLaws
  <2> QED BY <1>0, <1>1, <2>1, <2>2, <2>3, <2>4 DEF SavedInv, Same, Unchanged, request
<1>10. CASE UNCHANGED sqlVars
  <2>1. \A a, b : Same(a, b) => Agree(written', a, b)
    BY <1>0, <1>10, SameLater DEF sqlVars, others
  <2> QED BY <1>0, <1>1, <1>10, <2>1 DEF sqlVars, request, data, control, SavedInv, Same, Unchanged
<1> QED BY <1>2, <1>3, <1>4, <1>5, <1>6, <1>7, <1>8, <1>9, <1>10 DEF SqlNext, SafetyStep, TableStep

-----------------------------------------------------------------------------
\* The tables.

\* What a table should hold depends on the request, what was saved and what is read.
LEMMA SameTask ==
    ASSUME UNCHANGED <<request, safety, deleted>>, {stage, stage'} \subseteq {"restore", "restored"} \/
                                          {stage, stage'} \subseteq {"rollback", "rolledBack"}
    PROVE  /\ \A t : Base(t)' = Base(t) /\ From(t)' = From(t) /\ Live("home", t)' = Live("home", t)
           /\ \A t, rest : With(t, rest)' = With(t, rest)
           /\ Due' = Due
<1>1. \A t : Base(t)' = Base(t) /\ From(t)' = From(t) /\ Live("home", t)' = Live("home", t)
  BY DEF Base, From, ReadBy, Live, Stored, Row, Value, request
<1>2. \A r : Literal(r)' = Literal(r)
  BY DEF Literal, Row, KnownAsBinary, request
<1> QED BY <1>1, <1>2 DEF With, Due

\* A restore that ends early, or goes over to its rollback, promises nothing yet.
LEMMA AbandonTables ==
    ASSUME SqlInv, Abandon, UNCHANGED safety, stage \in {"restore", "rollback"}
    PROVE  TableInv'
<1>1. CASE stage' = "failed"
  BY <1>1 DEF TableInv
<1>2. CASE stage' # "failed"
  <2>1. stage = "restore" /\ dropping /\ stage' = "rollback" /\ step' = "get"
        /\ todo' = InOrder({t \in Names : Saved(t)})
    BY <1>2 DEF Abandon
  <2>2. ToSet(todo') = {t \in Names : Saved(t)}
    BY <2>1, InOrderLists
  <2>3. safety # None /\ safety.tables \subseteq Names
    BY <2>1 DEF SqlInv, SavedInv
  <2>4. Due' \subseteq ToSet(todo')
    BY <2>1, <2>2, <2>3 DEF Due, Saved
  <2> QED BY <2>1, <2>4 DEF TableInv
<1> QED BY <1>1, <1>2

\* A step of the body of one table.
LEMMA BodyStep ==
    ASSUME SqlInv, Restoring, UNCHANGED <<request, safety, stage, todo, others>>,
           step' \notin {"get", "open"},
           \A t \in Names : t # Head(todo) => db'["home"][t] = db["home"][t],
           LET t == Head(todo)
           IN  /\ step' = "read" => Agree(written, db'["home"][t], Base(t))
               /\ step' = "insert" => refs' \subseteq From(t) /\ Agree(written, db'["home"][t], With(t, refs'))
               /\ step' = "enable" /\ ~failed' => Agree(written, db'["home"][t], With(t, {})),
           ~dropping /\ stage = "restore" =>
               step' \in {"insert", "enable"} \/ Agree(written, db'["home"][Head(todo)], Live("home", Head(todo)))
    PROVE  TableInv'
<1>1. /\ \A t : Base(t)' = Base(t) /\ From(t)' = From(t) /\ Live("home", t)' = Live("home", t)
      /\ \A t, rest : With(t, rest)' = With(t, rest)
      /\ Due' = Due /\ written' = written
  BY SameTask DEF Restoring, Calling, others
<1>2. Head(todo) \in ToSet(todo) /\ ToSet(todo) \subseteq Names
  BY SourceTyped, WorkLists DEF SqlInv, StageInv
<1>3. stage \in {"restore", "rollback"} /\ Due \subseteq Names
  BY DEF Restoring, Calling, Due, SqlInv, StageInv, SavedInv
<1>4. \A t \in Due \ ToSet(todo) : Agree(written, db'["home"][t], With(t, {}))
  BY <1>2, <1>3 DEF SqlInv, TableInv, Same
<1>5. ~dropping /\ stage = "restore" => \A t \in ToSet(todo) :
         (t = Head(todo) /\ step' \in {"insert", "enable"}) \/ Agree(written, db'["home"][t], Live("home", t))
  BY <1>2 DEF SqlInv, TableInv, Same
<1>6. dropping' = dropping
  BY DEF request
<1> QED BY <1>1, <1>2, <1>3, <1>4, <1>5, <1>6 DEF TableInv, Same

\* What other clients write, or a GC deletes before the table is read, changes
\* nothing of this.
LEMMA OthersTables ==
    ASSUME SqlInv, OthersDelete \/ OthersInsert
    PROVE  TableInv'
<1>1. /\ UNCHANGED <<request, safety, control, deleted>>
      /\ \A t \in Names : Agree(written', db'["home"][t], db["home"][t])
  BY OthersWrite DEF OthersDelete, OthersInsert
<1>2. \A t \in Names : \A b : Same(db["home"][t], b) => Agree(written', db'["home"][t], b)
  BY <1>1, OthersWrite, SameLater, AgreeLaws
<1>3. stage' = stage /\ step' = step /\ todo' = todo /\ refs' = refs /\ failed' = failed /\ dropping' = dropping
  BY <1>1 DEF control, request
<1>4. /\ \A t : Base(t)' = Base(t) /\ From(t)' = From(t) /\ Live("home", t)' = Live("home", t)
      /\ \A t, rest : With(t, rest)' = With(t, rest)
      /\ Due' = Due
  <2>1. \A t : Base(t)' = Base(t) /\ From(t)' = From(t) /\ Live("home", t)' = Live("home", t)
    BY <1>1, <1>3 DEF Base, From, ReadBy, Live, Stored, Row, Value, request
  <2>2. \A r : Literal(r)' = Literal(r)
    BY <1>1 DEF Literal, Row, KnownAsBinary, request
  <2> QED BY <1>1, <1>3, <2>1, <2>2 DEF With, Due
<1>5. ToSet(todo) \subseteq Names /\ (todo # <<>> => Head(todo) \in Names)
  BY WorkLists DEF SqlInv, StageInv
<1>6. stage \in {"restore", "restored", "rollback", "rolledBack"} => Due \subseteq Names
  BY DEF Due, SqlInv, StageInv, SavedInv
<1>7. TableInv
  BY DEF SqlInv
<1> QED BY <1>2, <1>3, <1>4, <1>5, <1>6, <1>7 DEF TableInv, Same

LEMMA TablesStep == SqlInv /\ [SqlNext]_sqlVars => TableInv'
<1> SUFFICES ASSUME SqlInv, [SqlNext]_sqlVars PROVE TableInv'
  OBVIOUS
<1>1. TableInv /\ StageInv /\ StageInv'
  BY StageStep DEF SqlInv
<1>0. \A a : Agree(written, a, a)
  BY AgreeLaws
<1>2. CASE ScanTable \/ ScanFails
  BY <1>2 DEF ScanTable, ScanFails, TableInv
<1>3. CASE Publish
  <2>1. stage' = "restore" /\ todo' = Tables /\ step' = "get" /\ dropping'
    BY <1>1, <1>3 DEF Publish, StageInv, request
  <2>2. Due' \subseteq ToSet(todo')
    BY <2>1, NamesAre DEF Due
  <2> QED BY <2>1, <2>2 DEF TableInv
<1>4. CASE ReadManifest \/ OpenBackend \/ GCDeletes
  <2>1. /\ stage \in {"restore", "rollback"} /\ step \in {"get", "open"}
        /\ UNCHANGED <<request, safety, db, written>>
        /\ Abandon \/ (step' \in {"open", "schema", step} /\ UNCHANGED <<stage, todo>>)
    BY <1>4 DEF ReadManifest, OpenBackend, GCDeletes, GoTo, Calling, data, others, control
  <2>2. CASE Abandon
    BY <2>1, <2>2, AbandonTables
  <2>3. CASE step' \in {"open", "schema", step} /\ UNCHANGED <<stage, todo>>
    <3>1. Due \subseteq ToSet(todo) /\ Due' = Due /\ dropping' = dropping
      BY <1>1, <2>1, <2>3 DEF TableInv, Due, request
    <3>2. \A t : Live("home", t)' = Live("home", t)
      BY <2>1 DEF Live, Value, Row, request
    <3>3. ~dropping /\ stage = "restore" => \A t \in ToSet(todo) : Same(db["home"][t], Live("home", t))
      BY <1>1, <2>1 DEF TableInv
    <3> QED BY <2>1, <2>3, <3>1, <3>2, <3>3 DEF TableInv, Same
  <2> QED BY <2>1, <2>2, <2>3
<1>5. CASE LoadSchema
  <2>1. /\ Restoring /\ UNCHANGED <<request, safety, stage, todo, db, others>> /\ step = "schema" /\ step' = "disable"
    BY <1>5 DEF LoadSchema, At, GoTo, data
  <2>2. ~dropping /\ stage = "restore" => Agree(written, db["home"][Head(todo)], Live("home", Head(todo)))
    BY <1>1, <2>1, SourceTyped DEF TableInv, Same
  <2> QED BY <2>1, <2>2, BodyStep
<1>6. CASE DisableChecks
  <2>1. /\ Restoring /\ UNCHANGED <<request, safety, stage, todo, db, others>> /\ step = "disable"
        /\ step' = IF dropping THEN "clear" ELSE "read"
    BY <1>6 DEF DisableChecks, At, GoTo, data, Clearing
  <2>2. ~dropping /\ stage = "restore" => Agree(written, db["home"][Head(todo)], Live("home", Head(todo)))
    BY <1>1, <2>1, SourceTyped DEF TableInv, Same
  <2>3. step' = "read" => Agree(written, db["home"][Head(todo)], Base(Head(todo)))
    BY <1>1, <2>1, <2>2 DEF Base, Restoring, Calling, StageInv
  <2> QED BY <2>1, <2>2, <2>3, BodyStep
<1>7. CASE PrepareFails
  BY <1>7, AbandonTables DEF PrepareFails, At, Restoring, Calling, data
<1>8. CASE Clear
  <2>1. /\ Restoring /\ UNCHANGED <<request, safety, stage, todo, others>> /\ dropping
        /\ \/ UNCHANGED db /\ step' = "enable" /\ failed'
           \/ db' = [db EXCEPT !["home"][Head(todo)] = {}] /\ step' = "read"
    BY <1>1, <1>8 DEF Clear, At, GoTo, BodyFails, Reached, StageInv
  <2>2. CASE UNCHANGED db /\ step' = "enable" /\ failed'
    BY <2>1, <2>2, BodyStep
  <2>3. CASE db' = [db EXCEPT !["home"][Head(todo)] = {}] /\ step' = "read"
    <3>1. db'["home"][Head(todo)] = {} /\ \A t \in Names : t # Head(todo) => db'["home"][t] = db["home"][t]
      <4>1. Head(todo) \in Names /\ {} \in SUBSET RowSet
        BY <2>1, SourceTyped
      <4> QED BY <2>3, <4>1, DbTyped
    <3> QED BY <1>0, <2>1, <2>3, <3>1, BodyStep DEF Base
  <2> QED BY <2>1, <2>2, <2>3
<1>9. CASE ReadRefs
  <2>1. /\ Restoring /\ UNCHANGED <<request, safety, stage, todo, db, others>> /\ step = "read" /\ step' = "insert"
        /\ refs' = From(Head(todo))
    <3>1. Restoring
      BY <1>9 DEF ReadRefs, At
    <3> QED BY <1>9, <3>1, SourceTyped DEF ReadRefs, At, GoTo, data
  <2>2. Agree(written, db["home"][Head(todo)], Base(Head(todo)))
    BY <1>1, <2>1 DEF TableInv, Restoring, Calling, Same
  <2>3. With(Head(todo), refs') = Base(Head(todo))
    BY <2>1 DEF With
  <2> QED BY <2>1, <2>2, <2>3, BodyStep
<1>10. CASE InsertBatch
  <2>1. /\ Restoring /\ UNCHANGED <<request, safety, stage, todo, others>> /\ step = "insert"
        /\ \/ UNCHANGED db /\ step' = "enable" /\ failed'
           \/ \E r \in refs :
                /\ db' = [db EXCEPT !["home"][Head(todo)] = db["home"][Head(todo)] \cup {Literal(r)}]
                /\ refs' = refs \ {r} /\ step' = "insert"
    BY <1>10 DEF InsertBatch, At, GoTo, BodyFails, Reached
  <2>2. CASE UNCHANGED db /\ step' = "enable" /\ failed'
    BY <2>1, <2>2, BodyStep
  <2>3. ASSUME NEW r \in refs, refs' = refs \ {r}, step' = "insert",
               db' = [db EXCEPT !["home"][Head(todo)] = db["home"][Head(todo)] \cup {Literal(r)}]
        PROVE  TableInv'
    <3>1. refs \subseteq From(Head(todo)) /\ Agree(written, db["home"][Head(todo)], With(Head(todo), refs))
      BY <1>1, <2>1 DEF TableInv, Restoring, Calling, Same
    <3>2. With(Head(todo), refs \ {r}) = With(Head(todo), refs) \cup {Literal(r)}
      BY <2>3, <3>1 DEF With
    <3>3. db["home"][Head(todo)] \cup {Literal(r)} \in SUBSET RowSet
      <4>1. r \in RowSet /\ db["home"][Head(todo)] \subseteq RowSet
        BY <2>1, <2>3, <3>1, SourceTyped DEF SqlInv, SavedInv, Databases
      <4> QED BY <4>1, LiteralTyped
    <3>4. /\ db'["home"][Head(todo)] = db["home"][Head(todo)] \cup {Literal(r)}
          /\ \A t \in Names : t # Head(todo) => db'["home"][t] = db["home"][t]
      BY <2>1, <2>3, <3>3, DbTyped, SourceTyped
    <3>5. Agree(written, db'["home"][Head(todo)], With(Head(todo), refs'))
      BY <2>3, <3>1, <3>2, <3>4 DEF Agree
    <3> QED BY <2>1, <2>3, <3>1, <3>4, <3>5, BodyStep
  <2> QED BY <2>1, <2>2, <2>3
<1>11. CASE Reindex
  <2>1. /\ Restoring /\ UNCHANGED <<request, safety, stage, todo, db, others>> /\ step = "insert" /\ refs = {}
        /\ step' = "enable"
    BY <1>11 DEF Reindex, At, GoTo, BodyFails
  <2>2. Agree(written, db["home"][Head(todo)], With(Head(todo), {}))
    BY <1>1, <2>1 DEF TableInv, Restoring, Calling, Same
  <2> QED BY <2>1, <2>2, BodyStep
<1>12. CASE StatementFails
  <2>1. /\ Restoring /\ UNCHANGED <<request, safety, stage, todo, db, others>> /\ step' = "enable" /\ failed'
    BY <1>12 DEF StatementFails, At, GoTo, BodyFails
  <2> QED BY <2>1, BodyStep
<1>13. CASE EnableChecks
  <2>1. Restoring /\ step = "enable" /\ UNCHANGED <<request, safety, db, others>>
    BY <1>13 DEF EnableChecks, At, data
  <2>2. CASE failed
    BY <1>13, <2>1, <2>2, AbandonTables DEF EnableChecks, AfterTable, Restoring, Calling
  <2>3. CASE ~failed
    <3>1. /\ todo' = Tail(todo) /\ step' = "schema"
          /\ stage' = IF Tail(todo) # <<>> THEN stage
                      ELSE IF stage = "restore" THEN "restored" ELSE "rolledBack"
      BY <1>13, <2>3 DEF EnableChecks, AfterTable
    <3>2. stage \in {"restore", "rollback"} /\ todo # <<>>
      BY <2>1 DEF Restoring, Calling
    <3>3. /\ \A t : Live("home", t)' = Live("home", t)
          /\ \A t, rest : With(t, rest)' = With(t, rest)
          /\ Due' = Due /\ written' = written
      BY <2>1, <3>1, <3>2, SameTask DEF others
    <3>4. ToSet(todo') = ToSet(todo) \ {Head(todo)}
      BY <1>1, <3>1, <3>2, WorkLists DEF StageInv
    <3>5. \A t \in Due \ ToSet(todo') : Agree(written, db["home"][t], With(t, {}))
      BY <1>1, <2>1, <2>3, <3>2, <3>4 DEF TableInv, Same
    <3>6. ~dropping /\ stage = "restore" => \A t \in ToSet(todo') : Agree(written, db["home"][t], Live("home", t))
      BY <1>1, <3>4 DEF TableInv, Same
    <3>7. stage' = "restore" => stage = "restore"
      BY <3>1, <3>2
    <3> QED BY <2>1, <3>1, <3>3, <3>5, <3>6, <3>7 DEF TableInv, Same, request
  <2> QED BY <2>2, <2>3
<1>14. CASE EnableFails
  BY <1>14, AbandonTables DEF EnableFails, At, Restoring, Calling, data
<1>15. CASE NothingToRollBack
  <2>1. /\ stage = "rollback" /\ stage' = "rolledBack" /\ todo = <<>>
        /\ UNCHANGED <<request, safety, db, todo, others>>
    BY <1>15 DEF NothingToRollBack, data
  <2>2. Due' = Due /\ \A t, rest : With(t, rest)' = With(t, rest)
    BY <2>1, SameTask DEF others
  <2> QED BY <1>1, <2>1, <2>2 DEF TableInv, Same, others
<1>16. CASE OthersDelete \/ OthersInsert
  BY <1>16, OthersTables
<1>17. CASE TakeConn \/ ReturnConn \/ LoseConn \/ UNCHANGED sqlVars
  <2>1. UNCHANGED <<request, data, control, others>>
    BY <1>17 DEF TakeConn, ReturnConn, LoseConn, sqlVars
  <2>2. \A t : Live("home", t)' = Live("home", t) /\ Base(t)' = Base(t) /\ From(t)' = From(t)
    BY <2>1 DEF Base, From, ReadBy, Live, Stored, Row, Value, request, data, control, others
  <2>3. (\A t, rest : With(t, rest)' = With(t, rest)) /\ Due' = Due
    BY <2>1, <2>2 DEF With, Due, Literal, Row, KnownAsBinary, request, data, control
  <2> QED BY <1>1, <2>1, <2>2, <2>3 DEF TableInv, Same, request, data, control, others
<1> QED BY <1>2, <1>3, <1>4, <1>5, <1>6, <1>7, <1>8, <1>9, <1>10, <1>11, <1>12, <1>13, <1>14, <1>15, <1>16, <1>17
     DEF SqlNext, SafetyStep, TableStep

-----------------------------------------------------------------------------
\* The index, and what can fail.

LEMMA IndexStep == SqlInv /\ [SqlNext]_sqlVars => IndexInv'
<1> SUFFICES ASSUME SqlInv, [SqlNext]_sqlVars PROVE IndexInv'
  OBVIOUS
<1>1. IndexInv /\ StageInv
  BY DEF SqlInv
<1>2. todo # <<>> => Head(todo) \in ToSet(todo) /\ ToSet(Tail(todo)) = ToSet(todo) \ {Head(todo)}
                     /\ ToSet(todo) \subseteq Names
  BY <1>1, WorkLists DEF StageInv
<1>3. CASE ScanTable \/ ScanFails \/ OthersDelete \/ OthersInsert \/ GCDeletes
  <2>1. CASE ScanTable \/ ScanFails
    BY <2>1 DEF ScanTable, ScanFails, IndexInv
  <2>2. CASE OthersDelete \/ OthersInsert \/ GCDeletes
    BY <1>1, <2>2 DEF OthersDelete, OthersInsert, GCDeletes, IndexInv, request, data, control
  <2> QED BY <1>3, <2>1, <2>2
<1>4. CASE Publish
  BY <1>1, <1>4, NamesAre DEF Publish, IndexInv, StageInv
<1>5. CASE LoadSchema \/ DisableChecks \/ Clear \/ ReadRefs \/ InsertBatch \/ StatementFails
  <2>1. step' # "enable" \/ failed'
    BY <1>5 DEF LoadSchema, DisableChecks, Clear, ReadRefs, InsertBatch, StatementFails, At, GoTo, BodyFails,
                Clearing
  <2>2. UNCHANGED <<engine, stage, todo, indexed>> /\ (step # "enable" \/ failed)
    BY <1>5 DEF LoadSchema, DisableChecks, Clear, ReadRefs, InsertBatch, StatementFails, At, GoTo, BodyFails,
                request, data
  <2> QED BY <1>1, <2>1, <2>2 DEF IndexInv
<1>6. CASE PrepareFails \/ EnableFails \/ ReadManifest \/ OpenBackend
  <2>1. CASE Abandon
    BY <2>1 DEF Abandon, IndexInv
  <2>2. CASE GoTo("open") \/ GoTo("schema")
    <3>1. UNCHANGED <<engine, stage, todo, indexed>> /\ step' # "enable" /\ step # "enable"
      BY <1>6, <2>2 DEF PrepareFails, EnableFails, ReadManifest, OpenBackend, Abandon, GoTo, request, data
    <3> QED BY <1>1, <3>1 DEF IndexInv
  <2> QED BY <1>6, <2>1, <2>2 DEF PrepareFails, EnableFails, ReadManifest, OpenBackend
<1>7. CASE Reindex
  <2>1. /\ Restoring /\ step = "insert" /\ step' = "enable" /\ UNCHANGED <<engine, stage, todo>>
        /\ indexed \subseteq indexed' /\ Head(todo) \in {"child", "parent"}
    BY <1>2, <1>7, NamesAre DEF Reindex, At, Restoring, Calling, GoTo, BodyFails, request
  <2>2. Head(todo) = "parent" /\ stage = "restore" /\ engine # "mysql" /\ ~failed' => "home" \in indexed'
    BY <1>7 DEF Reindex, Replays, Reached, BodyFails
  <2> SUFFICES ASSUME engine # "mysql", stage = "restore", "home" \notin indexed'
               PROVE  "parent" \in ToSet(todo) /\ ~(Head(todo) = "parent" /\ step' = "enable" /\ ~failed')
    BY <2>1 DEF IndexInv, Restoring, Calling
  <2>3. "parent" \in ToSet(todo)
    BY <1>1, <2>1 DEF IndexInv
  <2> QED BY <2>2, <2>3
<1>8. CASE EnableChecks
  <2>1. Restoring /\ step = "enable" /\ UNCHANGED <<engine, indexed>>
    BY <1>8 DEF EnableChecks, At, request, data
  <2>2. CASE failed
    BY <1>8, <2>2 DEF EnableChecks, AfterTable, Abandon, IndexInv
  <2>3. CASE ~failed
    <3>1. todo' = Tail(todo) /\ step' = "schema" /\ (stage' \in {"restore", "restored"} => stage = "restore")
      BY <1>8, <2>1, <2>3 DEF EnableChecks, AfterTable, Restoring, Calling
    <3> QED BY <1>1, <1>2, <2>1, <2>3, <3>1 DEF IndexInv, Restoring, Calling
  <2> QED BY <2>2, <2>3
<1>9. CASE NothingToRollBack
  BY <1>9 DEF NothingToRollBack, IndexInv
<1>10. CASE TakeConn \/ ReturnConn \/ LoseConn \/ UNCHANGED sqlVars
  <2>1. UNCHANGED <<request, data, control>>
    BY <1>10 DEF TakeConn, ReturnConn, LoseConn, sqlVars
  <2> QED BY <1>1, <2>1 DEF IndexInv, request, data, control
<1> QED BY <1>3, <1>4, <1>5, <1>6, <1>7, <1>8, <1>9, <1>10 DEF SqlNext, SafetyStep, TableStep

LEMMA CalmStep == SqlInv /\ [SqlNext]_sqlVars => CalmInv'
<1> SUFFICES ASSUME SqlInv, [SqlNext]_sqlVars PROVE CalmInv'
  OBVIOUS
<1>0. UNCHANGED <<dropping, clash>>
  BY DEF SqlNext, SafetyStep, TableStep, ScanTable, ScanFails, Publish, ReadManifest, OpenBackend, LoadSchema, DisableChecks, PrepareFails, Clear, ReadRefs,
         InsertBatch, Reindex, StatementFails, EnableChecks, EnableFails, NothingToRollBack, TakeConn,
         ReturnConn, LoseConn, OthersDelete, OthersInsert, GCDeletes, sqlVars, request
<1> SUFFICES ASSUME dropping, disturbed' = 0, faults' = {}, "source" \notin deleted'
             PROVE  ~failed' /\ stage' \notin {"rollback", "rolledBack", "failed"}
  BY <1>0 DEF CalmInv, SqlInv
<1>1. ScanFails \/ PrepareFails \/ StatementFails \/ EnableFails => faults' # {}
  BY DEF ScanFails, PrepareFails, StatementFails, EnableFails, Fails
<1>2. disturbed = 0 /\ faults = {} /\ "source" \notin deleted /\ written = {}
  <2>1. TakeConn \/ LoseConn \/ OthersDelete \/ OthersInsert => disturbed' # 0
    BY DEF TakeConn, LoseConn, OthersDelete, OthersInsert, Disturb, SqlInv, PoolInv
  <2>2. disturbed = 0 /\ faults = {} /\ "source" \notin deleted
    BY <1>1, <2>1 DEF SqlNext, SafetyStep, TableStep, ScanTable, Publish, ReadManifest, OpenBackend, LoadSchema,
         DisableChecks, Clear, ReadRefs, InsertBatch, Reindex, EnableChecks, NothingToRollBack, ReturnConn,
         GCDeletes, others, sqlVars
  <2> QED BY <2>2 DEF SqlInv, PoolInv
<1>3. ~failed /\ stage \notin {"rollback", "rolledBack", "failed"} /\ ~clash
  BY <1>2 DEF SqlInv, CalmInv
<1>4. Exec(Conn) /\ step \in {"clear", "insert"} => ~Conn.checks
  BY <1>2, Statement DEF SqlInv, PoolInv
<1>5. CASE Clear
  BY <1>3, <1>4, <1>5 DEF Clear, At, GoTo
<1>6. CASE InsertBatch
  <2>1. Restoring /\ step = "insert" /\ Exec(Conn) /\ stage = "restore"
    BY <1>3, <1>6 DEF InsertBatch, At, Restoring, Calling
  <2>2. ASSUME NEW r \in refs PROVE ~Refused(r, Head(todo))
    <3>1. refs \subseteq From(Head(todo)) /\ Same(db["home"][Head(todo)], With(Head(todo), refs))
      BY <2>1 DEF SqlInv, TableInv, Restoring
    <3>2. From(Head(todo)) = {Row(1, Value)}
      BY <1>2, <2>1 DEF From, ReadBy, Stored
    <3>3. From(Head(todo)) \ refs = {}
      BY <2>2, <3>1, <3>2
    <3>4. db["home"][Head(todo)] = {}
      <4>1. With(Head(todo), refs) = {}
        BY <3>3 DEF With, Base
      <4>2. db["home"][Head(todo)] \in SUBSET RowSet
        BY <2>1, SourceTyped DEF SqlInv, SavedInv, Databases
      <4> QED BY <1>2, <3>1, <4>1, <4>2, AgreeLaws DEF Same
    <3> QED BY <1>3, <1>4, <2>1, <3>4 DEF Refused, Reached
  <2> QED BY <1>3, <1>6, <2>2 DEF InsertBatch
<1>7. CASE Reindex
  BY <1>3, <1>7 DEF Reindex, Duplicates, GoTo
<1>8. CASE EnableChecks
  BY <1>3, <1>8 DEF EnableChecks, AfterTable, At, Restoring, Calling
<1>9. CASE ScanTable \/ Publish \/ OpenBackend \/ LoadSchema \/ DisableChecks \/ ReadRefs \/ NothingToRollBack
  BY <1>3, <1>9 DEF ScanTable, Publish, OpenBackend, LoadSchema, DisableChecks, ReadRefs, NothingToRollBack, GoTo
<1>11. CASE ReadManifest
  <2>1. Reads = "source"
    BY <1>3, <1>11 DEF ReadManifest, Calling, Reads
  <2> QED BY <1>2, <1>3, <1>11, <2>1 DEF ReadManifest, GoTo
<1>10. CASE TakeConn \/ ReturnConn \/ LoseConn \/ OthersDelete \/ OthersInsert \/ GCDeletes \/ UNCHANGED sqlVars
  BY <1>3, <1>10 DEF TakeConn, ReturnConn, LoseConn, OthersDelete, OthersInsert, GCDeletes, sqlVars, control
<1> QED BY <1>1, <1>5, <1>6, <1>7, <1>8, <1>9, <1>10, <1>11 DEF SqlNext, SafetyStep, TableStep

-----------------------------------------------------------------------------
LEMMA SqlInvInit == SqlInit => SqlInv
<1> SUFFICES ASSUME SqlInit PROVE SqlInv
  OBVIOUS
<1>1. StageInv
  BY WorkLists DEF SqlInit, StageInv
<1>2. PoolInv
  <2>1. Opened \in Conns /\ Opened.tenant /\ Opened.checks
    BY DEF Opened, Conns
  <2>2. pool \in Seq(Conns) /\ Len(pool) = 1 /\ pool[1] = Opened
    BY <2>1 DEF SqlInit
  <2>3. MaxOpen >= 1 /\ held = None /\ held \in [kind : {"conn"}, conn : Conns] \cup {None}
    BY DEF MaxOpen, SqlInit
  <2>4. Len(pool) + (IF held = None THEN 0 ELSE 1) <= MaxOpen
    BY <2>2, <2>3 DEF MaxOpen
  <2>5. bare = FALSE /\ disturbed = 0 /\ faults = {} /\ step = "get" /\ written = {} /\ deleted = {}
    BY DEF SqlInit
  <2> QED BY <2>1, <2>2, <2>3, <2>4, <2>5 DEF PoolInv
<1>3. /\ db \in [Databases -> [Names -> SUBSET RowSet]]
      /\ \A t \in Names : Same(db["home"][t], Live("home", t))
      /\ \A d \in Databases, t \in Names : Unchanged(db[d][t])
  <2>1. \A d \in Databases : [t \in Names |-> Live(d, t)] \in [Names -> SUBSET RowSet]
    BY RowsTyped DEF Databases
  <2>2. db = [d \in Databases |-> [t \in Names |-> Live(d, t)]]
    BY DEF SqlInit
  <2>3. \A d \in Databases, t \in Names : db[d][t] = Live(d, t)
    BY <2>2
  <2>4. \A t \in Names : Same(db["home"][t], Live("home", t))
    BY <2>3, AgreeLaws DEF Same, Databases
  <2>5. \A d \in Databases, t \in Names : Unchanged(db[d][t])
    BY <2>3, RowsTyped DEF Databases
  <2> QED BY <2>1, <2>2, <2>4, <2>5
<1>4. SavedInv
  BY <1>3, SqlAssumption DEF SqlInit, SavedInv, Databases
<1>5. TableInv
  BY <1>3, NamesAre DEF SqlInit, TableInv, Due
<1>6. IndexInv /\ CalmInv
  BY NamesAre DEF SqlInit, IndexInv, CalmInv
<1> QED BY <1>1, <1>2, <1>4, <1>5, <1>6 DEF SqlInv

\* The invariant of SQL restores.
THEOREM SqlInvAlways == SqlSpec => []SqlInv
<1>1. SqlInv /\ [SqlNext]_sqlVars => SqlInv'
  BY StageStep, PoolStep, SavedStep, TablesStep, IndexStep, CalmStep DEF SqlInv
<1> QED BY SqlInvInit, <1>1, PTL DEF SqlSpec

\* A SQL restore that clears the tables leaves the snapshot's rows and indexes, or
\* after a rollback the rows of before; meanwhile all that was cleared is in the
\* safety snapshot, and no row is left without the row it refers to
\* (src/internal/snapshot/restore_sql.go:48-195).
THEOREM RowsAreRestoredAlways == SqlSpec => []RowsAreRestored
<1>1. SqlInv => RowsAreRestored
  <2> SUFFICES ASSUME SqlInv PROVE RowsAreRestored
    OBVIOUS
  <2>1. ToSet(<<>>) = {}
    BY NamesAre
  <2>2. stage \in {"restored", "rolledBack"} => \A t \in Due : Same(db["home"][t], With(t, {}))
    BY <2>1 DEF SqlInv, StageInv, TableInv
  <2>3. stage = "rolledBack" => dropping /\ safety # None /\ safety.tables = Names \ keyless
    BY DEF SqlInv, StageInv, SavedInv
  <2>4. \A t : With(t, {}) = Base(t) \cup {Literal(r) : r \in From(t)}
    BY DEF With
  <2>5. /\ db \in [Databases -> [Names -> SUBSET RowSet]] /\ "home" \in Databases
        /\ safety # None => \A t \in Names : safety.rows[t] \in SUBSET RowSet /\ Unchanged(safety.rows[t])
    BY DEF SqlInv, SavedInv, Databases
  <2>6. \A t \in Names, rows \in SUBSET RowSet : Same(db["home"][t], rows) => Faithful(t, rows)
    BY <2>5 DEF Same, Agree, Faithful
  <2>7. \A t, rows : Convertible /\ Unchanged(rows) => {Literal(r) : r \in rows} = rows
    BY Converted DEF Unchanged
  <2>8. SuccessRestores
    <3> SUFFICES ASSUME stage = "restored", dropping, Convertible, "source" \notin deleted, NEW t \in Names
                 PROVE  Faithful(t, Stored(t))
      BY DEF SuccessRestores
    <3>1. Same(db["home"][t], With(t, {})) /\ From(t) = Stored(t) /\ Base(t) = {}
      BY <2>2 DEF Due, From, ReadBy, Base
    <3>2. Unchanged(Stored(t)) /\ Stored(t) \in SUBSET RowSet
      BY RowsTyped
    <3>3. With(t, {}) = Stored(t)
      BY <2>4, <2>7, <3>1, <3>2
    <3> QED BY <2>6, <3>1, <3>2, <3>3
  <2>9. RollbackRestores
    <3> SUFFICES ASSUME stage = "rolledBack", target = "home", Convertible, keyless = {},
                        "safety" \notin deleted, NEW t \in Names
                 PROVE  Faithful(t, safety.rows[t])
      BY DEF RollbackRestores
    <3>1. Same(db["home"][t], With(t, {})) /\ From(t) = safety.rows[t] /\ Base(t) = {}
      BY <2>2, <2>3 DEF Due, From, ReadBy, Base
    <3>2. Unchanged(safety.rows[t]) /\ safety.rows[t] \in SUBSET RowSet
      BY <2>3, <2>5
    <3>3. With(t, {}) = safety.rows[t]
      BY <2>4, <2>7, <3>1, <3>2
    <3> QED BY <2>6, <3>1, <3>2, <3>3
  <2>10. ClearedIsSaved
    <3> SUFFICES ASSUME target = "home", NEW t \in cleared \ keyless
                 PROVE  Saved(t) /\ {r \in Live("home", t) : r.key \notin written} \subseteq safety.rows[t]
      BY DEF ClearedIsSaved
    <3>1. t \in Names /\ dropping
      BY DEF SqlInv, StageInv
    <3>2. safety # None /\ safety.tables = Names \ keyless
      BY <3>1 DEF SqlInv, SavedInv
    <3>3. Same(safety.rows[t], Live("home", t)) /\ Live("home", t) \subseteq RowSet
      BY <3>1, <3>2, RowsTyped DEF SqlInv, SavedInv
    <3> QED BY <3>1, <3>2, <3>3 DEF Saved, Same, Agree
  <2>11. NoOrphans
    <3> SUFFICES ASSUME stage \in {"restored", "rolledBack"}, disturbed = 0, keyless = {}, target = "home"
                 PROVE  {r.key : r \in db["home"]["child"]} \subseteq {r.key : r \in db["home"]["parent"]}
      BY DEF NoOrphans
    <3>1. Due = Names /\ "child" \in Names /\ "parent" \in Names /\ written = {}
      BY <2>3, NamesAre DEF Due, SqlInv, PoolInv
    <3>2. From("child") = From("parent")
      <4>1. Live("home", "child") = Live("home", "parent")
        BY DEF Live
      <4>2. CASE stage = "restored"
        BY <4>2 DEF From, ReadBy, Stored
      <4>3. CASE stage = "rolledBack"
        <5>1. \A t \in Names : safety.rows[t] = Live("home", t)
          <6> SUFFICES ASSUME NEW t \in Names PROVE safety.rows[t] = Live("home", t)
            OBVIOUS
          <6>1. Agree({}, safety.rows[t], Live("home", t))
            BY <2>3, <3>1, <4>3 DEF SqlInv, SavedInv, Same
          <6> QED BY <2>3, <2>5, <4>3, <6>1, RowsTyped, AgreeLaws
        <5> QED BY <3>1, <4>1, <4>3, <5>1 DEF From, ReadBy
      <4> QED BY <4>2, <4>3
    <3>3. Base("child") = Base("parent")
      BY DEF Base, Live
    <3>4. With("child", {}) = With("parent", {})
      BY <2>4, <3>2, <3>3
    <3>5. Agree({}, db["home"]["child"], db["home"]["parent"])
      BY <2>2, <3>1, <3>4 DEF Same, Agree
    <3>6. db["home"]["child"] = db["home"]["parent"]
      BY <2>5, <3>1, <3>5, AgreeLaws
    <3> QED BY <3>6
  <2>12. IndexesComeBack
    BY <2>1 DEF IndexesComeBack, SqlInv, StageInv, IndexInv
  <2> QED BY <2>8, <2>9, <2>10, <2>11, <2>12 DEF RowsAreRestored
<1> QED BY SqlInvAlways, <1>1, PTL

\* When a SQL restore is over, each connection of the session has its foreign-key
\* checks on again; none of its statements ran without the tenant, and with the
\* checks off the order of the tables makes nothing fail, unless somebody else
\* used the session (src/internal/snapshot/restore_sql.go:126-132, 338-342).
THEOREM ConnectionsAreCleanAlways == SqlSpec => []ConnectionsAreClean
<1>1. SqlInv => ConnectionsAreClean
  <2> SUFFICES ASSUME SqlInv PROVE ConnectionsAreClean
    OBVIOUS
  <2>1. SqlTypeOK
    BY DEF SqlTypeOK, SqlInv, StageInv, PoolInv
  <2>2. ChecksAreBack
    <3> SUFFICES ASSUME Over, disturbed = 0, "enable" \notin faults, NEW i \in DOMAIN pool PROVE pool[i].checks
      BY DEF ChecksAreBack
    <3>1. step \in {"get", "open", "schema"}
      BY DEF Over, SqlInv, StageInv
    <3>2. i = 1
      BY DEF SqlInv, PoolInv
    <3> QED BY <3>1, <3>2 DEF SqlInv, PoolInv
  <2>3. OrderDoesNotMatter
    BY DEF OrderDoesNotMatter, SqlInv, CalmInv, PoolInv
  <2>4. TenantUnlessShared
    BY DEF TenantUnlessShared, SqlInv, PoolInv
  <2> QED BY <2>1, <2>2, <2>3, <2>4 DEF ConnectionsAreClean
<1> QED BY SqlInvAlways, <1>1, PTL
=============================================================================
