----------------------------- MODULE RemoteSync -----------------------------
(***************************************************************************)
(* Snapshot histories shared through a git remote (src/internal/remote,    *)
(* src/cmd/remote.go, src/desktop/remote.go): machines that each keep a    *)
(* scope directory of the fs backend create and prune snapshots in it and  *)
(* push, pull and clone it.                                                *)
(*                                                                         *)
(* Push and Pull take no scope lock: git reads and writes the directory    *)
(* between any two file operations of a Create or GC, which may fail or    *)
(* die between them.  Of these a machine runs one at a time: what a GC     *)
(* does to a Create whose scan it overlaps is SnapshotScope's subject.     *)
(* git itself is modelled from how it is                                   *)
(* called: "git add -A" lists new files first and reads the tracked ones   *)
(* after, a push that is not a fast-forward is refused, and a pull merges  *)
(* file by file, index.json line by line.                                  *)
(***************************************************************************)
EXTENDS Naturals, Sequences, FiniteSets, FiniteSetsExt

CONSTANTS Machines,
          Founders,    \* bound: where "remote-init" is run, the others clone
          MaxSnap,     \* bound: snapshots are 1..MaxSnap, oldest first
          Objects,
          Content,     \* the objects each snapshot's documents hash to
          Reconciles,  \* whether the users' git merges diverged branches
          None,
          Identity,    \* identity.json
          Ignore,      \* .gitignore
          Conflict,    \* an index.json with conflict markers
          MaxCommits, MaxGCs, \* bounds
          MaxTasks     \* bound: Creates and GCs at work at once, and Pushes

Snaps == 1..MaxSnap

ASSUME RemoteAssumption ==
  /\ Content \in [Snaps -> SUBSET Objects]
  /\ Reconciles \in BOOLEAN
  /\ MaxSnap \in Nat /\ MaxCommits \in Nat /\ MaxGCs \in Nat /\ MaxTasks \in Nat

\* The names of things of different kinds differ.
ASSUME NamesAssumption ==
  /\ Identity # Ignore /\ {Identity, Ignore} \cap (Snaps \cup Objects) = {}
  /\ Snaps \cap Objects = {}
  /\ \A list \in SUBSET Snaps : Conflict # list
  /\ None \notin Machines
  /\ None \notin [do : {"publish", "save", "load", "prune", "mark", "sweep"}, snap : 0..MaxSnap,
                  list : SUBSET Snaps, kept : SUBSET Snaps, doomed : SUBSET (Snaps \cup Objects)]
  /\ None \notin [do : {"add", "send"}, new : SUBSET (Snaps \cup Objects \cup {Identity, Ignore}),
                  seen : SUBSET Snaps]

VARIABLES
  files,    \* files[m]: of the scope directory (a snapshot stands for its manifest)
  index,    \* index[m]: what index.json lists
  repo,     \* no repository, one that Init left half made, or a ready one
  origin,   \* whether a remote is configured
  tracked,  \* tracked[m]: the files in git's index
  head,     \* the commit each machine is on, 0 before the first
  merging,  \* the commit a conflicted pull is merging, or 0
  commits, remote,
  op,       \* the Create or GC at work on each machine
  sync,     \* the Push at work on each machine
  gcs,      \* the machines GCs were begun on
  \* History
  maker,    \* the machine that made each snapshot
  created,  \* snapshots whose Create listed them
  pruned,   \* listed snapshots some GC removed
  swept,    \* swept[m]: objects and manifests GC removed on m
  crossed,  \* whether a pull changed an index that was about to be overwritten
  torn,     \* snapshots a Push committed in the middle of their publishing or pruning
  early,    \* commits made before Init had succeeded
  shown     \* snapshots the remote has listed

local   == <<files, index>>
git     == <<repo, origin, tracked, head, merging>>
shared  == <<commits, remote>>
history == <<maker, created, pruned, swept, crossed, torn, early, shown>>
vars    == <<local, git, shared, op, sync, gcs, history>>

Files == Snaps \cup Objects \cup {Identity, Ignore}
Indexes == (SUBSET Snaps) \cup {Conflict}
Listed(i) == IF i = Conflict THEN {} ELSE i
Idle(m) == op[m] = None /\ sync[m] = None
MayStart(tasks) == Cardinality({m \in Machines : tasks[m] # None}) < MaxTasks

\* A snapshot is complete where its manifest and its objects are.
Complete(s, fs) == {s} \cup Content[s] \subseteq fs

\* Commits are numbered; 0 is the empty history.
At(c) == IF c = 0 THEN [files |-> {}, index |-> {}, past |-> {}] ELSE commits[c]
Past(c) == At(c).past
Commit(fs, i, past) ==
  commits' = Append(commits, [files |-> fs, index |-> i, past |-> past \cup {Len(commits) + 1}])

-----------------------------------------------------------------------------
(* Setting up.                                                             *)

\* Mutant: .gitignore is left to the user.
InitRemote_NoIgnore(m) ==
  /\ m \in Founders /\ repo[m] # "ready" /\ Idle(m)
  /\ \/ repo' = [repo EXCEPT ![m] = "half"] /\ UNCHANGED origin
     \/ repo' = [repo EXCEPT ![m] = "ready"] /\ origin' = [origin EXCEPT ![m] = TRUE]
  /\ UNCHANGED <<local, tracked, head, merging, shared, op, sync, gcs, history>>

\* Mutant: the remote is added whether or not Init succeeded.
InitRemote_Anyway(m) ==
  /\ m \in Founders /\ repo[m] # "ready" /\ Idle(m)
  /\ origin' = [origin EXCEPT ![m] = TRUE]
  /\ \/ repo' = [repo EXCEPT ![m] = "half"] /\ UNCHANGED files
     \/ /\ repo' = [repo EXCEPT ![m] = "ready"]
        /\ files' = [files EXCEPT ![m] = @ \cup {Ignore}]
  /\ UNCHANGED <<index, tracked, head, merging, shared, op, sync, gcs, history>>

\* Without git-lfs Init fails after "git init": no .gitignore, and its callers
\* add no remote.
InitRemote(m) ==
  /\ m \in Founders /\ repo[m] # "ready" /\ Idle(m)
  /\ \/ repo' = [repo EXCEPT ![m] = "half"] /\ UNCHANGED <<files, origin>>
     \/ /\ repo' = [repo EXCEPT ![m] = "ready"] /\ origin' = [origin EXCEPT ![m] = TRUE]
        /\ files' = [files EXCEPT ![m] = @ \cup {Ignore}]
  /\ UNCHANGED <<index, tracked, head, merging, shared, op, sync, gcs, history>>

\* Clone wants a directory with nothing but identity.json, which it removes and
\* the next look at the scope writes again; opening a scope for a Create or GC
\* leaves a directory of objects there.
CloneRemote(m) ==
  /\ Idle(m) /\ repo[m] = "none" /\ remote # 0
  /\ files[m] = {Identity} /\ (\A n \in 1..Len(gcs) : gcs[n] # m) /\ \A s \in Snaps : maker[s] # m
  /\ files' = [files EXCEPT ![m] = At(remote).files \cup {Identity}]
  /\ tracked' = [tracked EXCEPT ![m] = At(remote).files]
  /\ index' = [index EXCEPT ![m] = At(remote).index]
  /\ head' = [head EXCEPT ![m] = remote]
  /\ repo' = [repo EXCEPT ![m] = "ready"] /\ origin' = [origin EXCEPT ![m] = TRUE]
  /\ UNCHANGED <<merging, shared, op, sync, gcs, history>>

-----------------------------------------------------------------------------
(* Snapshots on one machine.  Create stores the objects that are not there *)
(* yet and the manifest, in one step here, and then lists it in the index. *)

Works(m, stage) == op[m] # None /\ op[m].do = stage

CreateStores(m) ==
  /\ op[m] = None /\ index[m] # Conflict /\ MayStart(op)
  /\ \E s \in Snaps :
       /\ \A r \in Snaps : maker[r] = None <=> r >= s
       /\ maker' = [maker EXCEPT ![s] = m]
       /\ op' = [op EXCEPT ![m] = [do |-> "publish", snap |-> s, list |-> {}, kept |-> {}, doomed |-> {}]]
       /\ files' = [files EXCEPT ![m] = @ \cup {s} \cup Content[s]]
  /\ UNCHANGED <<index, git, shared, sync, gcs, created, pruned, swept, crossed, torn, early, shown>>

\* An index that does not parse fails the Create, whose manifest stays behind.
CreateLoads(m) ==
  /\ Works(m, "publish") /\ index[m] # Conflict
  /\ op' = [op EXCEPT ![m].do = "save", ![m].list = index[m]]
  /\ UNCHANGED <<local, git, shared, sync, gcs, history>>

CreateSaves(m) ==
  /\ Works(m, "save")
  /\ index' = [index EXCEPT ![m] = op[m].list \cup {op[m].snap}]
  /\ created' = created \cup {op[m].snap}
  /\ op' = [op EXCEPT ![m] = None]
  /\ UNCHANGED <<files, git, shared, sync, gcs, maker, pruned, swept, crossed, torn, early, shown>>

\* GC keeps the youngest snapshots.
GCLoads(m) ==
  /\ op[m] = None /\ index[m] # Conflict /\ MayStart(op)
  /\ Len(gcs) < MaxGCs
  /\ gcs' = Append(gcs, m)
  /\ \E k \in 0..1 :
       op' = [op EXCEPT ![m] = [do |-> "load", snap |-> 0, list |-> index[m],
                                kept |-> {s \in index[m] : Cardinality({r \in index[m] : r > s}) < k},
                                doomed |-> {}]]
  /\ UNCHANGED <<local, git, shared, sync, history>>

\* The manifests the index does not list go as well.
GCLists(m) ==
  /\ Works(m, "load")
  /\ op' = [op EXCEPT ![m].do = "prune",
                      ![m].doomed = ((files[m] \cap Snaps) \ op[m].list) \cup (op[m].list \ op[m].kept)]
  /\ UNCHANGED <<local, git, shared, sync, gcs, history>>

\* One manifest, or one object.
GCRemoves(m) ==
  /\ op[m] # None
  /\ \E f \in op[m].doomed :
       /\ files' = [files EXCEPT ![m] = @ \ {f}]
       /\ pruned' = pruned \cup ({f} \cap op[m].list)
       /\ swept' = [swept EXCEPT ![m] = @ \cup {f}]
       /\ op' = [op EXCEPT ![m].doomed = @ \ {f}]
  /\ UNCHANGED <<index, git, shared, sync, gcs, maker, created, crossed, torn, early, shown>>

\* The index is saved when every manifest is gone.
GCSaves(m) ==
  /\ Works(m, "prune") /\ op[m].doomed = {}
  /\ index' = [index EXCEPT ![m] = op[m].kept]
  /\ op' = [op EXCEPT ![m].do = "mark"]
  /\ UNCHANGED <<files, git, shared, sync, gcs, history>>

\* Marking fails when a manifest it keeps is not there.
GCMarks(m) ==
  /\ Works(m, "mark") /\ op[m].kept \subseteq files[m]
  /\ op' = [op EXCEPT ![m].do = "sweep",
                      ![m].doomed = (files[m] \cap Objects) \ UNION {Content[s] : s \in op[m].kept}]
  /\ UNCHANGED <<local, git, shared, sync, gcs, history>>

\* A sweep has ended, or a Create or GC has failed, or died, between two steps.
OpStops(m) ==
  /\ op[m] # None /\ op' = [op EXCEPT ![m] = None]
  /\ UNCHANGED <<local, git, shared, sync, gcs, history>>

-----------------------------------------------------------------------------
(* Push: git add -A, git commit, git push.                                 *)

\* Mutant: the objects are left to git-lfs.
Ignored_Objects(m) == IF Ignore \in files[m] THEN {Identity} \cup Objects ELSE {}

\* What the .gitignore of a ready repository keeps out.
Ignored(m) == IF Ignore \in files[m] THEN {Identity} ELSE {}

PushLists(m) ==
  /\ repo[m] # "none" /\ sync[m] = None /\ MayStart(sync)
  /\ sync' = [sync EXCEPT ![m] = [do |-> "add", new |-> (files[m] \ tracked[m]) \ Ignored(m),
                                  seen |-> Listed(index[m])]]
  /\ UNCHANGED <<local, git, shared, op, gcs, history>>

\* Snapshots m lists although its GC has removed their manifests: until that GC
\* saves the index, or for good when it does not get there.
HalfPruned(m) == Listed(index[m]) \cap swept[m]

\* Tracked files are read, or found gone, after the listing.  A listed file
\* that is gone by then fails the Push; without a change there is no commit.
PushCommits(m) ==
  /\ sync[m] # None /\ sync[m].do = "add"
  /\ LET fs == (tracked[m] \cap files[m]) \cup sync[m].new
         same == merging[m] = 0 /\ At(head[m]).files = fs /\ At(head[m]).index = index[m]
     IN \/ /\ ~(sync[m].new \subseteq files[m])
           /\ sync' = [sync EXCEPT ![m] = None]
           /\ UNCHANGED <<tracked, head, merging, commits, torn, early>>
        \/ /\ sync[m].new \subseteq files[m]
           /\ IF same THEN UNCHANGED <<head, commits, early>>
              ELSE /\ Len(commits) < MaxCommits
                   /\ Commit(fs, index[m], Past(head[m]) \cup Past(merging[m]))
                   /\ head' = [head EXCEPT ![m] = Len(commits) + 1]
                   /\ early' = IF repo[m] = "half" THEN early \cup {Len(commits) + 1} ELSE early
           /\ tracked' = [tracked EXCEPT ![m] = fs]
           /\ merging' = [merging EXCEPT ![m] = 0]
           /\ torn' = torn \cup (Listed(index[m]) \ sync[m].seen) \cup HalfPruned(m)
           /\ sync' = [sync EXCEPT ![m].do = "send"]
  /\ UNCHANGED <<local, repo, origin, remote, op, gcs, maker, created, pruned, swept, crossed, shown>>

\* Mutant: git push --force.
PushSends_Force(m) ==
  /\ sync[m] # None /\ sync[m].do = "send"
  /\ \/ origin[m] /\ remote' = head[m] /\ shown' = shown \cup Listed(At(head[m]).index)
     \/ UNCHANGED <<remote, shown>>
  /\ sync' = [sync EXCEPT ![m] = None]
  /\ UNCHANGED <<local, git, commits, op, gcs, maker, created, pruned, swept, crossed, torn, early>>

\* Refused without a remote, for a history that does not contain the
\* remote's, or by the network.
PushSends(m) ==
  /\ sync[m] # None /\ sync[m].do = "send"
  /\ \/ /\ origin[m] /\ head[m] # 0 /\ (remote = 0 \/ remote \in Past(head[m]))
        /\ remote' = head[m] /\ shown' = shown \cup Listed(At(head[m]).index)
     \/ UNCHANGED <<remote, shown>>
  /\ sync' = [sync EXCEPT ![m] = None]
  /\ UNCHANGED <<local, git, commits, op, gcs, maker, created, pruned, swept, crossed, torn, early>>

-----------------------------------------------------------------------------
(* Pull.                                                                   *)

\* Mutant: theirs replaces ours.
Merged_Theirs(base, ours, theirs) == theirs

\* The files after a change from "base" to "theirs" is applied to "ours".
Merged(base, ours, theirs) == (ours \ (base \ theirs)) \cup (theirs \ base)

\* What the merge of index.json may give.  Two entries appended at its end
\* conflict; whether a removal conflicts with another edit depends on how far
\* apart they are.
MergedIndexes(base, ours, theirs) ==
  CASE ours = theirs \/ theirs = base -> {ours}
    [] ours = base -> {theirs}
    [] OTHER ->
         IF Conflict \in {base, ours, theirs} THEN {Conflict}
         ELSE {Conflict} \cup
              IF ours \subseteq base \/ theirs \subseteq base
                THEN {Merged(base, ours, theirs)} ELSE {}

\* The youngest commit two histories share.
Base(a, b) == IF Past(a) \cap Past(b) = {} THEN 0 ELSE Max(Past(a) \cap Past(b))

\* Mutant: local changes do not stop the pull.
InTheWay_Never(m, b) == FALSE

\* git refuses to overwrite files it does not track and a changed index.json.
InTheWay(m, b) ==
  LET theirs == At(remote)
  IN \/ (theirs.files \ At(b).files) \cap (files[m] \ tracked[m]) # {}
     \/ theirs.index # At(b).index /\ index[m] # At(head[m]).index

Pullable(m) ==
  /\ origin[m] /\ sync[m] = None /\ merging[m] = 0
  /\ remote # 0 /\ head[m] # 0 /\ remote \notin Past(head[m])

\* Create and GC save what they made of the index they had loaded.
WillOverwrite(m) == op[m] # None /\ op[m].do \in {"save", "load", "prune"}
Crosses(m) == crossed' = (crossed \/ (WillOverwrite(m) /\ index'[m] # index[m]))

PullForwards(m) ==
  /\ Pullable(m) /\ head[m] \in Past(remote) /\ ~InTheWay(m, head[m])
  /\ LET was == At(head[m]) now == At(remote)
     IN /\ files' = [files EXCEPT ![m] = Merged(was.files, @, now.files)]
        /\ index' = [index EXCEPT ![m] = IF now.index = was.index THEN @ ELSE now.index]
        /\ tracked' = [tracked EXCEPT ![m] = now.files]
  /\ head' = [head EXCEPT ![m] = remote]
  /\ Crosses(m)
  /\ UNCHANGED <<repo, origin, merging, shared, op, sync, gcs, maker, created, pruned, swept,
                 torn, early, shown>>

\* A clean merge is committed, a conflict is left in the scope directory.
PullMerges(m) ==
  LET b == Base(head[m], remote)
      was == At(b) theirs == At(remote)
      fs == Merged(was.files, tracked[m], theirs.files)
  IN /\ Pullable(m) /\ head[m] \notin Past(remote) /\ b # 0 /\ Reconciles
     /\ ~InTheWay(m, b)
     /\ files' = [files EXCEPT ![m] = Merged(was.files, @, theirs.files)]
     /\ tracked' = [tracked EXCEPT ![m] = fs]
     /\ \E i \in MergedIndexes(was.index, At(head[m]).index, theirs.index) :
          /\ index' = [index EXCEPT ![m] = IF theirs.index = was.index THEN @ ELSE i]
          /\ IF i = Conflict
               THEN /\ merging' = [merging EXCEPT ![m] = remote]
                    /\ UNCHANGED <<head, commits>>
               ELSE /\ Len(commits) < MaxCommits
                    /\ Commit(fs, i, Past(head[m]) \cup Past(remote))
                    /\ head' = [head EXCEPT ![m] = Len(commits) + 1]
                    /\ UNCHANGED merging
     /\ Crosses(m)
     /\ UNCHANGED <<repo, origin, remote, op, sync, gcs, maker, created, pruned, swept,
                    torn, early, shown>>

-----------------------------------------------------------------------------
Init ==
  /\ files = [m \in Machines |-> {Identity}] /\ index = [m \in Machines |-> {}]
  /\ repo = [m \in Machines |-> "none"] /\ origin = [m \in Machines |-> FALSE]
  /\ tracked = index /\ head = [m \in Machines |-> 0] /\ merging = head
  /\ commits = <<>> /\ remote = 0
  /\ op = [m \in Machines |-> None] /\ sync = op /\ gcs = <<>>
  /\ maker = [s \in Snaps |-> None] /\ created = {} /\ pruned = {} /\ swept = tracked
  /\ crossed = FALSE /\ torn = {} /\ early = {} /\ shown = {}

Next ==
  \E m \in Machines :
    \/ InitRemote(m) \/ CloneRemote(m)
    \/ CreateStores(m) \/ CreateLoads(m) \/ CreateSaves(m)
    \/ GCLoads(m) \/ GCLists(m) \/ GCRemoves(m) \/ GCSaves(m) \/ GCMarks(m)
    \/ OpStops(m)
    \/ PushLists(m) \/ PushCommits(m) \/ PushSends(m)
    \/ PullForwards(m) \/ PullMerges(m)

Spec == Init /\ [][Next]_vars

-----------------------------------------------------------------------------
TypeOK ==
  /\ files \in [Machines -> SUBSET Files] /\ tracked \in [Machines -> SUBSET Files]
  /\ index \in [Machines -> Indexes]
  /\ repo \in [Machines -> {"none", "half", "ready"}] /\ origin \in [Machines -> BOOLEAN]
  /\ \A m \in Machines : origin[m] => repo[m] = "ready"
  /\ remote \in 0..Len(commits) /\ \A m \in Machines : {head[m], merging[m]} \subseteq 0..Len(commits)
  /\ \A c \in 1..Len(commits) :
       commits[c].files \subseteq Files /\ commits[c].index \in Indexes /\ commits[c].past \subseteq 1..c

\* A file may be missing when GC removed it on another machine than the one
\* that made the snapshot: an object its index had no use for, or the manifest,
\* pruned or not listed yet.  git merges the removal.
SweptElsewhere(s) ==
  \E m \in Machines \ {maker[s]} : ({s} \cup Content[s]) \cap swept[m] # {}

\* A pushed history restores (remote.go:149-172): what the remote lists is
\* there, unless a Push committed the snapshot while it was being listed
\* (snapshotter.go:133-138) or after a GC had removed its manifest and not yet
\* saved the index (gc.go:134-145), or GC on another machine swept its files.
PublishedIsComplete ==
  \A s \in Listed(At(remote).index) :
    Complete(s, At(remote).files) \/ s \in torn \/ SweptElsewhere(s)

\* The machine that made a snapshot can restore it while it lists it, whatever
\* it pushes and pulls (snapshotter.go:94-140), unless its own GC has begun to
\* prune it, which is for good when that GC fails or dies before it saves the
\* index (gc.go:134-145), or the same sweep.
OwnIsComplete ==
  \A m \in Machines : \A s \in Listed(index[m]) :
    maker[s] = m => Complete(s, files[m]) \/ s \in HalfPruned(m) \/ SweptElsewhere(s)

\* No push takes a snapshot off the remote that no GC has pruned
\* (remote.go:168): a history that misses it is refused, a conflicted index
\* makes the whole list unreadable.
PublishedIsKept ==
  \A s \in shown : s \in Listed(At(remote).index) \cup pruned \/ At(remote).index = Conflict

\* No pull takes a snapshot off the machine that made it (remote.go:186).
LocalIsKept ==
  \A m \in Machines : \A s \in created :
    maker[s] = m /\ index[m] # Conflict => s \in index[m] \cup pruned

\* identity.json "must never be pushed" (remote.go:112-117): it is in no
\* commit but those made after an Init that failed, and their descendants.
IdentityExplained ==
  \A c \in 1..Len(commits) : Identity \in commits[c].files => commits[c].past \cap early # {}

\* What is published can be restored by whoever clones it, and stays published,
\* unless a pull changed an index that a Create or GC had loaded and saved after
\* it: what the pull had brought is overwritten then, and the next Push takes it
\* off the remote.
PublishedIsSafe == TypeOK /\ (~crossed => PublishedIsComplete /\ PublishedIsKept)

\* A machine that pulls keeps what it made, complete, with the same exception;
\* without any, the commits it makes keep its identity.json out.
LocalIsSafe == (~crossed => OwnIsComplete /\ LocalIsKept) /\ IdentityExplained
=============================================================================
