--------------------------- MODULE RemoteSyncProofs ---------------------------
(***************************************************************************)
(* Proofs about shared histories (RemoteSync), for any machines, snapshots *)
(* and commits: what a push publishes and a pull keeps.                    *)
(***************************************************************************)
EXTENDS RemoteSync, TLAPS

\* What the machines are at.
Stages == {"publish", "save", "load", "prune", "mark", "sweep"}
Ops   == [do : Stages, snap : 0..MaxSnap, list : SUBSET Snaps, kept : SUBSET Snaps,
          doomed : SUBSET (Snaps \cup Objects)]
Syncs == [do : {"add", "send"}, new : SUBSET Files, seen : SUBSET Snaps]

ShapeInv ==
  /\ TypeOK
  /\ repo \in [Machines -> {"none", "half", "ready"}] /\ origin \in [Machines -> BOOLEAN]
  /\ head \in [Machines -> Nat] /\ merging \in [Machines -> Nat]
  /\ commits \in Seq([files : SUBSET Files, index : Indexes, past : SUBSET Nat])
  /\ op \in [Machines -> Ops \cup {None}] /\ sync \in [Machines -> Syncs \cup {None}]
  /\ maker \in [Snaps -> Machines \cup {None}] /\ swept \in [Machines -> SUBSET Files]
  /\ created \subseteq Snaps /\ pruned \subseteq Snaps /\ torn \subseteq Snaps /\ shown \subseteq Snaps
  /\ crossed \in BOOLEAN
  /\ \A m \in Machines : op[m] # None => (op[m].snap # 0 <=> op[m].do \in {"publish", "save"})

-----------------------------------------------------------------------------
(* The graph of commits.  What the remote has is one line of published     *)
(* commits; whatever else a machine knows it has made itself.              *)

\* The commits a machine has, those it is merging included.
Known(m) == Past(head[m]) \cup Past(merging[m])

\* The last published commit that m knows, or 0.
IsBase(m, b) == Known(m) \cap Past(remote) = Past(b)

GraphInv ==
  /\ \A c \in 1..Len(commits) : c \in Past(c) /\ \A d \in Past(c) : Past(d) \subseteq Past(c)
  /\ \A m \in Machines : merging[m] # 0 =>
       merging[m] \in Past(remote) /\ head[m] # 0 /\ repo[m] = "ready"
  /\ \A m, n \in Machines : m # n => Known(m) \cap Known(n) \subseteq Past(remote)
  /\ \A m \in Machines : \E b \in 0..Len(commits) : IsBase(m, b)
  /\ \A m \in Machines : sync[m] # None /\ sync[m].do = "send" => merging[m] = 0
  /\ \A m \in Machines : repo[m] = "none" => head[m] = 0 /\ sync[m] = None

\* Before a machine has a repository it works with its own snapshots only.
AloneInv ==
  \A m \in Machines : repo[m] = "none" =>
    /\ index[m] # Conflict /\ \A s \in index[m] : maker[s] = m
    /\ op[m] # None => \A s \in Snaps :
         s \in op[m].list \cup op[m].kept \/ s = op[m].snap => maker[s] = m

-----------------------------------------------------------------------------
(* The Create or GC at work, as long as no pull crosses it.                *)

TaskInv ==
  \A m \in Machines : op[m] # None =>
    /\ op[m].do \in {"save", "load", "prune"} => index[m] = op[m].list
    /\ op[m].do \in {"load", "prune"} => op[m].kept \subseteq op[m].list
    /\ op[m].do \notin {"prune", "sweep"} => op[m].doomed = {}
    /\ op[m].do = "prune" => /\ op[m].doomed \subseteq Snaps \ op[m].kept
                             /\ op[m].list \ op[m].kept \subseteq op[m].doomed \cup pruned
    /\ op[m].do \in {"mark", "sweep"} => \A s \in Listed(index[m]) : maker[s] = m => s \in op[m].kept
    /\ op[m].do = "sweep" => /\ op[m].doomed \subseteq Objects
                             /\ \A s \in op[m].kept : op[m].doomed \cap Content[s] = {}

-----------------------------------------------------------------------------
(* What an index lists stays listed, except for what GC prunes.            *)

KeptBy(c) == Listed(At(c).index) \cup pruned

KeptInv ==
  /\ \A c \in 1..Len(commits) : \A d \in Past(c) :
       \/ At(c).index = Conflict
       \/ At(d).index # Conflict /\ At(d).index \subseteq KeptBy(c)
  /\ \A m \in Machines :
       \/ index[m] = Conflict
       \/ merging[m] = 0 /\ At(head[m]).index # Conflict /\ At(head[m]).index \subseteq index[m] \cup pruned
  /\ PublishedIsKept /\ (remote = 0 => shown = {})
  /\ LocalIsKept

-----------------------------------------------------------------------------
(* identity.json.                                                          *)

IgnoreInv ==
  /\ \A m \in Machines : Ignore \in files[m] <=> repo[m] = "ready"
  /\ remote # 0 => Ignore \in At(remote).files
  /\ \A m \in Machines : Ignore \in At(head[m]).files => Ignore \in tracked[m]
  /\ \A m \in Machines : Ignore \in tracked[m] => repo[m] = "ready"
  /\ \A c \in 1..Len(commits) : \A d \in Past(c) : Ignore \in At(d).files => Ignore \in At(c).files
  /\ \A m \in Machines : sync[m] # None =>
       /\ sync[m].do = "add" /\ repo[m] = "ready" => Ignore \in tracked[m] \cup sync[m].new
       /\ sync[m].do = "send" /\ repo[m] = "ready" => Ignore \in At(head[m]).files
       /\ Ignore \in sync[m].new => repo[m] = "ready"

IdentityInv ==
  /\ \A c \in 1..Len(commits) : Identity \in At(c).files => Past(c) \cap early # {}
  /\ \A m \in Machines : Identity \in tracked[m] => Known(m) \cap early # {}
  /\ \A m \in Machines : sync[m] # None /\ sync[m].do = "add" /\ Identity \in sync[m].new
                           => repo[m] = "half"

-----------------------------------------------------------------------------
(* Where a listing comes from, and that it does not come back.             *)

ListedIn(X) == {s \in Snaps : \E c \in X : s \in Listed(At(c).index)}

Ever(c)   == ListedIn(Past(c))
All       == ListedIn(1..Len(commits))
Published == ListedIn(Past(remote))
Heard(m)  == ListedIn(Known(m))
Common(m) == ListedIn(Known(m) \cap Past(remote))

\* What c has known and lists no more.
Gone(c) == Ever(c) \ Listed(At(c).index)

\* The same for what m works with, of which the commits of a pull are part
\* while they are being merged.
GoneAt(m)   == Heard(m) \ Listed(index[m])
GoneHead(m) == Heard(m) \ (IF merging[m] = 0 THEN Listed(At(head[m]).index) ELSE {})

Publishing(m, s) == op[m] # None /\ op[m].do \in {"publish", "save"} /\ op[m].snap = s
IsListed(s) == s \in All \/ \E m \in Machines : s \in Listed(index[m])

ListInv ==
  /\ \A s \in Snaps : IsListed(s) => s \in created
  /\ \A s \in created : maker[s] # None
  /\ \A m \in Machines : \A s \in Snaps : Publishing(m, s) => maker[s] = m /\ s \notin created
  /\ \A s \in Published : maker[s] \in Machines => s \in Common(maker[s])
  /\ \A m \in Machines : \A s \in Heard(m) \cup Listed(index[m]) : maker[s] # m => s \in Common(m)
  /\ \A c \in 1..Len(commits) : \A d \in Past(c) : Gone(d) \subseteq Gone(c)
  /\ \A m \in Machines : GoneHead(m) \subseteq GoneAt(m)

-----------------------------------------------------------------------------
(* Where the files of a snapshot are.                                      *)

FilesOf(s) == {s} \cup Content[s]
Excused(s) == s \in torn \/ SweptElsewhere(s)

\* The files m answers for when they are lost: not the manifests it made.
Foreign(m) == Objects \cup {s \in Snaps : maker[s] # m}

\* A pull makes out of these what the others know.
TrackInv ==
  /\ \A m \in Machines : merging[m] = 0 => tracked[m] = At(head[m]).files
  /\ \A s \in Snaps : maker[s] = None =>
       /\ \A m \in Machines : s \notin files[m] \cup tracked[m]
       /\ \A m \in Machines : sync[m] # None => s \notin sync[m].new \cup sync[m].seen
       /\ \A c \in 1..Len(commits) : s \notin At(c).files
  /\ \A m \in Machines : \A f \in (tracked[m] \ files[m]) \cap Foreign(m) : f \in swept[m] \cup GoneAt(m)
  /\ \A m \in Machines : \A b \in 0..Len(commits) : IsBase(m, b) =>
       \A f \in (At(b).files \ tracked[m]) \cap Foreign(m) : f \in swept[m] \cup GoneHead(m)

\* What was taken from the remote since m last knew it, others took.
RemovedInv ==
  \A m \in Machines : \A b \in 0..Len(commits) : IsBase(m, b) =>
    \A f \in At(b).files \ At(remote).files :
      f \in Objects \/ (f \in Snaps /\ maker[f] = m) =>
        (\E n \in Machines \ {m} : f \in swept[n]) \/ f \in Gone(remote)

FileInv ==
  /\ \A m \in Machines : \A s \in Snaps : maker[s] = m /\ (s \in Listed(index[m]) \/ Publishing(m, s)) =>
       FilesOf(s) \subseteq files[m] \/ s \in swept[m] \/ SweptElsewhere(s)
  /\ \A m \in Machines : \A s \in Listed(index[m]) :
       FilesOf(s) \subseteq files[m] \/ s \in swept[m] \/ Excused(s)
  /\ \A c \in 1..Len(commits) : \A s \in Listed(At(c).index) : FilesOf(s) \subseteq At(c).files \/ Excused(s)
  /\ \A m \in Machines : sync[m] # None /\ sync[m].do = "add" =>
       \A s \in sync[m].seen :
         FilesOf(s) \subseteq tracked[m] \cup sync[m].new \/ s \in swept[m] \/ Excused(s)

-----------------------------------------------------------------------------
(* Commits and types.                                                      *)

CommitRecords == [files : SUBSET Files, index : Indexes, past : SUBSET Nat]

\* A commit that is there keeps what it holds.
LEMMA NewCommit ==
    ASSUME ShapeInv, NEW fs \in SUBSET Files, NEW i \in Indexes, NEW past \in SUBSET (1..Len(commits)),
           Commit(fs, i, past)
    PROVE  /\ Len(commits') = Len(commits) + 1
           /\ \A c \in 0..Len(commits) : At(c)' = At(c) /\ Past(c)' = Past(c)
           /\ \A new : new = Len(commits) + 1 =>
                /\ At(new)'.files = fs /\ At(new)'.index = i
                /\ At(new)'.past = past \cup {new} /\ Past(new)' = past \cup {new}
           /\ commits' \in Seq(CommitRecords)
<1>1. commits \in Seq(CommitRecords)
  BY DEF ShapeInv, CommitRecords
<1>2. Len(commits) \in Nat /\ 1..Len(commits) \subseteq Nat
  BY <1>1
<1>3. PICK new : new = Len(commits) + 1
  OBVIOUS
<1> DEFINE r == [files |-> fs, index |-> i, past |-> past \cup {new}]
<1>4. new \in Nat /\ new # 0
  BY <1>2, <1>3
<1>12. past \cup {new} \in SUBSET Nat
  BY <1>2, <1>4
<1>5. r \in CommitRecords
  BY <1>12 DEF CommitRecords
<1>6. commits' = Append(commits, r)
  BY <1>3 DEF Commit
<1>7. r.files = fs /\ r.index = i /\ r.past = past \cup {new}
  OBVIOUS
<1> HIDE DEF r
<1>8. /\ Len(commits') = new /\ commits'[new] = r /\ \A c \in 1..Len(commits) : commits'[c] = commits[c]
      /\ commits' \in Seq(CommitRecords)
  BY <1>1, <1>2, <1>3, <1>5, <1>6
<1>9. At(new)' = r /\ Past(new)' = r.past
  BY <1>4, <1>8 DEF At, Past
<1>10. \A c \in 0..Len(commits) : At(c)' = At(c) /\ Past(c)' = Past(c)
  <2> TAKE c \in 0..Len(commits)
  <2>1. c = 0 \/ c \in 1..Len(commits)
    BY <1>2
  <2>2. c = 0 \/ commits'[c] = commits[c]
    BY <1>8, <2>1
  <2>3. At(c)' = At(c)
    BY <2>2 DEF At
  <2> QED BY <2>3 DEF Past
<1>11. \A n : n = Len(commits) + 1 => n = new
  BY <1>3
<1> QED BY <1>3, <1>7, <1>8, <1>9, <1>10, <1>11

LEMMA SameCommits ==
    ASSUME UNCHANGED commits
    PROVE  \A c : At(c)' = At(c) /\ Past(c)' = Past(c)
BY DEF At, Past

LEMMA AtTyped ==
    ASSUME ShapeInv
    PROVE  /\ Len(commits) \in Nat
           /\ \A c \in 0..Len(commits) :
                /\ At(c).files \subseteq Files /\ At(c).index \in Indexes
                /\ Past(c) = At(c).past /\ Past(c) \subseteq 1..c /\ Past(c) \subseteq 1..Len(commits)
           /\ \A c \in 1..Len(commits) : c \in 0..Len(commits) /\ c # 0 /\ At(c) = commits[c]
           /\ \A c \in 0..Len(commits) : c # 0 => c \in 1..Len(commits)
           /\ Past(0) = {} /\ At(0).files = {} /\ At(0).index = {}
           /\ remote \in 0..Len(commits)
           /\ \A m \in Machines : head[m] \in 0..Len(commits) /\ merging[m] \in 0..Len(commits)
<1>1. Len(commits) \in Nat
  BY DEF ShapeInv, CommitRecords
<1>2. \A c \in 1..Len(commits) :
        commits[c].files \subseteq Files /\ commits[c].index \in Indexes /\ commits[c].past \subseteq 1..c
  BY DEF ShapeInv, TypeOK
<1>3. remote \in 0..Len(commits) /\ \A m \in Machines : head[m] \in 0..Len(commits) /\ merging[m] \in 0..Len(commits)
  BY DEF ShapeInv, TypeOK
<1>4. At(0) = [files |-> {}, index |-> {}, past |-> {}] /\ \A c : c # 0 => At(c) = commits[c]
  BY DEF At
<1>5. {} \in Indexes
  BY DEF Indexes
<1>6. \A c \in 0..Len(commits) : c # 0 => c \in 1..Len(commits)
  BY <1>1
<1>7. \A c \in 0..Len(commits) : 1..c \subseteq 1..Len(commits)
  BY <1>1
<1>8. \A c \in 1..Len(commits) : c \in 0..Len(commits) /\ c # 0
  BY <1>1
<1>9. At(0).files = {} /\ At(0).index = {} /\ At(0).past = {}
  BY <1>4
<1>10. \A c \in 0..Len(commits) :
         /\ At(c).files \subseteq Files /\ At(c).index \in Indexes
         /\ Past(c) = At(c).past /\ Past(c) \subseteq 1..c /\ Past(c) \subseteq 1..Len(commits)
  <2> TAKE c \in 0..Len(commits)
  <2>1. CASE c = 0
    BY <2>1, <1>5, <1>9 DEF Past
  <2>2. CASE c # 0
    <3>1. At(c) = commits[c] /\ c \in 1..Len(commits)
      BY <2>2, <1>4, <1>6
    <3> QED BY <3>1, <1>2, <1>7 DEF Past
  <2> QED BY <2>1, <2>2
<1> QED BY <1>1, <1>3, <1>4, <1>6, <1>8, <1>9, <1>10 DEF Past

LEMMA ListedTyped ==
    /\ \A i \in Indexes : Listed(i) \subseteq Snaps /\ (i # Conflict => Listed(i) = i /\ i \subseteq Snaps)
    /\ Listed(Conflict) = {} /\ Listed({}) = {} /\ {} \in Indexes /\ {} # Conflict /\ Conflict \in Indexes
    /\ \A i \in SUBSET Snaps : i \in Indexes /\ i # Conflict /\ Listed(i) = i
<1>1. \A list \in SUBSET Snaps : Conflict # list
  BY NamesAssumption
<1>2. Conflict # {} /\ {} \in SUBSET Snaps
  BY <1>1
<1>3. \A i \in SUBSET Snaps : Listed(i) = i /\ i \in Indexes /\ i # Conflict
  BY <1>1 DEF Listed, Indexes
<1>4. \A i \in Indexes : i = Conflict \/ i \in SUBSET Snaps
  BY DEF Indexes
<1>5. Listed(Conflict) = {} /\ Conflict \in Indexes
  BY DEF Listed, Indexes
<1>6. \A i \in Indexes : Listed(i) \subseteq Snaps /\ (i # Conflict => Listed(i) = i /\ i \subseteq Snaps)
  BY <1>3, <1>4, <1>5
<1> QED BY <1>2, <1>3, <1>5, <1>6

LEMMA ShapeInit == Init => ShapeInv
<1> SUFFICES ASSUME Init PROVE ShapeInv
  OBVIOUS
<1>1. commits = <<>> /\ Len(commits) = 0 /\ remote = 0
  BY DEF Init
<1>2. \A m \in Machines : {head[m], merging[m]} \subseteq 0..Len(commits)
  BY <1>1 DEF Init
<1>3. TypeOK
  BY <1>1, <1>2 DEF Init, TypeOK, Files, Indexes
<1>4. commits \in Seq(CommitRecords)
  BY <1>1
<1>5. op \in [Machines -> Ops \cup {None}] /\ sync \in [Machines -> Syncs \cup {None}]
  BY DEF Init
<1>6. head \in [Machines -> Nat] /\ merging \in [Machines -> Nat]
  BY DEF Init
<1> QED BY <1>1, <1>3, <1>4, <1>5, <1>6 DEF Init, ShapeInv, Files, CommitRecords

-----------------------------------------------------------------------------
(* What a step does to what the machines know.                             *)

LEMMA KnownTyped ==
    ASSUME ShapeInv
    PROVE  /\ Past(remote) \subseteq 1..Len(commits)
           /\ \A m \in Machines : Past(head[m]) \subseteq 1..Len(commits) /\ Past(merging[m]) \subseteq 1..Len(commits)
           /\ \A m \in Machines : Known(m) \subseteq 1..Len(commits)
           /\ \A m \in Machines : merging[m] = 0 => Known(m) = Past(head[m])
           /\ \A m \in Machines : Heard(m) \subseteq All /\ Common(m) \subseteq Heard(m) /\ Common(m) \subseteq Published
           /\ \A c \in 0..Len(commits) : Ever(c) \subseteq All
           /\ Published \subseteq All /\ Ever(0) = {} /\ All \subseteq Snaps
<1>1. /\ Past(remote) \subseteq 1..Len(commits) /\ Past(0) = {}
      /\ \A m \in Machines : Past(head[m]) \subseteq 1..Len(commits) /\ Past(merging[m]) \subseteq 1..Len(commits)
      /\ \A c \in 0..Len(commits) : Past(c) \subseteq 1..Len(commits)
  BY AtTyped
<1>2. \A m \in Machines : Known(m) \subseteq 1..Len(commits)
  BY <1>1 DEF Known
<1>3. \A m \in Machines : merging[m] = 0 => Known(m) = Past(head[m])
  BY <1>1 DEF Known
<1>4. \A X, Y : X \subseteq Y => ListedIn(X) \subseteq ListedIn(Y)
  BY DEF ListedIn
<1>5. ListedIn({}) = {} /\ ListedIn(1..Len(commits)) \subseteq Snaps
  BY DEF ListedIn
<1>6. \A m \in Machines : Heard(m) \subseteq All /\ Common(m) \subseteq Heard(m) /\ Common(m) \subseteq Published
  BY <1>2, <1>4 DEF Heard, All, Common, Published
<1>7. (\A c \in 0..Len(commits) : Ever(c) \subseteq All) /\ Published \subseteq All /\ Ever(0) = {} /\ All \subseteq Snaps
  BY <1>1, <1>4, <1>5 DEF Ever, All, Published
<1> QED BY <1>1, <1>2, <1>3, <1>6, <1>7

LEMMA SameKnown ==
    ASSUME UNCHANGED <<commits, head, merging, remote>>
    PROVE  /\ \A c : At(c)' = At(c) /\ Past(c)' = Past(c) /\ Ever(c)' = Ever(c) /\ Gone(c)' = Gone(c)
           /\ At(remote)' = At(remote) /\ Gone(remote)' = Gone(remote) /\ Past(remote)' = Past(remote)
           /\ \A m : /\ Known(m)' = Known(m) /\ Heard(m)' = Heard(m) /\ Common(m)' = Common(m)
                     /\ At(head[m])' = At(head[m]) /\ Past(head[m])' = Past(head[m]) /\ GoneHead(m)' = GoneHead(m)
           /\ Published' = Published /\ All' = All
           /\ \A m, b : IsBase(m, b)' <=> IsBase(m, b)
           /\ (index' = index => \A m : GoneAt(m)' = GoneAt(m))
BY DEF At, Past, Ever, Gone, Known, Heard, Common, Published, All, IsBase, ListedIn, Listed, GoneAt, GoneHead

\* What there is after m has committed "past" and, as the commit new, what it
\* lists itself.
KnownAfterCommit(m, fs, i, past, new) ==
  /\ \A c \in 0..Len(commits) :
       At(c)' = At(c) /\ Past(c)' = Past(c) /\ Ever(c)' = Ever(c) /\ Gone(c)' = Gone(c)
  /\ At(remote)' = At(remote) /\ Gone(remote)' = Gone(remote) /\ Past(remote)' = Past(remote)
  /\ Len(commits') = new /\ new \notin 0..Len(commits) /\ 0..new = (0..Len(commits)) \cup {new}
  /\ 1..new = (1..Len(commits)) \cup {new}
  /\ At(new)'.files = fs /\ At(new)'.index = i /\ Past(new)' = past \cup {new}
  /\ Ever(new)' = ListedIn(past) \cup Listed(i)
  /\ head'[m] = new /\ merging'[m] = 0
  /\ At(head[m])'.files = fs /\ At(head[m])'.index = i
  /\ Known(m)' = past \cup {new} /\ Heard(m)' = ListedIn(past) \cup Listed(i)
  /\ Common(m)' = ListedIn(past \cap Past(remote))
  /\ \A n \in Machines \ {m} :
       /\ head'[n] = head[n] /\ merging'[n] = merging[n] /\ At(head[n])' = At(head[n])
       /\ Known(n)' = Known(n) /\ Heard(n)' = Heard(n) /\ Common(n)' = Common(n)
       /\ GoneHead(n)' = GoneHead(n)
  /\ Published' = Published /\ All' = All \cup Listed(i)
  /\ \A n \in Machines \ {m}, b \in 0..Len(commits) : IsBase(n, b)' <=> IsBase(n, b)

\* m commits "past", with what it lists itself.
LEMMA CommitKnown ==
    ASSUME ShapeInv, NEW m \in Machines, NEW fs \in SUBSET Files, NEW i \in Indexes,
           NEW past \in SUBSET (1..Len(commits)), Commit(fs, i, past),
           head' = [head EXCEPT ![m] = Len(commits) + 1], merging' = [merging EXCEPT ![m] = 0],
           remote' = remote,
           NEW new, new = Len(commits) + 1
    PROVE  KnownAfterCommit(m, fs, i, past, new)
<1>1. /\ Len(commits') = new
      /\ \A c \in 0..Len(commits) : At(c)' = At(c) /\ Past(c)' = Past(c)
      /\ At(new)'.files = fs /\ At(new)'.index = i
      /\ Past(new)' = past \cup {new}
  BY NewCommit
<1>2. /\ Len(commits) \in Nat /\ remote \in 0..Len(commits)
      /\ \A n \in Machines : head[n] \in 0..Len(commits) /\ merging[n] \in 0..Len(commits)
      /\ \A c \in 0..Len(commits) : Past(c) \subseteq 1..Len(commits)
      /\ Past(0) = {}
  BY AtTyped
<1>3. /\ new \notin 0..Len(commits) /\ 0..new = (0..Len(commits)) \cup {new}
      /\ 1..new = (1..Len(commits)) \cup {new} /\ 1..Len(commits) \subseteq 0..Len(commits) /\ new \in Nat
      /\ 0 \in 0..Len(commits)
  BY <1>2
<1>4. /\ \A n \in Machines : Known(n) \subseteq 1..Len(commits)
      /\ Past(remote) \subseteq 1..Len(commits)
  BY KnownTyped
<1>5. /\ head'[m] = new /\ merging'[m] = 0
      /\ \A n \in Machines \ {m} : head'[n] = head[n] /\ merging'[n] = merging[n]
      /\ head \in [Machines -> Nat] /\ merging \in [Machines -> Nat]
  BY DEF ShapeInv
<1>6. Listed(i) \subseteq Snaps
  BY ListedTyped
<1>7. At(remote)' = At(remote) /\ Past(remote)' = Past(remote)
  BY <1>1, <1>2 DEF At, Past
<1>8. \A n \in Machines \ {m} : /\ At(head[n])' = At(head[n]) /\ Past(head[n])' = Past(head[n])
                                /\ Past(merging[n])' = Past(merging[n])
  BY <1>1, <1>2, <1>5 DEF At, Past
<1>9. \A n \in Machines \ {m} : Known(n)' = Known(n)
  BY <1>8 DEF Known
<1>10. At(head[m])' = At(new)' /\ Past(head[m])' = Past(new)' /\ Past(merging[m])' = {}
  <2>1. Past(0)' = {}
    BY <1>1, <1>2, <1>3
  <2> QED BY <1>5, <2>1 DEF At, Past
<1>11. Known(m)' = past \cup {new}
  BY <1>1, <1>10 DEF Known
<1>12. \A X \in SUBSET (1..Len(commits)) : ListedIn(X)' = ListedIn(X)
  <2> TAKE X \in SUBSET (1..Len(commits))
  <2>1. \A c \in X : At(c)' = At(c)
    BY <1>1, <1>3
  <2> QED BY <2>1 DEF ListedIn, Listed
<1>13. \A X \in SUBSET (1..Len(commits)) : ListedIn(X \cup {new})' = ListedIn(X) \cup Listed(i)
  <2> TAKE X \in SUBSET (1..Len(commits))
  <2>1. \A c \in X : At(c)' = At(c)
    BY <1>1, <1>3
  <2> QED BY <2>1, <1>1, <1>6 DEF ListedIn, Listed
<1>14. \A c \in 0..Len(commits) : Ever(c)' = Ever(c) /\ Gone(c)' = Gone(c)
  <2> TAKE c \in 0..Len(commits)
  <2>1. PICK X \in SUBSET (1..Len(commits)) : X = Past(c)
    BY <1>2
  <2>2. ListedIn(X)' = ListedIn(X) /\ Past(c)' = X /\ At(c)' = At(c)
    BY <1>1, <1>12, <2>1
  <2>3. Ever(c)' = Ever(c)
    BY <2>1, <2>2 DEF Ever, ListedIn
  <2> QED BY <2>2, <2>3 DEF Gone, Listed
<1>15. Gone(remote)' = Gone(remote)
  BY <1>2, <1>7, <1>14 DEF Gone, Ever, ListedIn, Listed
<1>16. Ever(new)' = ListedIn(past) \cup Listed(i)
  BY <1>1, <1>13 DEF Ever, ListedIn
<1>17. Heard(m)' = ListedIn(past) \cup Listed(i)
  <2>1. ListedIn(past \cup {new})' = ListedIn(past) \cup Listed(i)
    BY <1>13
  <2> QED BY <1>11, <2>1 DEF Heard, ListedIn
<1>18. Common(m)' = ListedIn(past \cap Past(remote))
  <2>1. PICK X \in SUBSET (1..Len(commits)) : X = past \cap Past(remote)
    OBVIOUS
  <2>2. (Known(m) \cap Past(remote))' = X
    BY <1>3, <1>4, <1>7, <1>11, <2>1
  <2>3. ListedIn(X)' = ListedIn(X)
    BY <1>12
  <2> QED BY <2>1, <2>2, <2>3 DEF Common, ListedIn
<1>19. ASSUME NEW n \in Machines \ {m}
       PROVE  /\ Heard(n)' = Heard(n) /\ Common(n)' = Common(n) /\ GoneHead(n)' = GoneHead(n)
              /\ \A b \in 0..Len(commits) : IsBase(n, b)' <=> IsBase(n, b)
  <2>1. PICK X \in SUBSET (1..Len(commits)) : X = Known(n)
    BY <1>4
  <2>2. ListedIn(X)' = ListedIn(X) /\ Known(n)' = X
    BY <1>9, <1>12, <2>1
  <2>3. Heard(n)' = Heard(n)
    BY <2>1, <2>2 DEF Heard, ListedIn
  <2>4. PICK Y \in SUBSET (1..Len(commits)) : Y = Known(n) \cap Past(remote)
    BY <1>4
  <2>5. ListedIn(Y)' = ListedIn(Y) /\ (Known(n) \cap Past(remote))' = Y
    BY <1>7, <1>9, <1>12, <2>4
  <2>6. Common(n)' = Common(n)
    BY <2>4, <2>5 DEF Common, ListedIn
  <2>7. \A b \in 0..Len(commits) : IsBase(n, b)' <=> IsBase(n, b)
    BY <1>1, <1>7, <1>9 DEF IsBase
  <2> QED BY <1>5, <1>8, <2>3, <2>6, <2>7 DEF GoneHead, Listed
<1>20. Published' = Published
  <2>1. PICK X \in SUBSET (1..Len(commits)) : X = Past(remote)
    BY <1>4
  <2>2. ListedIn(X)' = ListedIn(X) /\ Past(remote)' = X
    BY <1>7, <1>12, <2>1
  <2> QED BY <2>1, <2>2 DEF Published, ListedIn
<1>21. All' = All \cup Listed(i)
  <2>1. PICK X \in SUBSET (1..Len(commits)) : X = 1..Len(commits)
    OBVIOUS
  <2>2. ListedIn(X \cup {new})' = ListedIn(X) \cup Listed(i) /\ (1..Len(commits))' = X \cup {new}
    BY <1>1, <1>3, <1>13, <2>1
  <2> QED BY <2>1, <2>2 DEF All, ListedIn
<1>22. At(head[m])'.files = fs /\ At(head[m])'.index = i
  BY <1>1, <1>10
<1>23. \A c \in 0..Len(commits) :
         At(c)' = At(c) /\ Past(c)' = Past(c) /\ Ever(c)' = Ever(c) /\ Gone(c)' = Gone(c)
  BY <1>1, <1>14
<1>24. \A n \in Machines \ {m} :
         /\ head'[n] = head[n] /\ merging'[n] = merging[n] /\ At(head[n])' = At(head[n])
         /\ Known(n)' = Known(n) /\ Heard(n)' = Heard(n) /\ Common(n)' = Common(n)
         /\ GoneHead(n)' = GoneHead(n)
  BY <1>5, <1>8, <1>9, <1>19
<1>25. \A n \in Machines \ {m}, b \in 0..Len(commits) : IsBase(n, b)' <=> IsBase(n, b)
  BY <1>19
<1> QED BY <1>1, <1>3, <1>5, <1>7, <1>11, <1>15, <1>16, <1>17, <1>18, <1>20, <1>21, <1>22, <1>23, <1>24, <1>25
     DEF KnownAfterCommit

-----------------------------------------------------------------------------
(* The three ways to get what the remote has are one step: a merge of what *)
(* it has done since the last published commit b that the machine knows.   *)

Pulled(m, b, fs) == Merged(At(b).files, fs, At(remote).files)

\* i: what the merge makes of the index.
Pulls(m, b, i) ==
  /\ sync[m] = None /\ merging[m] = 0 /\ remote # 0 /\ IsBase(m, b)
  /\ At(remote).index = At(b).index \/ index[m] = At(head[m]).index
  /\ i \in MergedIndexes(At(b).index, At(head[m]).index, At(remote).index)
  /\ files' = [files EXCEPT ![m] = Pulled(m, b, @)]
  /\ tracked' = [tracked EXCEPT ![m] = Pulled(m, b, @)]
  /\ index' = [index EXCEPT ![m] = IF At(remote).index = At(b).index THEN @ ELSE i]
  /\ repo' = [repo EXCEPT ![m] = "ready"] /\ Crosses(m)
  /\ UNCHANGED <<remote, op, sync, gcs, maker, created, pruned, swept, torn, early, shown>>

\* The machine follows the remote, commits the merge, or is left with a conflict.
Follows(m, b, i) ==
  /\ b = head[m] /\ i = At(remote).index /\ Pulled(m, b, tracked[m]) = At(remote).files
  /\ head' = [head EXCEPT ![m] = remote] /\ UNCHANGED <<commits, merging>>

CommitsMerge(m, b, i) ==
  /\ i # Conflict /\ Commit(Pulled(m, b, tracked[m]), i, Past(head[m]) \cup Past(remote))
  /\ head' = [head EXCEPT ![m] = Len(commits) + 1] /\ UNCHANGED merging

Conflicts(m, b, i) ==
  /\ i = Conflict /\ head[m] # 0
  /\ merging' = [merging EXCEPT ![m] = remote] /\ UNCHANGED <<commits, head>>

\* What a machine tracks is what its last commit holds.
Tracks(m) == merging[m] = 0 => tracked[m] = At(head[m]).files

LEMMA BaseFacts ==
    ASSUME ShapeInv, GraphInv, NEW m \in Machines
    PROVE  /\ \A b \in 0..Len(commits) : IsBase(m, b) =>
                /\ b # 0 => b \in Past(remote) /\ b \in Known(m) /\ b \in Past(b)
                /\ b # 0 /\ merging[m] = 0 => b \in Past(head[m])
                /\ Base(head[m], remote) = b \/ merging[m] # 0
           /\ \A b, c \in 0..Len(commits) : IsBase(m, b) /\ IsBase(m, c) => b = c
<1>1. /\ Len(commits) \in Nat
      /\ \A c \in 0..Len(commits) : Past(c) \subseteq 1..c
      /\ \A c \in 0..Len(commits) : c # 0 => c \in 1..Len(commits)
      /\ Past(0) = {}
  BY AtTyped
<1>2. \A c \in 1..Len(commits) : c \in Past(c)
  BY DEF GraphInv
<1>3. merging[m] = 0 => Known(m) = Past(head[m])
  BY KnownTyped
<1>4. ASSUME NEW b \in 0..Len(commits), IsBase(m, b), b # 0
      PROVE  b \in Past(remote) /\ b \in Known(m) /\ b \in Past(b)
  BY <1>1, <1>2, <1>4 DEF IsBase
<1>5. ASSUME NEW b \in 0..Len(commits), IsBase(m, b), merging[m] = 0
      PROVE  Base(head[m], remote) = b
  <2>1. Past(head[m]) \cap Past(remote) = Past(b)
    BY <1>3, <1>5 DEF IsBase
  <2>2. CASE b = 0
    BY <2>1, <2>2, <1>1 DEF Base
  <2>3. CASE b # 0
    <3>1. b \in Past(b) /\ \A x \in Past(b) : x \in Nat /\ b >= x
      BY <1>1, <1>2, <2>3
    <3>2. \A x \in Past(b) : x >= b => x = b
      BY <3>1
    <3>3. Max(Past(b)) = b
      <4> DEFINE P(x) == x \in Past(b) /\ \A y \in Past(b) : x >= y
      <4>1. P(b) /\ \A x : P(x) => x = b
        BY <3>1, <3>2
      <4>2. Max(Past(b)) = CHOOSE x \in Past(b) : \A y \in Past(b) : x >= y
        BY DEF Max
      <4> QED BY <4>1, <4>2
    <3> QED BY <2>1, <3>1, <3>3 DEF Base
  <2> QED BY <2>2, <2>3
<1>6. ASSUME NEW b \in 0..Len(commits), NEW c \in 0..Len(commits), IsBase(m, b), IsBase(m, c)
      PROVE  b = c
  <2>1. Past(b) = Past(c)
    BY <1>6 DEF IsBase
  <2>2. b # 0 => b \in Past(c)
    BY <2>1, <1>1, <1>2
  <2>3. c # 0 => c \in Past(b)
    BY <2>1, <1>1, <1>2
  <2>4. (b # 0 => b <= c) /\ (c # 0 => c <= b)
    BY <2>2, <2>3, <1>1
  <2> QED BY <2>4, <1>1
<1> QED BY <1>3, <1>4, <1>5, <1>6

\* What the merge of an index comes from.
LEMMA MergedIndexesTyped ==
    ASSUME NEW base \in Indexes, NEW ours \in Indexes, NEW theirs \in Indexes,
           NEW i \in MergedIndexes(base, ours, theirs)
    PROVE  /\ i \in Indexes
           /\ \/ i = Conflict
              \/ i = ours /\ ours = theirs
              \/ i = ours /\ theirs = base
              \/ i = theirs /\ ours = base
              \/ /\ Conflict \notin {base, ours, theirs} /\ i = Merged(base, ours, theirs)
                 /\ ours \subseteq base \/ theirs \subseteq base
           /\ theirs = base => i = ours
<1>1. CASE ours = theirs \/ theirs = base
  <2>1. i = ours
    BY <1>1 DEF MergedIndexes
  <2> QED BY <1>1, <2>1
<1>2. CASE ~(ours = theirs \/ theirs = base) /\ ours = base
  <2>1. i = theirs
    BY <1>2 DEF MergedIndexes
  <2> QED BY <1>2, <2>1
<1>3. CASE ~(ours = theirs \/ theirs = base) /\ ours # base
  <2>1. i \in (IF Conflict \in {base, ours, theirs} THEN {Conflict}
               ELSE {Conflict} \cup (IF ours \subseteq base \/ theirs \subseteq base
                                       THEN {Merged(base, ours, theirs)} ELSE {}))
    BY <1>3 DEF MergedIndexes
  <2>2. CASE i = Conflict
    BY <1>3, <2>2, ListedTyped
  <2>3. CASE i # Conflict
    <3>1. /\ Conflict \notin {base, ours, theirs} /\ i = Merged(base, ours, theirs)
          /\ ours \subseteq base \/ theirs \subseteq base
      BY <2>1, <2>3
    <3>2. base \subseteq Snaps /\ ours \subseteq Snaps /\ theirs \subseteq Snaps
      BY <3>1, ListedTyped
    <3>3. i \subseteq Snaps
      BY <3>1, <3>2 DEF Merged
    <3> QED BY <1>3, <3>1, <3>3, ListedTyped
  <2> QED BY <2>2, <2>3
<1> QED BY <1>1, <1>2, <1>3

LEMMA CloneIsPull ==
    ASSUME ShapeInv, GraphInv, AloneInv, NEW m \in Machines, Tracks(m), CloneRemote(m)
    PROVE  /\ files[m] = {Identity} /\ repo[m] = "none" /\ op[m] = None /\ origin' = [origin EXCEPT ![m] = TRUE]
           /\ Pulls(m, 0, At(remote).index) /\ Follows(m, 0, At(remote).index)
<1>1. /\ files[m] = {Identity} /\ repo[m] = "none" /\ op[m] = None /\ sync[m] = None /\ remote # 0
      /\ origin' = [origin EXCEPT ![m] = TRUE]
  BY DEF CloneRemote, Idle
<1>2. head[m] = 0 /\ merging[m] = 0
  BY <1>1 DEF GraphInv
<1>3. Past(0) = {} /\ At(0).files = {} /\ At(0).index = {} /\ remote \in 0..Len(commits)
  BY AtTyped
<1>4. tracked[m] = {} /\ IsBase(m, 0)
  BY <1>2, <1>3 DEF Tracks, IsBase, Known
<1>5. At(remote).index \in MergedIndexes(At(0).index, At(head[m]).index, At(remote).index)
  BY <1>2 DEF MergedIndexes
<1>6. index[m] = {}
  <2>1. index[m] # Conflict /\ index[m] \in Indexes /\ \A s \in index[m] : maker[s] = m
    BY <1>1 DEF AloneInv, ShapeInv, TypeOK
  <2>2. index[m] \subseteq Snaps /\ \A s \in Snaps : maker[s] # m
    BY <2>1, ListedTyped DEF CloneRemote
  <2> QED BY <2>1, <2>2
<1>7. /\ Pulled(m, 0, {Identity}) = At(remote).files \cup {Identity}
      /\ Pulled(m, 0, tracked[m]) = At(remote).files
  BY <1>3, <1>4 DEF Pulled, Merged
<1>8. /\ files' = [files EXCEPT ![m] = Pulled(m, 0, @)] /\ tracked' = [tracked EXCEPT ![m] = Pulled(m, 0, @)]
      /\ index' = [index EXCEPT ![m] = IF At(remote).index = At(0).index THEN @ ELSE At(remote).index]
  BY <1>1, <1>3, <1>6, <1>7 DEF CloneRemote
<1>9. index[m] = At(head[m]).index
  BY <1>2, <1>3, <1>6
<1>10. Crosses(m)
  BY <1>1 DEF Crosses, WillOverwrite, CloneRemote, history, ShapeInv
<1> QED BY <1>1, <1>2, <1>4, <1>5, <1>7, <1>8, <1>9, <1>10 DEF Pulls, Follows, CloneRemote, shared, history

LEMMA ForwardIsPull ==
    ASSUME ShapeInv, GraphInv, NEW m \in Machines, Tracks(m), PullForwards(m)
    PROVE  /\ repo[m] = "ready" /\ UNCHANGED origin
           /\ Pulls(m, head[m], At(remote).index) /\ Follows(m, head[m], At(remote).index)
<1>1. /\ origin[m] /\ sync[m] = None /\ merging[m] = 0 /\ remote # 0 /\ head[m] # 0
      /\ head[m] \in Past(remote) /\ ~InTheWay(m, head[m])
  BY DEF PullForwards, Pullable
<1>2. repo[m] = "ready"
  BY <1>1 DEF ShapeInv, TypeOK
<1>3. Known(m) = Past(head[m]) /\ Past(head[m]) \subseteq Past(remote)
  BY <1>1, KnownTyped, AtTyped DEF GraphInv
<1>4. IsBase(m, head[m])
  BY <1>3 DEF IsBase
<1>5. At(remote).index \in MergedIndexes(At(head[m]).index, At(head[m]).index, At(remote).index)
  BY DEF MergedIndexes
<1>6. At(remote).index = At(head[m]).index \/ index[m] = At(head[m]).index
  BY <1>1 DEF InTheWay
<1>7. tracked[m] = At(head[m]).files /\ Pulled(m, head[m], tracked[m]) = At(remote).files
  BY <1>1 DEF Tracks, Pulled, Merged
<1>8. /\ files' = [files EXCEPT ![m] = Pulled(m, head[m], @)]
      /\ tracked' = [tracked EXCEPT ![m] = Pulled(m, head[m], @)]
      /\ index' = [index EXCEPT ![m] = IF At(remote).index = At(head[m]).index THEN @ ELSE At(remote).index]
  BY <1>7 DEF PullForwards, Pulled
<1>9. repo' = [repo EXCEPT ![m] = "ready"]
  BY <1>2 DEF PullForwards, ShapeInv
<1> QED BY <1>1, <1>2, <1>4, <1>5, <1>6, <1>7, <1>8, <1>9 DEF Pulls, Follows, PullForwards, shared

LEMMA MergeIsPull ==
    ASSUME ShapeInv, GraphInv, NEW m \in Machines, PullMerges(m)
    PROVE  /\ repo[m] = "ready" /\ UNCHANGED origin
           /\ \E b \in 0..Len(commits), i \in Indexes :
                Pulls(m, b, i) /\ (CommitsMerge(m, b, i) \/ Conflicts(m, b, i))
<1>1. /\ origin[m] /\ sync[m] = None /\ merging[m] = 0 /\ remote # 0 /\ head[m] # 0
  BY DEF PullMerges, Pullable
<1>2. repo[m] = "ready"
  BY <1>1 DEF ShapeInv, TypeOK
<1>3. PICK b \in 0..Len(commits) : IsBase(m, b)
  BY DEF GraphInv
<1>4. Base(head[m], remote) = b
  BY <1>1, <1>3, BaseFacts
<1>5. ~InTheWay(m, b)
  BY <1>4 DEF PullMerges
<1>6. At(remote).index = At(b).index \/ index[m] = At(head[m]).index
  BY <1>5 DEF InTheWay
<1>7. PICK i \in MergedIndexes(At(b).index, At(head[m]).index, At(remote).index) :
        /\ index' = [index EXCEPT ![m] = IF At(remote).index = At(b).index THEN @ ELSE i]
        /\ IF i = Conflict
             THEN /\ merging' = [merging EXCEPT ![m] = remote]
                  /\ UNCHANGED <<head, commits>>
             ELSE /\ Len(commits) < MaxCommits
                  /\ Commit(Pulled(m, b, tracked[m]), i, Past(head[m]) \cup Past(remote))
                  /\ head' = [head EXCEPT ![m] = Len(commits) + 1]
                  /\ UNCHANGED merging
  BY <1>4 DEF PullMerges, Pulled
<1>8. /\ files' = [files EXCEPT ![m] = Pulled(m, b, @)] /\ tracked' = [tracked EXCEPT ![m] = Pulled(m, b, @)]
      /\ UNCHANGED <<repo, origin, remote, op, sync, gcs, maker, created, pruned, swept, torn, early, shown>>
      /\ Crosses(m)
  BY <1>4 DEF PullMerges, Pulled
<1>9. repo' = [repo EXCEPT ![m] = "ready"]
  BY <1>2, <1>8 DEF ShapeInv
<1>10. i \in Indexes
  <2>1. At(b).index \in Indexes /\ At(head[m]).index \in Indexes /\ At(remote).index \in Indexes
    BY AtTyped
  <2> QED BY <2>1, <1>7, MergedIndexesTyped
<1>11. Pulls(m, b, i)
  BY <1>1, <1>3, <1>6, <1>7, <1>8, <1>9 DEF Pulls
<1>12. CommitsMerge(m, b, i) \/ Conflicts(m, b, i)
  BY <1>1, <1>7 DEF CommitsMerge, Conflicts
<1> QED BY <1>2, <1>8, <1>10, <1>11, <1>12

PullStep(m) ==
  \E b \in 0..Len(commits), i \in Indexes :
    Pulls(m, b, i) /\ (Follows(m, b, i) \/ CommitsMerge(m, b, i) \/ Conflicts(m, b, i))

LEMMA PullSteps ==
    ASSUME ShapeInv, GraphInv, AloneInv, NEW m \in Machines, Tracks(m),
           CloneRemote(m) \/ PullForwards(m) \/ PullMerges(m)
    PROVE  /\ PullStep(m)
           /\ origin' = origin \/ origin' = [origin EXCEPT ![m] = TRUE]
           /\ repo[m] = "none" => op[m] = None /\ files[m] = {Identity}
<1>1. \A x : x \in 0..Len(commits) => At(x).index \in Indexes
  BY AtTyped
<1>2. 0 \in 0..Len(commits) /\ head[m] \in 0..Len(commits) /\ remote \in 0..Len(commits)
  BY AtTyped
<1>3. CASE CloneRemote(m)
  BY <1>1, <1>2, <1>3, CloneIsPull DEF PullStep
<1>4. CASE PullForwards(m)
  BY <1>1, <1>2, <1>4, ForwardIsPull DEF PullStep
<1>5. CASE PullMerges(m)
  BY <1>5, MergeIsPull DEF PullStep
<1> QED BY <1>3, <1>4, <1>5

\* What there is after m has pulled, i being the merged index.
KnownAfterPull(m, i) ==
  /\ \A c \in 0..Len(commits) :
       At(c)' = At(c) /\ Past(c)' = Past(c) /\ Ever(c)' = Ever(c) /\ Gone(c)' = Gone(c)
  /\ At(remote)' = At(remote) /\ Gone(remote)' = Gone(remote) /\ Past(remote)' = Past(remote)
  /\ Published' = Published
  /\ Len(commits') \in Nat /\ Len(commits) <= Len(commits')
  /\ All \subseteq All' /\ All' \subseteq All \cup Listed(i)
  /\ Heard(m) \cup Published \subseteq Heard(m)' /\ Heard(m)' \subseteq Heard(m) \cup Published \cup Listed(i)
  /\ Common(m)' = Published
  /\ \A n \in Machines \ {m} :
       /\ head'[n] = head[n] /\ merging'[n] = merging[n] /\ At(head[n])' = At(head[n])
       /\ Known(n)' = Known(n) /\ Heard(n)' = Heard(n) /\ Common(n)' = Common(n)
       /\ GoneHead(n)' = GoneHead(n)
  /\ \A c \in 0..Len(commits') : IsBase(m, c)' => c = remote
  /\ \A n \in Machines \ {m} : \A c \in 0..Len(commits') : IsBase(n, c)' => c \in 0..Len(commits) /\ IsBase(n, c)
  /\ IsBase(m, remote)' /\ Past(remote) \subseteq Known(m)' /\ Known(m) \subseteq Known(m)'
  /\ Known(m)' \cap (1..Len(commits)) \subseteq Known(m) \cup Past(remote)
  /\ \A n \in Machines \ {m} : \A c \in 0..Len(commits) : IsBase(n, c) => IsBase(n, c)'

\* What m knows after it has pulled.
LEMMA PullKnown ==
    ASSUME ShapeInv, GraphInv, NEW m \in Machines, NEW b \in 0..Len(commits), NEW i \in Indexes,
           Pulls(m, b, i), Follows(m, b, i) \/ CommitsMerge(m, b, i) \/ Conflicts(m, b, i)
    PROVE  KnownAfterPull(m, i)
<1>1. merging[m] = 0 /\ remote # 0 /\ IsBase(m, b) /\ remote' = remote
  BY DEF Pulls
<1>2. Known(m) = Past(head[m]) /\ Past(remote) \subseteq 1..Len(commits) /\ Known(m) \subseteq 1..Len(commits)
  BY <1>1, KnownTyped
<1>3. /\ Len(commits) \in Nat /\ remote \in 0..Len(commits) /\ remote \in 1..Len(commits)
      /\ \A c \in 0..Len(commits) : Past(c) \subseteq 1..Len(commits)
      /\ head \in [Machines -> Nat] /\ merging \in [Machines -> Nat] /\ Past(0) = {}
  BY <1>1, AtTyped DEF ShapeInv
<1>4. remote \in Past(remote)
  BY <1>3 DEF GraphInv
<1>5. \A c, d \in 0..Len(commits) : Past(c) = Past(d) => c = d
  <2> TAKE c, d \in 0..Len(commits)
  <2> HAVE Past(c) = Past(d)
  <2>1. Past(c) \subseteq 1..c /\ Past(d) \subseteq 1..d
    BY AtTyped
  <2>2. (c # 0 => c \in Past(c)) /\ (d # 0 => d \in Past(d))
    BY <1>3 DEF GraphInv
  <2>3. (c # 0 => c <= d) /\ (d # 0 => d <= c)
    BY <2>1, <2>2
  <2> QED BY <2>3, <1>3
<1>6. CASE Follows(m, b, i) \/ Conflicts(m, b, i)
  <2>1. /\ commits' = commits /\ head' \in [Machines -> Nat] /\ merging' \in [Machines -> Nat]
        /\ \A n \in Machines \ {m} : head'[n] = head[n] /\ merging'[n] = merging[n]
    BY <1>3, <1>6 DEF Follows, Conflicts
  <2>2. \A c : At(c)' = At(c) /\ Past(c)' = Past(c) /\ Ever(c)' = Ever(c) /\ Gone(c)' = Gone(c)
    BY <2>1 DEF At, Past, Ever, Gone, ListedIn, Listed
  <2>3. /\ At(remote)' = At(remote) /\ Gone(remote)' = Gone(remote) /\ Past(remote)' = Past(remote)
        /\ Published' = Published /\ All' = All
    BY <1>1, <2>1 DEF At, Past, Ever, Gone, ListedIn, Listed, Published, All
  <2>4. Known(m)' = Known(m) \cup Past(remote)
    <3>1. CASE Follows(m, b, i)
      <4>1. head'[m] = remote /\ merging'[m] = 0 /\ b = head[m]
        BY <1>1, <1>3, <3>1 DEF Follows
      <4>2. Past(head[m])' = Past(remote) /\ Past(merging[m])' = {}
        BY <4>1, <2>1, <1>1, <1>3 DEF Past, At
      <4>3. Known(m) \subseteq Past(remote)
        BY <1>1, <1>2, <4>1 DEF IsBase
      <4> QED BY <4>2, <4>3 DEF Known
    <3>2. CASE Conflicts(m, b, i)
      <4>1. head'[m] = head[m] /\ merging'[m] = remote
        BY <1>3, <3>2 DEF Conflicts
      <4>2. Past(head[m])' = Past(head[m]) /\ Past(merging[m])' = Past(remote)
        BY <4>1, <2>1, <1>1 DEF Past, At
      <4> QED BY <4>2, <1>2 DEF Known
    <3> QED BY <1>6, <3>1, <3>2
  <2>5. (Known(m) \cap Past(remote))' = Past(remote)
    BY <2>3, <2>4
  <2>6. Heard(m)' = Heard(m) \cup Published /\ Common(m)' = Published
    BY <2>1, <2>4, <2>5 DEF Heard, Published, Common, ListedIn, At, Listed
  <2>7. ASSUME NEW n \in Machines \ {m}
        PROVE  /\ At(head[n])' = At(head[n])
               /\ Known(n)' = Known(n) /\ Heard(n)' = Heard(n) /\ Common(n)' = Common(n)
               /\ GoneHead(n)' = GoneHead(n)
    <3>1. At(head[n])' = At(head[n]) /\ Known(n)' = Known(n)
      BY <2>1 DEF At, Known, Past
    <3>2. Heard(n)' = Heard(n) /\ Common(n)' = Common(n)
      BY <2>1, <2>3, <3>1 DEF Heard, Common, ListedIn, At, Listed
    <3> QED BY <2>1, <3>1, <3>2 DEF GoneHead, Listed
  <2>8. \A c \in 0..Len(commits') : IsBase(m, c)' <=> c = remote
    BY <1>3, <1>5, <2>1, <2>2, <2>5 DEF IsBase
  <2>9. \A n \in Machines \ {m} : \A c \in 0..Len(commits') : IsBase(n, c)' <=> c \in 0..Len(commits) /\ IsBase(n, c)
    BY <2>1, <2>2, <2>3, <2>7 DEF IsBase
  <2>10. Len(commits') = Len(commits)
    BY <2>1
  <2>11. IsBase(m, remote)'
    BY <2>3, <2>5 DEF IsBase
  <2>12. \A n \in Machines \ {m} : \A c \in 0..Len(commits) : IsBase(n, c) => IsBase(n, c)'
    BY <2>9, <2>10
  <2>13. Past(remote) \subseteq Known(m)' /\ Known(m) \subseteq Known(m)'
         /\ Known(m)' \cap (1..Len(commits)) \subseteq Known(m) \cup Past(remote)
    BY <2>4
  <2>14. All \subseteq All' /\ All' \subseteq All \cup Listed(i)
         /\ Heard(m) \cup Published \subseteq Heard(m)' /\ Heard(m)' \subseteq Heard(m) \cup Published \cup Listed(i)
    BY <2>3, <2>6
  <2>15. \A n \in Machines \ {m} :
           /\ head'[n] = head[n] /\ merging'[n] = merging[n] /\ At(head[n])' = At(head[n])
           /\ Known(n)' = Known(n) /\ Heard(n)' = Heard(n) /\ Common(n)' = Common(n)
           /\ GoneHead(n)' = GoneHead(n)
    BY <2>1, <2>7
  <2>16. Len(commits') \in Nat /\ Len(commits) <= Len(commits')
    BY <1>3, <2>10
  <2> QED BY <2>2, <2>3, <2>6, <2>8, <2>9, <2>11, <2>12, <2>13, <2>14, <2>15, <2>16 DEF KnownAfterPull
<1>7. CASE CommitsMerge(m, b, i)
  <2>1. /\ Past(head[m]) \cup Past(remote) \in SUBSET (1..Len(commits))
        /\ Commit(Pulled(m, b, tracked[m]), i, Past(head[m]) \cup Past(remote))
        /\ head' = [head EXCEPT ![m] = Len(commits) + 1] /\ merging' = [merging EXCEPT ![m] = 0]
    BY <1>1, <1>2, <1>3, <1>7 DEF CommitsMerge
  <2>2. Pulled(m, b, tracked[m]) \in SUBSET Files
    <3>1. tracked[m] \subseteq Files /\ At(b).files \subseteq Files /\ At(remote).files \subseteq Files
      BY AtTyped DEF ShapeInv, TypeOK
    <3> QED BY <3>1 DEF Pulled, Merged
  <2>3. PICK new : new = Len(commits) + 1
    OBVIOUS
  <2>15. PICK past \in SUBSET (1..Len(commits)) : past = Past(head[m]) \cup Past(remote)
    BY <2>1
  <2>16. PICK fs \in SUBSET Files : fs = Pulled(m, b, tracked[m])
    BY <2>2
  <2>17. Commit(fs, i, past)
    BY <2>1, <2>15, <2>16
  <2>18. KnownAfterCommit(m, fs, i, past, new)
    BY <1>1, <2>1, <2>3, <2>17, CommitKnown
  <2>4. /\ \A c \in 0..Len(commits) :
             At(c)' = At(c) /\ Past(c)' = Past(c) /\ Ever(c)' = Ever(c) /\ Gone(c)' = Gone(c)
        /\ At(remote)' = At(remote) /\ Gone(remote)' = Gone(remote) /\ Past(remote)' = Past(remote)
        /\ Len(commits') = new /\ new \notin 0..Len(commits) /\ 0..new = (0..Len(commits)) \cup {new}
        /\ Past(new)' = past \cup {new}
        /\ Known(m)' = past \cup {new} /\ Heard(m)' = ListedIn(past) \cup Listed(i)
        /\ Common(m)' = ListedIn(past \cap Past(remote))
        /\ \A n \in Machines \ {m} :
             /\ head'[n] = head[n] /\ merging'[n] = merging[n] /\ At(head[n])' = At(head[n])
             /\ Known(n)' = Known(n) /\ Heard(n)' = Heard(n) /\ Common(n)' = Common(n)
             /\ GoneHead(n)' = GoneHead(n)
        /\ Published' = Published /\ All' = All \cup Listed(i)
        /\ \A n \in Machines \ {m}, c \in 0..Len(commits) : IsBase(n, c)' <=> IsBase(n, c)
    BY <2>18 DEF KnownAfterCommit
  <2>5. past = Known(m) \cup Past(remote) /\ past \cap Past(remote) = Past(remote)
    BY <1>2, <2>15
  <2>6. ListedIn(past) = Heard(m) \cup Published /\ ListedIn(past \cap Past(remote)) = Published
    BY <2>5 DEF ListedIn, Heard, Published
  <2>7. new \notin past /\ new \notin Past(remote) /\ new \in Nat /\ new > Len(commits) /\ new \notin 1..Len(commits)
        /\ \A n \in Machines : new \notin Known(n)
    BY <1>3, <2>3, KnownTyped
  <2>8. (Known(m) \cap Past(remote))' = Past(remote)
    BY <2>4, <2>5, <2>7
  <2>9. \A c \in 0..Len(commits') : IsBase(m, c)' <=> c = remote
    <3> TAKE c \in 0..Len(commits')
    <3>1. CASE c = new
      BY <3>1, <2>4, <2>7, <2>8, <1>3 DEF IsBase
    <3>2. CASE c # new
      <4>1. c \in 0..Len(commits) /\ Past(c)' = Past(c)
        BY <3>2, <2>4
      <4> QED BY <4>1, <2>8, <1>3, <1>5 DEF IsBase
    <3> QED BY <3>1, <3>2
  <2>10. \A n \in Machines \ {m} : \A c \in 0..Len(commits') : IsBase(n, c)' <=> c \in 0..Len(commits) /\ IsBase(n, c)
    <3> TAKE n \in Machines \ {m}
    <3> TAKE c \in 0..Len(commits')
    <3>1. CASE c = new
      BY <3>1, <2>4, <2>7 DEF IsBase
    <3>2. CASE c # new
      BY <3>2, <2>4
    <3> QED BY <3>1, <3>2
  <2>11. /\ Heard(m) \cup Published \subseteq Heard(m)' /\ Heard(m)' \subseteq Heard(m) \cup Published \cup Listed(i)
         /\ Common(m)' = Published /\ All \subseteq All' /\ All' \subseteq All \cup Listed(i)
    BY <2>4, <2>6
  <2>12. Past(remote) \subseteq Known(m)' /\ Known(m) \subseteq Known(m)'
         /\ Known(m)' \cap (1..Len(commits)) \subseteq Known(m) \cup Past(remote)
    BY <2>4, <2>5, <2>7
  <2>13. IsBase(m, remote)'
    BY <2>4, <2>8 DEF IsBase
  <2>14. Len(commits') \in Nat /\ Len(commits) <= Len(commits')
    BY <1>3, <2>3, <2>4, <2>7
  <2> QED BY <2>4, <2>9, <2>10, <2>11, <2>12, <2>13, <2>14 DEF KnownAfterPull
<1> QED BY <1>6, <1>7

\* What m is on after it has pulled, and what a merge has committed.
KnownAtHead(m, b, i) ==
  /\ \/ /\ merging'[m] = 0 /\ head'[m] # 0
        /\ At(head[m])'.index = i /\ At(head[m])'.files = Pulled(m, b, tracked[m])
     \/ merging'[m] = remote /\ i = Conflict /\ head'[m] = head[m] /\ head[m] # 0
  /\ \A c \in 0..Len(commits') : c \notin 0..Len(commits) =>
       /\ i # Conflict /\ At(c)'.index = i /\ At(c)'.files = Pulled(m, b, tracked[m])
       /\ Past(c)' = Known(m) \cup Past(remote) \cup {c}
       /\ Ever(c)' = Heard(m) \cup Published \cup Listed(i)

LEMMA PullHead ==
    ASSUME ShapeInv, NEW m \in Machines, NEW b \in 0..Len(commits), NEW i \in Indexes,
           Pulls(m, b, i), Follows(m, b, i) \/ CommitsMerge(m, b, i) \/ Conflicts(m, b, i)
    PROVE  KnownAtHead(m, b, i)
<1>1. merging[m] = 0 /\ remote # 0 /\ remote' = remote
  BY DEF Pulls
<1>2. Known(m) = Past(head[m]) /\ Past(remote) \subseteq 1..Len(commits) /\ Known(m) \subseteq 1..Len(commits)
  BY <1>1, KnownTyped
<1>3. /\ head \in [Machines -> Nat] /\ merging \in [Machines -> Nat] /\ Len(commits) \in Nat
  BY AtTyped DEF ShapeInv
<1>4. CASE Follows(m, b, i)
  <2>1. commits' = commits /\ head'[m] = remote /\ merging'[m] = 0
    BY <1>1, <1>3, <1>4 DEF Follows
  <2>2. At(head[m])' = At(remote)
    BY <2>1 DEF At
  <2>3. At(head[m])'.index = i /\ At(head[m])'.files = Pulled(m, b, tracked[m])
    BY <1>4, <2>2 DEF Follows
  <2> QED BY <1>1, <2>1, <2>3 DEF KnownAtHead
<1>5. CASE Conflicts(m, b, i)
  <2>1. commits' = commits /\ head'[m] = head[m] /\ merging'[m] = remote /\ i = Conflict /\ head[m] # 0
    BY <1>1, <1>3, <1>5 DEF Conflicts
  <2> QED BY <2>1 DEF KnownAtHead
<1>6. CASE CommitsMerge(m, b, i)
  <2>1. PICK new : new = Len(commits) + 1
    OBVIOUS
  <2>2. Pulled(m, b, tracked[m]) \in SUBSET Files
    <3>1. tracked[m] \subseteq Files /\ At(b).files \subseteq Files /\ At(remote).files \subseteq Files
      BY AtTyped DEF ShapeInv, TypeOK
    <3> QED BY <3>1 DEF Pulled, Merged
  <2>3. PICK fs \in SUBSET Files : fs = Pulled(m, b, tracked[m])
    BY <2>2
  <2>4. PICK past \in SUBSET (1..Len(commits)) : past = Past(head[m]) \cup Past(remote)
    BY <1>2
  <2>5. /\ Commit(fs, i, past) /\ head' = [head EXCEPT ![m] = Len(commits) + 1]
        /\ merging' = [merging EXCEPT ![m] = 0] /\ i # Conflict
    BY <1>1, <1>3, <1>6, <2>3, <2>4 DEF CommitsMerge
  <2>6. KnownAfterCommit(m, fs, i, past, new)
    BY <1>1, <2>1, <2>5, CommitKnown
  <2>7. /\ Len(commits') = new /\ 0..new = (0..Len(commits)) \cup {new}
        /\ At(new)'.files = fs /\ At(new)'.index = i /\ Past(new)' = past \cup {new}
        /\ Ever(new)' = ListedIn(past) \cup Listed(i)
        /\ head'[m] = new /\ merging'[m] = 0
        /\ At(head[m])'.files = fs /\ At(head[m])'.index = i
    BY <2>6 DEF KnownAfterCommit
  <2>8. past = Known(m) \cup Past(remote) /\ ListedIn(past) = Heard(m) \cup Published
    BY <1>2, <2>4 DEF ListedIn, Heard, Published
  <2>9. new # 0
    BY <1>3, <2>1
  <2>10. \A c \in 0..Len(commits') : c \notin 0..Len(commits) => c = new
    BY <2>7
  <2> QED BY <2>3, <2>5, <2>7, <2>8, <2>9, <2>10 DEF KnownAtHead
<1> QED BY <1>4, <1>5, <1>6

\* The ways "git commit" ends: it fails, has nothing to commit, or commits.
Staged(m) == (tracked[m] \cap files[m]) \cup sync[m].new

FailsToCommit(m) ==
  /\ sync' = [sync EXCEPT ![m] = None]
  /\ UNCHANGED <<tracked, head, merging, commits, torn, early>>

PushesOn(m) ==
  /\ sync[m].new \subseteq files[m]
  /\ tracked' = [tracked EXCEPT ![m] = Staged(m)] /\ merging' = [merging EXCEPT ![m] = 0]
  /\ torn' = torn \cup (Listed(index[m]) \ sync[m].seen) \cup HalfPruned(m)
  /\ sync' = [sync EXCEPT ![m].do = "send"]

HasNothingNew(m) ==
  /\ PushesOn(m) /\ UNCHANGED <<head, commits, early>>
  /\ merging[m] = 0 /\ At(head[m]).files = Staged(m) /\ At(head[m]).index = index[m]

CommitsOwn(m) ==
  /\ PushesOn(m) /\ Commit(Staged(m), index[m], Known(m))
  /\ head' = [head EXCEPT ![m] = Len(commits) + 1]
  /\ early' = IF repo[m] = "half" THEN early \cup {Len(commits) + 1} ELSE early

LEMMA PushCases ==
    ASSUME NEW m \in Machines, PushCommits(m)
    PROVE  /\ sync[m] # None /\ sync[m].do = "add"
           /\ FailsToCommit(m) \/ HasNothingNew(m) \/ CommitsOwn(m)
           /\ UNCHANGED <<local, repo, origin, remote, op, gcs, maker, created, pruned, swept, crossed, shown>>
<1>1. sync[m] # None /\ sync[m].do = "add"
      /\ UNCHANGED <<local, repo, origin, remote, op, gcs, maker, created, pruned, swept, crossed, shown>>
  BY DEF PushCommits
<1> DEFINE same == merging[m] = 0 /\ At(head[m]).files = Staged(m) /\ At(head[m]).index = index[m]
<1>2. FailsToCommit(m) \/ HasNothingNew(m) \/ CommitsOwn(m)
  <2>1. CASE ~(sync[m].new \subseteq files[m])
    BY <2>1 DEF PushCommits, FailsToCommit
  <2>2. CASE sync[m].new \subseteq files[m] /\ same
    BY <2>2 DEF PushCommits, HasNothingNew, PushesOn, Staged
  <2>3. CASE sync[m].new \subseteq files[m] /\ ~same
    BY <2>3 DEF PushCommits, CommitsOwn, PushesOn, Staged, Known
  <2> QED BY <2>1, <2>2, <2>3
<1> QED BY <1>1, <1>2

\* What there is after m has committed what it has itself.
KnownAfterOwn(m, new) ==
  /\ KnownAfterCommit(m, Staged(m), index[m], Known(m), new)
  /\ new = Len(commits) + 1 /\ new \in Nat /\ new # 0
  /\ Known(m)' = Known(m) \cup {new} /\ Heard(m)' = Heard(m) \cup Listed(index[m])
  /\ Common(m)' = Common(m) /\ Ever(new)' = Heard(m) \cup Listed(index[m])
  /\ \A n \in Machines : \A c \in 0..Len(commits') : IsBase(n, c)' => c \in 0..Len(commits) /\ IsBase(n, c)
  /\ \A n \in Machines : \A c \in 0..Len(commits) : IsBase(n, c) => IsBase(n, c)'

LEMMA OwnKnown ==
    ASSUME ShapeInv, NEW m \in Machines, sync[m] # None, CommitsOwn(m), remote' = remote
    PROVE  \E new \in 1..Len(commits') : KnownAfterOwn(m, new)
<1>1. PICK new : new = Len(commits) + 1
  OBVIOUS
<1>2. Known(m) \in SUBSET (1..Len(commits)) /\ Past(remote) \subseteq 1..Len(commits) /\ Len(commits) \in Nat
  BY KnownTyped, AtTyped
<1>3. Staged(m) \in SUBSET Files /\ index[m] \in Indexes
  <2>1. tracked[m] \subseteq Files /\ sync[m].new \subseteq Files /\ index[m] \in Indexes
    BY DEF ShapeInv, TypeOK, Syncs
  <2> QED BY <2>1 DEF Staged
<1>4. PICK past \in SUBSET (1..Len(commits)) : past = Known(m)
  BY <1>2
<1>5. PICK fs \in SUBSET Files : fs = Staged(m)
  BY <1>3
<1>6. PICK i \in Indexes : i = index[m]
  BY <1>3
<1>7. Commit(fs, i, past)
  BY <1>4, <1>5, <1>6 DEF CommitsOwn
<1>8. KnownAfterCommit(m, fs, i, past, new)
  BY <1>1, <1>7, CommitKnown DEF CommitsOwn, PushesOn
<1>9. KnownAfterCommit(m, Staged(m), index[m], Known(m), new)
  BY <1>4, <1>5, <1>6, <1>8
<1>10. /\ \A c \in 0..Len(commits) : Past(c)' = Past(c)
       /\ Past(remote)' = Past(remote) /\ Len(commits') = new /\ 0..new = (0..Len(commits)) \cup {new}
       /\ Past(new)' = past \cup {new}
       /\ Ever(new)' = ListedIn(past) \cup Listed(i)
       /\ Known(m)' = past \cup {new} /\ Heard(m)' = ListedIn(past) \cup Listed(i)
       /\ Common(m)' = ListedIn(past \cap Past(remote))
       /\ \A n \in Machines \ {m} : Known(n)' = Known(n)
       /\ \A n \in Machines \ {m}, c \in 0..Len(commits) : IsBase(n, c)' <=> IsBase(n, c)
  BY <1>8 DEF KnownAfterCommit
<1>11. ListedIn(past) = Heard(m) /\ ListedIn(past \cap Past(remote)) = Common(m)
  BY <1>4 DEF Heard, Common
<1>12. new \notin Past(remote) /\ new \in Nat /\ new # 0 /\ new \in 1..new
  BY <1>1, <1>2
<1>13. (Known(m) \cap Past(remote))' = Known(m) \cap Past(remote)
  BY <1>4, <1>10, <1>12
<1>14. \A n \in Machines : \A c \in 0..Len(commits) : IsBase(n, c)' <=> IsBase(n, c)
  <2>1. \A c \in 0..Len(commits) : IsBase(m, c)' <=> IsBase(m, c)
    BY <1>10, <1>13 DEF IsBase
  <2> QED BY <2>1, <1>10
<1>15. \A n \in Machines : ~IsBase(n, new)'
  BY <1>10, <1>12 DEF IsBase
<1>16. \A c \in 0..Len(commits') : c = new \/ c \in 0..Len(commits)
  BY <1>10
<1> QED BY <1>1, <1>4, <1>6, <1>9, <1>10, <1>11, <1>12, <1>14, <1>15, <1>16 DEF KnownAfterOwn

\* What there is after m has sent what it is on.
KnownAfterSend(m) ==
  /\ \A c : At(c)' = At(c) /\ Past(c)' = Past(c) /\ Ever(c)' = Ever(c) /\ Gone(c)' = Gone(c)
  /\ At(remote)' = At(head[m]) /\ Gone(remote)' = Gone(head[m]) /\ Past(remote)' = Past(head[m])
  /\ Gone(head[m]) = GoneHead(m) /\ Past(head[m]) = Known(m) /\ Past(remote) \subseteq Known(m)
  /\ IsBase(m, remote)
  /\ \A n \in Machines : /\ Known(n)' = Known(n) /\ Heard(n)' = Heard(n) /\ At(head[n])' = At(head[n])
                         /\ GoneHead(n)' = GoneHead(n)
  /\ \A n \in Machines \ {m} : /\ Common(n)' = Common(n)
                               /\ \A c \in 0..Len(commits) : IsBase(n, c)' <=> IsBase(n, c)
  /\ Published \subseteq Published' /\ Published' = Heard(m) /\ Common(m)' = Heard(m) /\ All' = All
  /\ IsBase(m, head[m])' /\ \A c \in 0..Len(commits) : IsBase(m, c)' => c = head[m]

LEMMA SendKnown ==
    ASSUME ShapeInv, GraphInv, NEW m \in Machines, sync[m] # None, sync[m].do = "send",
           remote = 0 \/ remote \in Past(head[m]), remote' = head[m], UNCHANGED <<commits, head, merging>>
    PROVE  KnownAfterSend(m)
<1>1. merging[m] = 0 /\ Known(m) = Past(head[m])
  BY KnownTyped DEF GraphInv
<1>2. \A c : At(c)' = At(c) /\ Past(c)' = Past(c) /\ Ever(c)' = Ever(c) /\ Gone(c)' = Gone(c)
  BY DEF At, Past, Ever, Gone, ListedIn, Listed
<1>3. At(remote)' = At(head[m]) /\ Past(remote)' = Past(head[m])
  BY DEF At, Past
<1>4. Gone(remote)' = Gone(head[m])
  BY DEF Gone, Ever, Past, At, ListedIn, Listed
<1>5. Gone(head[m]) = GoneHead(m)
  BY <1>1 DEF Gone, GoneHead, Ever, Heard
<1>6. Past(remote) \subseteq Known(m) /\ IsBase(m, remote)
  <2>1. Past(0) = {} /\ head[m] \in 0..Len(commits) /\ \A c \in 0..Len(commits) : c # 0 => c \in 1..Len(commits)
    BY AtTyped
  <2>2. Past(remote) \subseteq Past(head[m])
    <3>1. CASE head[m] = 0
      BY <3>1, <2>1
    <3>2. CASE head[m] # 0
      BY <3>2, <2>1 DEF GraphInv
    <3> QED BY <3>1, <3>2
  <2> QED BY <2>2, <1>1 DEF IsBase
<1>7. \A n : /\ Known(n)' = Known(n) /\ Heard(n)' = Heard(n) /\ At(head[n])' = At(head[n])
             /\ GoneHead(n)' = GoneHead(n)
  BY DEF Known, Heard, Past, At, ListedIn, Listed, GoneHead
<1>8. ASSUME NEW n \in Machines \ {m}
      PROVE  /\ Common(n)' = Common(n)
             /\ \A c \in 0..Len(commits) : IsBase(n, c)' <=> IsBase(n, c)
  <2>1. Known(n) \cap Known(m) \subseteq Past(remote)
    BY <1>8 DEF GraphInv
  <2>2. Known(n) \cap Past(head[m]) = Known(n) \cap Past(remote)
    BY <2>1, <1>1, <1>6
  <2>3. (Known(n) \cap Past(remote))' = Known(n) \cap Past(remote)
    BY <2>2, <1>3, <1>7
  <2>4. Common(n)' = Common(n)
    BY <2>3 DEF Common, ListedIn, At, Listed
  <2>5. \A c \in 0..Len(commits) : IsBase(n, c)' <=> IsBase(n, c)
    BY <1>2, <2>3 DEF IsBase
  <2> QED BY <2>4, <2>5
<1>9. Published' = Heard(m)
  BY <1>1, <1>3 DEF Published, Heard, ListedIn, At, Listed
<1>10. Published \subseteq Heard(m)
  BY <1>6 DEF Published, Heard, ListedIn
<1>11. (Known(m) \cap Past(remote))' = Past(head[m])
  BY <1>1, <1>3, <1>7
<1>12. Common(m)' = Heard(m)
  BY <1>1, <1>11 DEF Common, Heard, ListedIn, At, Listed
<1>13. All' = All
  BY DEF All, ListedIn, At, Listed
<1>14. IsBase(m, head[m])'
  BY <1>11, <1>2 DEF IsBase, Past, At
<1>15. \A c \in 0..Len(commits) : IsBase(m, c)' => c = head[m]
  <2> TAKE c \in 0..Len(commits)
  <2> HAVE IsBase(m, c)'
  <2>1. Past(c) = Past(head[m])
    BY <1>2, <1>11 DEF IsBase
  <2>2. /\ head[m] \in 0..Len(commits) /\ Len(commits) \in Nat
        /\ \A d \in 0..Len(commits) : Past(d) \subseteq 1..d /\ (d # 0 => d \in 1..Len(commits))
    BY AtTyped
  <2>3. (c # 0 => c \in Past(c)) /\ (head[m] # 0 => head[m] \in Past(head[m]))
    BY <2>2 DEF GraphInv
  <2>4. (c # 0 => c <= head[m]) /\ (head[m] # 0 => head[m] <= c)
    BY <2>1, <2>2, <2>3
  <2> QED BY <2>2, <2>4
<1> QED BY <1>1, <1>2, <1>3, <1>4, <1>5, <1>6, <1>7, <1>8, <1>9, <1>10, <1>12, <1>13, <1>14, <1>15
        DEF KnownAfterSend

-----------------------------------------------------------------------------
(* Creates and GCs.                                                        *)

\* A Create or GC goes on, or stops, without touching a file.
OpTurns(m) == CreateLoads(m) \/ GCLoads(m) \/ GCLists(m) \/ GCMarks(m) \/ OpStops(m)

\* It saves the index.
Saves(m) == CreateSaves(m) \/ GCSaves(m)

LEMMA TaskFacts ==
    ASSUME NEW m \in Machines
    PROVE  /\ Saves(m) \/ GCRemoves(m) \/ OpTurns(m) =>
                UNCHANGED <<repo, origin, tracked, head, merging, commits, remote, sync,
                            maker, crossed, torn, early, shown>>
           /\ OpTurns(m) => UNCHANGED <<files, index, created, pruned, swept>>
           /\ Saves(m) => UNCHANGED <<files, pruned, swept>>
           /\ GCRemoves(m) => UNCHANGED <<index, created>> /\ pruned \subseteq pruned'
BY DEF Saves, OpTurns, CreateSaves, GCSaves, GCRemoves, CreateLoads, GCLoads, GCLists, GCMarks, OpStops,
       git, shared, local, history

-----------------------------------------------------------------------------
(* Types.                                                                  *)

WorkShape ==
  /\ files \in [Machines -> SUBSET Files] /\ tracked \in [Machines -> SUBSET Files]
  /\ index \in [Machines -> Indexes]
  /\ op \in [Machines -> Ops \cup {None}] /\ sync \in [Machines -> Syncs \cup {None}]
  /\ maker \in [Snaps -> Machines \cup {None}] /\ swept \in [Machines -> SUBSET Files]
  /\ created \subseteq Snaps /\ pruned \subseteq Snaps /\ torn \subseteq Snaps /\ shown \subseteq Snaps
  /\ crossed \in BOOLEAN
  /\ \A m \in Machines : op[m] # None => (op[m].snap # 0 <=> op[m].do \in {"publish", "save"})

GitShape ==
  /\ repo \in [Machines -> {"none", "half", "ready"}] /\ origin \in [Machines -> BOOLEAN]
  /\ \A m \in Machines : origin[m] => repo[m] = "ready"
  /\ head \in [Machines -> Nat] /\ merging \in [Machines -> Nat]
  /\ commits \in Seq(CommitRecords)
  /\ remote \in 0..Len(commits)
  /\ \A m \in Machines : head[m] \in 0..Len(commits) /\ merging[m] \in 0..Len(commits)
  /\ \A c \in 1..Len(commits) :
       At(c).files \subseteq Files /\ At(c).index \in Indexes /\ Past(c) \subseteq 1..c

LEMMA ShapeParts == ShapeInv <=> WorkShape /\ GitShape
<1>1. ASSUME ShapeInv PROVE WorkShape
  BY <1>1 DEF ShapeInv, TypeOK, WorkShape
<1>2. ASSUME ShapeInv PROVE GitShape
  <2>1. \A c \in 1..Len(commits) :
          At(c).files \subseteq Files /\ At(c).index \in Indexes /\ Past(c) \subseteq 1..c
    BY <1>2, AtTyped
  <2> QED BY <1>2, <2>1 DEF ShapeInv, TypeOK, GitShape, CommitRecords
<1>3. ASSUME WorkShape, GitShape PROVE ShapeInv
  <2>1. \A c \in 1..Len(commits) : At(c) = commits[c] /\ Past(c) = commits[c].past
    BY <1>3 DEF GitShape, At, Past
  <2>2. \A c \in 1..Len(commits) :
          commits[c].files \subseteq Files /\ commits[c].index \in Indexes /\ commits[c].past \subseteq 1..c
    BY <1>3, <2>1 DEF GitShape
  <2>3. \A m \in Machines : {head[m], merging[m]} \subseteq 0..Len(commits)
    BY <1>3 DEF GitShape
  <2>4. TypeOK
    BY <1>3, <2>2, <2>3 DEF WorkShape, GitShape, TypeOK
  <2> QED BY <1>3, <2>4 DEF WorkShape, GitShape, ShapeInv, CommitRecords
<1> QED BY <1>1, <1>2, <1>3

LEMMA ShapePartsNext == WorkShape' /\ GitShape' => ShapeInv'
BY ShapeParts, PTL

LEMMA GitShapeSame ==
    ASSUME GitShape, UNCHANGED <<repo, origin, head, merging, commits, remote>>
    PROVE  GitShape'
BY DEF GitShape, At, Past

LEMMA FilesTyped ==
    /\ Snaps \subseteq Files /\ Objects \subseteq Files /\ Identity \in Files /\ Ignore \in Files
    /\ \A s \in Snaps : FilesOf(s) \subseteq Snaps \cup Objects /\ s \in FilesOf(s) /\ Content[s] \subseteq Objects
    /\ \A x \in Snaps : x \notin Objects /\ x # Identity /\ x # Ignore
    /\ \A x \in Objects : x \notin Snaps /\ x # Identity /\ x # Ignore
    /\ Snaps \subseteq 1..MaxSnap /\ Snaps \subseteq 0..MaxSnap /\ 0 \notin Snaps /\ MaxSnap \in Nat
    /\ None \notin Machines /\ None \notin Ops /\ None \notin Syncs
<1>1. Content \in [Snaps -> SUBSET Objects] /\ MaxSnap \in Nat
  BY RemoteAssumption
<1>2. \A s \in Snaps : Content[s] \subseteq Objects
  BY <1>1
<1>3. None \notin Machines /\ None \notin Ops /\ None \notin Syncs
  BY NamesAssumption DEF Ops, Stages, Syncs, Files
<1>4. Snaps \subseteq 1..MaxSnap /\ Snaps \subseteq 0..MaxSnap /\ 0 \notin Snaps
  BY <1>1 DEF Snaps
<1>5. /\ \A x \in Snaps : x \notin Objects /\ x # Identity /\ x # Ignore
      /\ \A x \in Objects : x \notin Snaps /\ x # Identity /\ x # Ignore
  BY NamesAssumption
<1> HIDE DEF Snaps
<1> QED BY <1>1, <1>2, <1>3, <1>4, <1>5 DEF Files, FilesOf

\* What a Create or GC saves.
Saved(m) == IF op[m].do = "save" THEN op[m].list \cup {op[m].snap} ELSE op[m].kept

LEMMA SaveFacts ==
    ASSUME ShapeInv, NEW m \in Machines, Saves(m)
    PROVE  /\ op[m] # None /\ op[m] \in Ops /\ op[m].do \in {"save", "prune"}
           /\ Saved(m) \subseteq Snaps /\ Saved(m) \in Indexes /\ Saved(m) # Conflict
           /\ index' = [index EXCEPT ![m] = Saved(m)]
           /\ op[m].do = "save" => /\ op[m].snap \in Snaps /\ created' = created \cup {op[m].snap}
                                   /\ op' = [op EXCEPT ![m] = None]
           /\ op[m].do = "prune" => /\ op[m].doomed = {} /\ created' = created
                                    /\ op' = [op EXCEPT ![m] = [@ EXCEPT !.do = "mark"]]
<1>1. op[m] # None /\ op[m].do \in {"save", "prune"}
  BY DEF Saves, CreateSaves, GCSaves, Works
<1>2. op[m] \in Ops /\ (op[m].snap # 0 <=> op[m].do \in {"publish", "save"})
  BY <1>1 DEF ShapeInv
<1>3. op[m].do = "save" => op[m].snap \in Snaps
  BY <1>2 DEF Ops, Snaps
<1>4. Saved(m) \subseteq Snaps
  BY <1>2, <1>3 DEF Saved, Ops
<1>5. Saved(m) \in Indexes /\ Saved(m) # Conflict
  BY <1>4, ListedTyped
<1> QED BY <1>1, <1>2, <1>3, <1>4, <1>5 DEF Saves, CreateSaves, GCSaves, Works, Saved, history

LEMMA RemoveFacts ==
    ASSUME ShapeInv, NEW m \in Machines, GCRemoves(m)
    PROVE  \E f \in op[m].doomed :
             /\ op[m] # None /\ op[m] \in Ops /\ f \in Snaps \cup Objects
             /\ files' = [files EXCEPT ![m] = @ \ {f}]
             /\ pruned' = pruned \cup ({f} \cap op[m].list)
             /\ swept' = [swept EXCEPT ![m] = @ \cup {f}]
             /\ op' = [op EXCEPT ![m] = [op[m] EXCEPT !.doomed = op[m].doomed \ {f}]]
             /\ [op[m] EXCEPT !.doomed = op[m].doomed \ {f}] \in Ops
<1>1. op[m] # None /\ op[m] \in Ops
  BY DEF GCRemoves, ShapeInv
<1>2. op[m].doomed \subseteq Snaps \cup Objects
  BY <1>1 DEF Ops
<1>3. \A f : [op[m] EXCEPT !.doomed = op[m].doomed \ {f}] \in Ops
  BY <1>1 DEF Ops
<1>4. PICK f \in op[m].doomed :
        /\ files' = [files EXCEPT ![m] = @ \ {f}]
        /\ pruned' = pruned \cup ({f} \cap op[m].list)
        /\ swept' = [swept EXCEPT ![m] = @ \cup {f}]
        /\ op' = [op EXCEPT ![m].doomed = @ \ {f}]
  BY DEF GCRemoves
<1>5. op' = [op EXCEPT ![m] = [op[m] EXCEPT !.doomed = op[m].doomed \ {f}]]
  BY <1>4
<1>6. f \in Snaps \cup Objects
  BY <1>2
<1> QED BY <1>1, <1>3, <1>4, <1>5, <1>6

\* What GC has removed is among what is swept.
LEMMA RemovesOne ==
    ASSUME ShapeInv, NEW m \in Machines, GCRemoves(m)
    PROVE  /\ \A n \in Machines : files'[n] \subseteq files[n] /\ swept[n] \subseteq swept'[n]
           /\ \A n \in Machines : \A f \in files[n] : f \in files'[n] \/ f \in swept'[n]
           /\ \A n \in Machines \ {m} : files'[n] = files[n] /\ swept'[n] = swept[n]
<1>1. files \in [Machines -> SUBSET Files] /\ swept \in [Machines -> SUBSET Files]
  BY DEF ShapeInv, TypeOK
<1>2. PICK f : /\ files' = [files EXCEPT ![m] = @ \ {f}]
               /\ swept' = [swept EXCEPT ![m] = @ \cup {f}]
  BY RemoveFacts
<1> QED BY <1>1, <1>2

LEMMA OpTurnFacts ==
    ASSUME ShapeInv, NEW m \in Machines, OpTurns(m)
    PROVE  /\ op' = [op EXCEPT ![m] = op'[m]] /\ op'[m] \in Ops \cup {None}
           /\ op'[m] # None => (op'[m].snap # 0 <=> op'[m].do \in {"publish", "save"})
           /\ op'[m] # None =>
                \/ op[m] # None /\ op'[m].kept = op[m].kept /\ op'[m].snap = op[m].snap
                   /\ op'[m].list \in {op[m].list, index[m]}
                \/ op'[m].snap = 0 /\ op'[m].list = index[m] /\ op'[m].kept \subseteq index[m]
           /\ \A s : Publishing(m, s)' => Publishing(m, s)
<1>1. /\ op \in [Machines -> Ops \cup {None}] /\ index[m] \in Indexes /\ files[m] \subseteq Files
      /\ op[m] # None => /\ op[m] \in Ops
                         /\ op[m].snap # 0 <=> op[m].do \in {"publish", "save"}
  BY DEF ShapeInv, TypeOK
<1>2. index[m] # Conflict => index[m] \subseteq Snaps
  BY <1>1, ListedTyped
<1>3. CASE OpStops(m)
  BY <1>1, <1>3 DEF OpStops, Publishing
<1>4. CASE CreateLoads(m)
  <2>1. /\ op[m] # None /\ op[m].do = "publish" /\ index[m] # Conflict
        /\ op' = [op EXCEPT ![m] = [@ EXCEPT !.do = "save", !.list = index[m]]]
    BY <1>1, <1>4 DEF CreateLoads, Works
  <2>2. [op[m] EXCEPT !.do = "save", !.list = index[m]] \in Ops
    BY <1>1, <1>2, <2>1 DEF Ops, Stages
  <2> QED BY <1>1, <2>1, <2>2 DEF Publishing, Ops
<1>5. CASE GCLoads(m)
  <2>1. PICK k \in 0..1 :
          op' = [op EXCEPT ![m] = [do |-> "load", snap |-> 0, list |-> index[m],
                   kept |-> {s \in index[m] : Cardinality({r \in index[m] : r > s}) < k}, doomed |-> {}]]
    BY <1>5 DEF GCLoads
  <2>2. PICK kept : kept = {s \in index[m] : Cardinality({r \in index[m] : r > s}) < k}
    OBVIOUS
  <2>3. kept \subseteq index[m] /\ index[m] # Conflict
    BY <1>5, <2>2 DEF GCLoads
  <2>4. op' = [op EXCEPT ![m] = [do |-> "load", snap |-> 0, list |-> index[m], kept |-> kept, doomed |-> {}]]
    BY <2>1, <2>2
  <2>5. [do |-> "load", snap |-> 0, list |-> index[m], kept |-> kept, doomed |-> {}] \in Ops
    BY <1>2, <2>3, FilesTyped DEF Ops, Stages
  <2> QED BY <1>1, <2>3, <2>4, <2>5 DEF Publishing
<1>6. CASE GCLists(m)
  <2>1. PICK doomed : doomed = ((files[m] \cap Snaps) \ op[m].list) \cup (op[m].list \ op[m].kept)
    OBVIOUS
  <2>2. /\ op[m] # None /\ op[m].do = "load"
        /\ op' = [op EXCEPT ![m] = [@ EXCEPT !.do = "prune", !.doomed = doomed]]
    BY <1>1, <1>6, <2>1 DEF GCLists, Works
  <2>3. doomed \subseteq Snaps
    BY <1>1, <2>1, <2>2 DEF Ops
  <2>4. [op[m] EXCEPT !.do = "prune", !.doomed = doomed] \in Ops
    BY <1>1, <2>2, <2>3 DEF Ops, Stages
  <2> QED BY <1>1, <2>2, <2>4 DEF Publishing, Ops
<1>7. CASE GCMarks(m)
  <2>1. PICK doomed : doomed = (files[m] \cap Objects) \ UNION {Content[s] : s \in op[m].kept}
    OBVIOUS
  <2>2. /\ op[m] # None /\ op[m].do = "mark"
        /\ op' = [op EXCEPT ![m] = [@ EXCEPT !.do = "sweep", !.doomed = doomed]]
    BY <1>1, <1>7, <2>1 DEF GCMarks, Works
  <2>3. doomed \subseteq Objects
    BY <2>1
  <2>4. [op[m] EXCEPT !.do = "sweep", !.doomed = doomed] \in Ops
    BY <1>1, <2>2, <2>3 DEF Ops, Stages
  <2> QED BY <1>1, <2>2, <2>4 DEF Publishing, Ops
<1> QED BY <1>3, <1>4, <1>5, <1>6, <1>7 DEF OpTurns

LEMMA WorkShapeStep ==
    ASSUME ShapeInv, GraphInv, AloneInv, \A m \in Machines : Tracks(m), Next
    PROVE  WorkShape'
<1>1. WorkShape
  BY ShapeParts
<1>2. PICK m \in Machines :
        \/ InitRemote(m) \/ CloneRemote(m) \/ CreateStores(m) \/ Saves(m)
        \/ GCRemoves(m) \/ OpTurns(m) \/ PushLists(m) \/ PushCommits(m) \/ PushSends(m)
        \/ PullForwards(m) \/ PullMerges(m)
  BY DEF Next, Saves, OpTurns
<1>3. /\ files[m] \subseteq Files /\ tracked[m] \subseteq Files /\ index[m] \in Indexes /\ swept[m] \subseteq Files
      /\ op[m] \in Ops \cup {None} /\ sync[m] \in Syncs \cup {None} /\ Listed(index[m]) \subseteq Snaps
      /\ index[m] # Conflict => index[m] \subseteq Snaps
  BY <1>1, ListedTyped DEF WorkShape
<1>4. CASE InitRemote(m)
  BY <1>1, <1>3, <1>4, FilesTyped DEF InitRemote, WorkShape, history
<1>5. CASE CloneRemote(m) \/ PullForwards(m) \/ PullMerges(m)
  <2>1. PICK b \in 0..Len(commits), i \in Indexes : Pulls(m, b, i)
    BY <1>5, PullSteps DEF PullStep
  <2>2. Pulled(m, b, files[m]) \subseteq Files /\ Pulled(m, b, tracked[m]) \subseteq Files
    <3>1. At(b).files \subseteq Files /\ At(remote).files \subseteq Files
      BY AtTyped
    <3> QED BY <1>3, <3>1 DEF Pulled, Merged
  <2> QED BY <1>1, <1>3, <2>1, <2>2 DEF Pulls, WorkShape, Crosses
<1>6. CASE CreateStores(m)
  <2>1. PICK s \in Snaps :
          /\ maker' = [maker EXCEPT ![s] = m]
          /\ op' = [op EXCEPT ![m] = [do |-> "publish", snap |-> s, list |-> {}, kept |-> {}, doomed |-> {}]]
          /\ files' = [files EXCEPT ![m] = @ \cup {s} \cup Content[s]]
    BY <1>6 DEF CreateStores
  <2>2. /\ [do |-> "publish", snap |-> s, list |-> {}, kept |-> {}, doomed |-> {}] \in Ops /\ s # 0
        /\ {s} \cup Content[s] \subseteq Files
    BY FilesTyped DEF Ops, Stages
  <2>3. /\ UNCHANGED <<tracked, index, sync, swept, created, pruned, crossed, torn, shown>>
        /\ maker' \in [Snaps -> Machines \cup {None}] /\ files' \in [Machines -> SUBSET Files]
        /\ op' \in [Machines -> Ops \cup {None}]
    BY <1>1, <1>3, <1>6, <2>1, <2>2 DEF CreateStores, WorkShape, git
  <2>4. \A n \in Machines : op'[n] # None => (op'[n].snap # 0 <=> op'[n].do \in {"publish", "save"})
    BY <1>1, <2>1, <2>2 DEF WorkShape
  <2> QED BY <1>1, <2>3, <2>4 DEF WorkShape
<1>7. CASE Saves(m)
  <2>1. /\ Saved(m) \in Indexes /\ index' = [index EXCEPT ![m] = Saved(m)] /\ created' \subseteq Snaps
        /\ UNCHANGED <<files, tracked, sync, maker, swept, pruned, crossed, torn, shown>>
    BY <1>1, <1>7, SaveFacts, TaskFacts DEF WorkShape
  <2>2. /\ op' \in [Machines -> Ops \cup {None}]
        /\ \A n \in Machines : op'[n] # None => (op'[n].snap # 0 <=> op'[n].do \in {"publish", "save"})
    <3>1. op[m] \in Ops /\ op[m] # None
      BY <1>7, SaveFacts
    <3>2. [op[m] EXCEPT !.do = "mark"] \in Ops
      BY <3>1 DEF Ops, Stages
    <3>3. CASE op[m].do = "save"
      BY <1>1, <1>7, <3>3, SaveFacts DEF WorkShape
    <3>4. CASE op[m].do = "prune"
      <4>1. op' = [op EXCEPT ![m] = [@ EXCEPT !.do = "mark"]]
        BY <1>7, <3>4, SaveFacts
      <4>2. [op[m] EXCEPT !.do = "mark"].do = "mark" /\ [op[m] EXCEPT !.do = "mark"].snap = 0
        BY <1>1, <3>1, <3>4 DEF WorkShape, Ops
      <4> QED BY <1>1, <3>2, <4>1, <4>2 DEF WorkShape
    <3> QED BY <1>7, <3>3, <3>4, SaveFacts
  <2> QED BY <1>1, <2>1, <2>2 DEF WorkShape
<1>8. CASE GCRemoves(m)
  <2>1. PICK f \in Snaps \cup Objects :
          /\ op[m] # None /\ op[m] \in Ops
          /\ files' = [files EXCEPT ![m] = @ \ {f}]
          /\ pruned' = pruned \cup ({f} \cap op[m].list)
          /\ swept' = [swept EXCEPT ![m] = @ \cup {f}]
          /\ op' = [op EXCEPT ![m] = [op[m] EXCEPT !.doomed = op[m].doomed \ {f}]]
          /\ [op[m] EXCEPT !.doomed = op[m].doomed \ {f}] \in Ops
    BY <1>8, RemoveFacts
  <2>2. f \in Files /\ op[m].list \subseteq Snaps
    BY <2>1, FilesTyped DEF Ops
  <2>3. /\ UNCHANGED <<tracked, index, sync, maker, created, crossed, torn, shown>>
        /\ files' \in [Machines -> SUBSET Files] /\ swept' \in [Machines -> SUBSET Files]
        /\ op' \in [Machines -> Ops \cup {None}] /\ pruned' \subseteq Snaps
    <3>1. PICK new \in Ops : new = [op[m] EXCEPT !.doomed = op[m].doomed \ {f}]
      BY <2>1
    <3>2. op' = [op EXCEPT ![m] = new]
      BY <2>1, <3>1
    <3>3. op' \in [Machines -> Ops \cup {None}]
      BY <1>1, <3>2 DEF WorkShape
    <3> QED BY <1>1, <1>3, <1>8, <2>1, <2>2, <3>3, TaskFacts DEF WorkShape
  <2>4. \A n \in Machines : op'[n] # None => (op'[n].snap # 0 <=> op'[n].do \in {"publish", "save"})
    <3>1. LET new == [op[m] EXCEPT !.doomed = op[m].doomed \ {f}] IN new.snap = op[m].snap /\ new.do = op[m].do
      BY <2>1 DEF Ops
    <3> QED BY <1>1, <2>1, <3>1 DEF WorkShape
  <2> QED BY <1>1, <2>3, <2>4 DEF WorkShape
<1>9. CASE OpTurns(m)
  <2>1. UNCHANGED <<files, tracked, index, sync, maker, swept, created, pruned, crossed, torn, shown>>
    BY <1>9, TaskFacts
  <2>2. /\ op' \in [Machines -> Ops \cup {None}]
        /\ \A n \in Machines : op'[n] # None => (op'[n].snap # 0 <=> op'[n].do \in {"publish", "save"})
    <3>1. /\ op' = [op EXCEPT ![m] = op'[m]] /\ op'[m] \in Ops \cup {None}
          /\ op'[m] # None => (op'[m].snap # 0 <=> op'[m].do \in {"publish", "save"})
      BY <1>9, OpTurnFacts
    <3>2. PICK new \in Ops \cup {None} : new = op'[m]
      BY <3>1
    <3>3. op' = [op EXCEPT ![m] = new]
      BY <3>1, <3>2
    <3> QED BY <1>1, <3>1, <3>2, <3>3 DEF WorkShape
  <2> QED BY <1>1, <2>1, <2>2 DEF WorkShape
<1>10. CASE PushLists(m)
  <2>1. [do |-> "add", new |-> (files[m] \ tracked[m]) \ Ignored(m), seen |-> Listed(index[m])] \in Syncs
    BY <1>3 DEF Syncs
  <2> QED BY <1>1, <1>10, <2>1 DEF PushLists, WorkShape, local, git, history
<1>11. CASE PushCommits(m)
  <2>1. FailsToCommit(m) \/ PushesOn(m)
    BY <1>11, PushCases DEF HasNothingNew, CommitsOwn
  <2>2. sync[m] \in Syncs /\ UNCHANGED <<files, index, op, maker, created, pruned, swept, crossed, shown>>
    BY <1>3, <1>11, PushCases DEF local
  <2>3. CASE FailsToCommit(m)
    BY <1>1, <2>2, <2>3 DEF FailsToCommit, WorkShape
  <2>4. CASE PushesOn(m)
    <3>1. Staged(m) \subseteq Files
      BY <1>3, <2>2 DEF Staged, Syncs
    <3>2. [sync[m] EXCEPT !.do = "send"] \in Syncs
      BY <2>2 DEF Syncs
    <3>3. sync' \in [Machines -> Syncs \cup {None}]
      BY <1>1, <2>4, <3>2 DEF PushesOn, WorkShape
    <3>4. torn' \subseteq Snaps
      BY <1>1, <1>3, <2>4 DEF PushesOn, HalfPruned, WorkShape
    <3> QED BY <1>1, <2>2, <2>4, <3>1, <3>3, <3>4 DEF PushesOn, WorkShape
  <2> QED BY <2>1, <2>3, <2>4
<1>12. CASE PushSends(m)
  <2>1. Listed(At(head[m]).index) \subseteq Snaps
    BY AtTyped, ListedTyped
  <2> QED BY <1>1, <1>12, <2>1 DEF PushSends, WorkShape, local, git
<1> QED BY <1>2, <1>4, <1>5, <1>6, <1>7, <1>8, <1>9, <1>10, <1>11, <1>12

LEMMA GitShapeStep ==
    ASSUME ShapeInv, GraphInv, AloneInv, \A m \in Machines : Tracks(m), Next
    PROVE  GitShape'
<1>1. GitShape
  BY ShapeParts
<1>2. PICK m \in Machines :
        \/ InitRemote(m) \/ CloneRemote(m) \/ CreateStores(m) \/ Saves(m)
        \/ GCRemoves(m) \/ OpTurns(m) \/ PushLists(m) \/ PushCommits(m) \/ PushSends(m)
        \/ PullForwards(m) \/ PullMerges(m)
  BY DEF Next, Saves, OpTurns
<1>3. ASSUME NEW fs \in SUBSET Files, NEW i \in Indexes, NEW past \in SUBSET (1..Len(commits)), Commit(fs, i, past),
             head' = [head EXCEPT ![m] = Len(commits) + 1], merging' = [merging EXCEPT ![m] = 0], remote' = remote,
             repo' \in [Machines -> {"none", "half", "ready"}], origin' \in [Machines -> BOOLEAN],
             \A n \in Machines : origin'[n] => repo'[n] = "ready"
      PROVE  GitShape'
  <2>1. PICK new : new = Len(commits) + 1
    OBVIOUS
  <2>2. KnownAfterCommit(m, fs, i, past, new)
    BY <1>3, <2>1, CommitKnown
  <2>3. /\ \A c \in 0..Len(commits) : At(c)' = At(c) /\ Past(c)' = Past(c)
        /\ Len(commits') = new /\ 0..new = (0..Len(commits)) \cup {new} /\ 1..new = (1..Len(commits)) \cup {new}
        /\ At(new)'.files = fs /\ At(new)'.index = i /\ Past(new)' = past \cup {new}
    BY <2>2 DEF KnownAfterCommit
  <2>4. commits' \in Seq(CommitRecords)
    BY <1>3, NewCommit
  <2>5. Len(commits) \in Nat /\ new \in Nat /\ past \cup {new} \subseteq 1..new /\ 1..Len(commits) \subseteq 0..Len(commits)
    <3>1. Len(commits) \in Nat
      BY AtTyped
    <3>2. new \in Nat /\ new \in 1..new /\ 1..Len(commits) \subseteq 1..new /\ 1..Len(commits) \subseteq 0..Len(commits)
      BY <2>1, <3>1
    <3> QED BY <3>1, <3>2
  <2>6. \A c \in 1..Len(commits') : At(c)'.files \subseteq Files /\ At(c)'.index \in Indexes /\ Past(c)' \subseteq 1..c
    <3> TAKE c \in 1..Len(commits')
    <3>1. CASE c = new
      BY <3>1, <2>3, <2>5
    <3>2. CASE c # new
      <4>1. c \in 1..Len(commits) /\ At(c)' = At(c) /\ Past(c)' = Past(c)
        BY <3>2, <2>3, <2>5
      <4> QED BY <4>1, <1>1 DEF GitShape
    <3> QED BY <3>1, <3>2
  <2>7. /\ head' \in [Machines -> Nat] /\ merging' \in [Machines -> Nat] /\ remote' \in 0..Len(commits')
        /\ \A n \in Machines : head'[n] \in 0..Len(commits') /\ merging'[n] \in 0..Len(commits')
    <3>1. new \in 0..Len(commits') /\ 0 \in 0..Len(commits') /\ 0..Len(commits) \subseteq 0..Len(commits')
      BY <2>3, <2>5
    <3> QED BY <1>1, <1>3, <2>1, <2>5, <3>1 DEF GitShape
  <2> QED BY <1>3, <2>4, <2>6, <2>7 DEF GitShape
<1>4. CASE InitRemote(m)
  <2>1. \A c : At(c)' = At(c) /\ Past(c)' = Past(c)
    BY <1>4 DEF InitRemote, shared, At, Past
  <2> QED BY <1>1, <1>4, <2>1 DEF InitRemote, GitShape, shared
<1>5. CASE CloneRemote(m) \/ PullForwards(m) \/ PullMerges(m)
  <2>1. PICK b \in 0..Len(commits), i \in Indexes :
          Pulls(m, b, i) /\ (Follows(m, b, i) \/ CommitsMerge(m, b, i) \/ Conflicts(m, b, i))
    BY <1>5, PullSteps DEF PullStep
  <2>2. /\ repo' = [repo EXCEPT ![m] = "ready"] /\ remote' = remote /\ merging[m] = 0
        /\ origin' = origin \/ origin' = [origin EXCEPT ![m] = TRUE]
    BY <1>5, <2>1, PullSteps DEF Pulls
  <2>3. /\ repo' \in [Machines -> {"none", "half", "ready"}] /\ origin' \in [Machines -> BOOLEAN]
        /\ \A n \in Machines : origin'[n] => repo'[n] = "ready"
    BY <1>1, <2>2 DEF GitShape
  <2>4. CASE Follows(m, b, i) \/ Conflicts(m, b, i)
    <3>1. /\ commits' = commits /\ head' \in [Machines -> Nat] /\ merging' \in [Machines -> Nat]
          /\ \A n \in Machines : head'[n] \in 0..Len(commits) /\ merging'[n] \in 0..Len(commits)
      <4>1. remote \in 0..Len(commits) /\ remote \in Nat
        BY <1>1, AtTyped DEF GitShape
      <4>2. CASE Follows(m, b, i)
        BY <1>1, <4>1, <4>2 DEF Follows, GitShape
      <4>3. CASE Conflicts(m, b, i)
        BY <1>1, <4>1, <4>3 DEF Conflicts, GitShape
      <4> QED BY <2>4, <4>2, <4>3
    <3>2. \A c : At(c)' = At(c) /\ Past(c)' = Past(c)
      BY <3>1 DEF At, Past
    <3> QED BY <1>1, <2>2, <2>3, <3>1, <3>2 DEF GitShape
  <2>5. CASE CommitsMerge(m, b, i)
    <3>1. Pulled(m, b, tracked[m]) \in SUBSET Files
      <4>1. tracked[m] \subseteq Files /\ At(b).files \subseteq Files /\ At(remote).files \subseteq Files
        BY AtTyped DEF ShapeInv, TypeOK
      <4> QED BY <4>1 DEF Pulled, Merged
    <3>2. Past(head[m]) \cup Past(remote) \in SUBSET (1..Len(commits))
      BY KnownTyped
    <3>3. merging' = [merging EXCEPT ![m] = 0]
      BY <1>1, <2>2, <2>5 DEF CommitsMerge, GitShape
    <3> QED BY <1>3, <2>2, <2>3, <2>5, <3>1, <3>2, <3>3 DEF CommitsMerge
  <2> QED BY <2>1, <2>4, <2>5
<1>6. CASE CreateStores(m) \/ Saves(m) \/ GCRemoves(m) \/ OpTurns(m) \/ PushLists(m)
  <2>1. UNCHANGED <<repo, origin, head, merging, commits, remote>>
    BY <1>6, TaskFacts DEF CreateStores, PushLists, git, shared
  <2> QED BY <1>1, <2>1, GitShapeSame
<1>7. CASE PushCommits(m)
  <2>1. sync[m] # None /\ UNCHANGED <<repo, origin, remote>>
    BY <1>7, PushCases
  <2>2. CASE FailsToCommit(m)
    BY <1>1, <2>1, <2>2, GitShapeSame DEF FailsToCommit
  <2>3. CASE HasNothingNew(m)
    <3>1. merging' = merging
      BY <1>1, <2>3 DEF HasNothingNew, PushesOn, GitShape
    <3> QED BY <1>1, <2>1, <2>3, <3>1, GitShapeSame DEF HasNothingNew
  <2>4. CASE CommitsOwn(m)
    <3>1. Staged(m) \in SUBSET Files /\ index[m] \in Indexes
      <4>1. tracked[m] \subseteq Files /\ sync[m].new \subseteq Files /\ index[m] \in Indexes
        BY <2>1 DEF ShapeInv, TypeOK, Syncs
      <4> QED BY <4>1 DEF Staged
    <3>2. Known(m) \in SUBSET (1..Len(commits))
      BY KnownTyped
    <3> QED BY <1>1, <1>3, <2>1, <2>4, <3>1, <3>2 DEF CommitsOwn, PushesOn, GitShape
  <2> QED BY <1>7, <2>2, <2>3, <2>4, PushCases
<1>8. CASE PushSends(m)
  <2>1. UNCHANGED <<repo, origin, head, merging, commits>> /\ remote' \in {remote, head[m]}
    BY <1>8 DEF PushSends, git
  <2>2. \A c : At(c)' = At(c) /\ Past(c)' = Past(c)
    BY <2>1 DEF At, Past
  <2> QED BY <1>1, <2>1, <2>2 DEF GitShape
<1> QED BY <1>2, <1>4, <1>5, <1>6, <1>7, <1>8

LEMMA ShapeStep ==
    ASSUME ShapeInv, GraphInv, AloneInv, \A m \in Machines : Tracks(m), [Next]_vars
    PROVE  ShapeInv'
<1>1. CASE Next
  BY <1>1, WorkShapeStep, GitShapeStep, ShapePartsNext
<1>2. CASE UNCHANGED vars
  <2>1. WorkShape'
    BY <1>2, ShapeParts DEF vars, local, git, history, WorkShape
  <2>2. GitShape'
    BY <1>2, ShapeParts, GitShapeSame DEF vars, git, shared
  <2> QED BY <2>1, <2>2, ShapePartsNext
<1> QED BY <1>1, <1>2

-----------------------------------------------------------------------------
(* The graph of commits.                                                   *)

\* The part of GraphInv that is about commits alone.
CommitGraph ==
  /\ \A c \in 1..Len(commits) : c \in Past(c) /\ \A d \in Past(c) : Past(d) \subseteq Past(c)
  /\ \A m, n \in Machines : m # n => Known(m) \cap Known(n) \subseteq Past(remote)
  /\ \A m \in Machines : \E b \in 0..Len(commits) : IsBase(m, b)

Bound ==
  /\ \A m \in Machines : merging[m] # 0 =>
       merging[m] \in Past(remote) /\ head[m] # 0 /\ repo[m] = "ready"
  /\ \A m \in Machines : sync[m] # None /\ sync[m].do = "send" => merging[m] = 0
  /\ \A m \in Machines : repo[m] = "none" => head[m] = 0 /\ sync[m] = None

LEMMA GraphParts == (GraphInv <=> CommitGraph /\ Bound) /\ (GraphInv' <=> CommitGraph' /\ Bound')
BY DEF GraphInv, CommitGraph, Bound

LEMMA CommitGraphSame ==
    ASSUME CommitGraph, UNCHANGED <<commits, head, merging, remote>>
    PROVE  CommitGraph'
<1>1. /\ \A c : Past(c)' = Past(c)
      /\ Past(remote)' = Past(remote)
      /\ \A m : Known(m)' = Known(m)
      /\ \A m, b : IsBase(m, b)' <=> IsBase(m, b)
  BY SameKnown
<1> QED BY <1>1 DEF CommitGraph

LEMMA GraphInit == Init => GraphInv
<1> SUFFICES ASSUME Init PROVE GraphInv
  OBVIOUS
<1>1. ShapeInv
  BY ShapeInit
<1>2. Len(commits) = 0 /\ remote = 0 /\ \A m \in Machines : head[m] = 0 /\ merging[m] = 0 /\ sync[m] = None
  BY DEF Init
<1>3. Past(0) = {}
  BY <1>1, AtTyped
<1>4. \A m \in Machines : Known(m) = {} /\ IsBase(m, 0)
  BY <1>2, <1>3 DEF Known, IsBase
<1>5. 0 \in 0..Len(commits) /\ ~(\E c \in 1..Len(commits) : TRUE)
  BY <1>2
<1>6. CommitGraph
  BY <1>4, <1>5 DEF CommitGraph
<1>7. Bound
  BY <1>2 DEF Bound
<1> QED BY <1>6, <1>7, GraphParts

LEMMA CommitGraphStep ==
    ASSUME ShapeInv, GraphInv, AloneInv, \A m \in Machines : Tracks(m), Next
    PROVE  CommitGraph'
<1>1. CommitGraph
  BY GraphParts
<1>2. PICK m \in Machines :
        \/ InitRemote(m) \/ CloneRemote(m) \/ CreateStores(m) \/ Saves(m)
        \/ GCRemoves(m) \/ OpTurns(m) \/ PushLists(m) \/ PushCommits(m) \/ PushSends(m)
        \/ PullForwards(m) \/ PullMerges(m)
  BY DEF Next, Saves, OpTurns
<1>3. /\ Len(commits) \in Nat /\ 1..Len(commits) \subseteq 0..Len(commits)
      /\ \A n \in Machines : Known(n) \subseteq 1..Len(commits)
      /\ remote \in 0..Len(commits) /\ \A n \in Machines : head[n] \in 0..Len(commits) /\ merging[n] \in 0..Len(commits)
      /\ \A c \in 0..Len(commits) : (c # 0 => c \in 1..Len(commits)) /\ Past(c) \subseteq 1..Len(commits)
      /\ Past(0) = {}
  BY AtTyped, KnownTyped
<1>4. \A n \in Machines : \A d \in Known(n) : Past(d) \subseteq Known(n)
  <2>1. \A c \in 0..Len(commits) : \A d \in Past(c) : Past(d) \subseteq Past(c)
    BY <1>1, <1>3 DEF CommitGraph
  <2> QED BY <1>3, <2>1 DEF Known
<1>5. CASE InitRemote(m) \/ CreateStores(m) \/ Saves(m) \/ GCRemoves(m) \/ OpTurns(m) \/ PushLists(m)
  <2>1. UNCHANGED <<head, merging, commits, remote>>
    BY <1>5, TaskFacts DEF InitRemote, CreateStores, PushLists, git, shared
  <2> QED BY <1>1, <2>1, CommitGraphSame
<1>6. CASE CloneRemote(m) \/ PullForwards(m) \/ PullMerges(m)
  <2>1. PICK b \in 0..Len(commits), i \in Indexes :
          Pulls(m, b, i) /\ (Follows(m, b, i) \/ CommitsMerge(m, b, i) \/ Conflicts(m, b, i))
    BY <1>6, PullSteps DEF PullStep
  <2>2. KnownAfterPull(m, i) /\ KnownAtHead(m, b, i) /\ remote' = remote
    BY <2>1, PullKnown, PullHead DEF Pulls
  <2>3. /\ \A c \in 0..Len(commits) : Past(c)' = Past(c)
        /\ Past(remote)' = Past(remote) /\ Len(commits') \in Nat /\ Len(commits) <= Len(commits')
        /\ \A n \in Machines \ {m} : Known(n)' = Known(n)
        /\ \A n \in Machines \ {m} : \A c \in 0..Len(commits) : IsBase(n, c) => IsBase(n, c)'
        /\ IsBase(m, remote)'
        /\ Known(m)' \cap (1..Len(commits)) \subseteq Known(m) \cup Past(remote)
    BY <2>2 DEF KnownAfterPull
  <2>4. \A c \in 0..Len(commits') : c \notin 0..Len(commits) => Past(c)' = Known(m) \cup Past(remote) \cup {c}
    BY <2>2 DEF KnownAtHead
  <2>5. \A c \in 1..Len(commits') : c \in Past(c)' /\ \A d \in Past(c)' : Past(d)' \subseteq Past(c)'
    <3> TAKE c \in 1..Len(commits')
    <3>1. c \in 0..Len(commits')
      BY <2>3
    <3>2. CASE c \in 0..Len(commits)
      <4>1. c \in 1..Len(commits)
        BY <2>3, <3>2, <1>3
      <4> QED BY <4>1, <3>2, <1>1, <1>3, <2>3 DEF CommitGraph
    <3>3. CASE c \notin 0..Len(commits)
      <4>1. Past(c)' = Known(m) \cup Past(remote) \cup {c}
        BY <3>1, <3>3, <2>4
      <4>2. \A d \in Past(remote) : Past(d) \subseteq Past(remote)
        BY <1>1, <1>3 DEF CommitGraph
      <4>3. \A d \in Known(m) \cup Past(remote) : d \in 0..Len(commits) /\ Past(d)' = Past(d)
        BY <1>3, <2>3
      <4> QED BY <4>1, <4>2, <4>3, <1>4
    <3> QED BY <3>2, <3>3
  <2>6. \A n, k \in Machines : n # k => Known(n)' \cap Known(k)' \subseteq Past(remote)'
    <3>1. \A n \in Machines \ {m} : Known(m)' \cap Known(n)' \subseteq Past(remote)'
      BY <1>1, <1>3, <2>3 DEF CommitGraph
    <3>2. \A n, k \in Machines \ {m} : n # k => Known(n)' \cap Known(k)' \subseteq Past(remote)'
      BY <1>1, <2>3 DEF CommitGraph
    <3> QED BY <3>1, <3>2
  <2>7. \A n \in Machines : \E c \in 0..Len(commits') : IsBase(n, c)'
    <3>1. 0..Len(commits) \subseteq 0..Len(commits') /\ remote \in 0..Len(commits')
      BY <1>3, <2>3
    <3> TAKE n \in Machines
    <3>2. PICK c \in 0..Len(commits) : IsBase(n, c)
      BY <1>1 DEF CommitGraph
    <3>3. CASE n = m
      BY <3>1, <3>3, <2>2, <2>3
    <3>4. CASE n # m
      BY <3>1, <3>2, <3>4, <2>3
    <3> QED BY <3>3, <3>4
  <2> QED BY <2>5, <2>6, <2>7 DEF CommitGraph
<1>7. CASE PushCommits(m)
  <2>1. sync[m] # None /\ UNCHANGED remote
    BY <1>7, PushCases
  <2>2. CASE FailsToCommit(m) \/ HasNothingNew(m)
    <3>1. UNCHANGED <<head, merging, commits, remote>>
      BY <2>1, <2>2 DEF FailsToCommit, HasNothingNew, PushesOn, ShapeInv
    <3> QED BY <1>1, <3>1, CommitGraphSame
  <2>3. CASE CommitsOwn(m)
    <3>1. PICK new \in 1..Len(commits') : KnownAfterOwn(m, new)
      BY <2>1, <2>3, OwnKnown
    <3>2. /\ new = Len(commits) + 1 /\ Known(m)' = Known(m) \cup {new}
          /\ \A n \in Machines : \A c \in 0..Len(commits) : IsBase(n, c) => IsBase(n, c)'
          /\ KnownAfterCommit(m, Staged(m), index[m], Known(m), new)
      BY <3>1 DEF KnownAfterOwn
    <3>3. /\ \A c \in 0..Len(commits) : Past(c)' = Past(c)
          /\ Past(remote)' = Past(remote)
          /\ Len(commits') = new /\ 0..new = (0..Len(commits)) \cup {new} /\ 1..new = (1..Len(commits)) \cup {new}
          /\ Past(new)' = Known(m) \cup {new}
          /\ \A n \in Machines \ {m} : Known(n)' = Known(n)
      BY <3>2 DEF KnownAfterCommit
    <3>4. \A c \in 1..Len(commits') : c \in Past(c)' /\ \A d \in Past(c)' : Past(d)' \subseteq Past(c)'
      <4> TAKE c \in 1..Len(commits')
      <4>1. CASE c \in 1..Len(commits)
        BY <4>1, <1>1, <1>3, <3>3 DEF CommitGraph
      <4>2. CASE c = new
        <5>1. \A d \in Known(m) : Past(d)' = Past(d)
          BY <1>3, <3>3
        <5> QED BY <4>2, <5>1, <1>4, <3>3
      <4> QED BY <4>1, <4>2, <3>3
    <3>5. \A n \in Machines : new \notin Known(n)
      BY <1>3, <3>2
    <3>6. \A n, k \in Machines : n # k => Known(n)' \cap Known(k)' \subseteq Past(remote)'
      BY <1>1, <3>2, <3>3, <3>5 DEF CommitGraph
    <3>7. \A n \in Machines : \E c \in 0..Len(commits') : IsBase(n, c)'
      BY <1>1, <3>2, <3>3 DEF CommitGraph
    <3> QED BY <3>4, <3>6, <3>7 DEF CommitGraph
  <2> QED BY <1>7, <2>2, <2>3, PushCases
<1>8. CASE PushSends(m)
  <2>1. UNCHANGED <<head, merging, commits>> /\ sync[m] # None /\ sync[m].do = "send"
    BY <1>8 DEF PushSends, git
  <2>2. CASE remote' = remote
    BY <1>1, <2>1, <2>2, CommitGraphSame
  <2>3. CASE remote' # remote
    <3>1. (remote = 0 \/ remote \in Past(head[m])) /\ remote' = head[m]
      BY <1>8, <2>3 DEF PushSends
    <3>2. KnownAfterSend(m)
      BY <2>1, <3>1, SendKnown
    <3>3. /\ \A c : Past(c)' = Past(c)
          /\ Past(remote)' = Known(m) /\ Past(remote) \subseteq Known(m)
          /\ \A n \in Machines : Known(n)' = Known(n)
          /\ \A n \in Machines \ {m} : \A c \in 0..Len(commits) : IsBase(n, c)' <=> IsBase(n, c)
          /\ IsBase(m, head[m])'
      BY <3>2 DEF KnownAfterSend
    <3>4. \A c \in 1..Len(commits') : c \in Past(c)' /\ \A d \in Past(c)' : Past(d)' \subseteq Past(c)'
      BY <1>1, <2>1, <3>3 DEF CommitGraph
    <3>5. \A n, k \in Machines : n # k => Known(n)' \cap Known(k)' \subseteq Past(remote)'
      BY <1>1, <3>3 DEF CommitGraph
    <3>6. \A n \in Machines : \E c \in 0..Len(commits') : IsBase(n, c)'
      <4> TAKE n \in Machines
      <4>1. CASE n = m
        BY <4>1, <1>3, <2>1, <3>3
      <4>2. CASE n # m
        BY <4>2, <1>1, <2>1, <3>3 DEF CommitGraph
      <4> QED BY <4>1, <4>2
    <3> QED BY <3>4, <3>5, <3>6 DEF CommitGraph
  <2> QED BY <2>2, <2>3
<1> QED BY <1>2, <1>5, <1>6, <1>7, <1>8

LEMMA BoundStep ==
    ASSUME ShapeInv, GraphInv, AloneInv, \A m \in Machines : Tracks(m), Next
    PROVE  Bound'
<1>1. Bound
  BY GraphParts
<1>2. PICK m \in Machines :
        \/ InitRemote(m) \/ CloneRemote(m) \/ CreateStores(m) \/ Saves(m)
        \/ GCRemoves(m) \/ OpTurns(m) \/ PushLists(m) \/ PushCommits(m) \/ PushSends(m)
        \/ PullForwards(m) \/ PullMerges(m)
  BY DEF Next, Saves, OpTurns
<1>3. /\ repo \in [Machines -> {"none", "half", "ready"}] /\ sync \in [Machines -> Syncs \cup {None}]
      /\ head \in [Machines -> Nat] /\ merging \in [Machines -> Nat]
  BY DEF ShapeInv
<1>4. CASE InitRemote(m)
  <2>1. /\ UNCHANGED <<head, merging, commits, remote, sync>> /\ repo[m] # "ready"
        /\ repo' = [repo EXCEPT ![m] = "half"] \/ repo' = [repo EXCEPT ![m] = "ready"]
    BY <1>4 DEF InitRemote, shared
  <2>2. Past(remote)' = Past(remote)
    BY <2>1, SameKnown
  <2> QED BY <1>1, <1>3, <2>1, <2>2 DEF Bound
<1>5. CASE CloneRemote(m) \/ PullForwards(m) \/ PullMerges(m)
  <2>1. PICK b \in 0..Len(commits), i \in Indexes :
          Pulls(m, b, i) /\ (Follows(m, b, i) \/ CommitsMerge(m, b, i) \/ Conflicts(m, b, i))
    BY <1>5, PullSteps DEF PullStep
  <2>2. KnownAfterPull(m, i) /\ KnownAtHead(m, b, i)
    BY <2>1, PullKnown, PullHead
  <2>3. /\ Past(remote)' = Past(remote)
        /\ \A n \in Machines \ {m} : head'[n] = head[n] /\ merging'[n] = merging[n]
    BY <2>2 DEF KnownAfterPull
  <2>4. merging'[m] = 0 \/ (merging'[m] = remote /\ head'[m] = head[m] /\ head[m] # 0)
    BY <2>2 DEF KnownAtHead
  <2>5. remote # 0 /\ sync[m] = None /\ sync' = sync /\ repo' = [repo EXCEPT ![m] = "ready"]
    BY <2>1 DEF Pulls
  <2>6. remote \in Past(remote)
    <3>1. remote \in 1..Len(commits)
      BY <2>5, AtTyped
    <3> QED BY <3>1 DEF GraphInv
  <2> QED BY <1>1, <1>3, <2>3, <2>4, <2>5, <2>6 DEF Bound
<1>6. CASE CreateStores(m) \/ Saves(m) \/ GCRemoves(m) \/ OpTurns(m)
  <2>1. UNCHANGED <<head, merging, commits, remote, sync, repo>>
    BY <1>6, TaskFacts DEF CreateStores, git, shared
  <2>2. Past(remote)' = Past(remote)
    BY <2>1, SameKnown
  <2> QED BY <1>1, <2>1, <2>2 DEF Bound
<1>7. CASE PushLists(m)
  <2>1. /\ UNCHANGED <<head, merging, commits, remote, repo>> /\ repo[m] # "none"
        /\ sync' = [sync EXCEPT ![m] = [do |-> "add", new |-> (files[m] \ tracked[m]) \ Ignored(m),
                                         seen |-> Listed(index[m])]]
    BY <1>7 DEF PushLists, git, shared
  <2>2. Past(remote)' = Past(remote)
    BY <2>1, SameKnown
  <2> QED BY <1>1, <1>3, <2>1, <2>2 DEF Bound
<1>8. CASE PushCommits(m)
  <2>1. sync[m] # None /\ UNCHANGED <<remote, repo>> /\ repo[m] # "none"
    BY <1>1, <1>8, PushCases DEF Bound
  <2>2. CASE FailsToCommit(m)
    <3>1. Past(remote)' = Past(remote)
      BY <2>1, <2>2, SameKnown DEF FailsToCommit
    <3> QED BY <1>1, <1>3, <2>1, <2>2, <3>1 DEF Bound, FailsToCommit
  <2>3. CASE HasNothingNew(m)
    <3>1. merging' = merging /\ head' = head /\ commits' = commits /\ merging[m] = 0
          /\ \A n \in Machines \ {m} : sync'[n] = sync[n]
      BY <1>3, <2>3 DEF HasNothingNew, PushesOn
    <3>2. Past(remote)' = Past(remote)
      BY <2>1, <3>1, SameKnown
    <3> QED BY <1>1, <2>1, <3>1, <3>2 DEF Bound
  <2>4. CASE CommitsOwn(m)
    <3>1. PICK new \in 1..Len(commits') : KnownAfterOwn(m, new)
      BY <2>1, <2>4, OwnKnown
    <3>2. KnownAfterCommit(m, Staged(m), index[m], Known(m), new)
      BY <3>1 DEF KnownAfterOwn
    <3>3. /\ Past(remote)' = Past(remote) /\ merging'[m] = 0
          /\ \A n \in Machines \ {m} : head'[n] = head[n] /\ merging'[n] = merging[n]
      BY <3>2 DEF KnownAfterCommit
    <3>4. \A n \in Machines \ {m} : sync'[n] = sync[n]
      BY <1>3, <2>4 DEF CommitsOwn, PushesOn
    <3> QED BY <1>1, <2>1, <3>3, <3>4 DEF Bound
  <2> QED BY <1>8, <2>2, <2>3, <2>4, PushCases
<1>9. CASE PushSends(m)
  <2>1. /\ UNCHANGED <<head, merging, commits, repo>> /\ sync[m] # None /\ sync[m].do = "send"
        /\ sync' = [sync EXCEPT ![m] = None]
    BY <1>9 DEF PushSends, git
  <2>2. Past(remote) \subseteq Past(remote)'
    <3>1. CASE remote' = remote
      BY <2>1, <3>1, SameKnown
    <3>2. CASE remote' # remote
      <4>1. (remote = 0 \/ remote \in Past(head[m])) /\ remote' = head[m]
        BY <1>9, <3>2 DEF PushSends
      <4>2. KnownAfterSend(m)
        BY <2>1, <4>1, SendKnown
      <4> QED BY <4>2 DEF KnownAfterSend
    <3> QED BY <3>1, <3>2
  <2> QED BY <1>1, <1>3, <2>1, <2>2 DEF Bound
<1> QED BY <1>2, <1>4, <1>5, <1>6, <1>7, <1>8, <1>9

LEMMA GraphStep ==
    ASSUME ShapeInv, GraphInv, AloneInv, \A m \in Machines : Tracks(m), [Next]_vars
    PROVE  GraphInv'
<1>1. CASE Next
  BY <1>1, CommitGraphStep, BoundStep, GraphParts
<1>2. CASE UNCHANGED vars
  <2>1. UNCHANGED <<commits, head, merging, remote, repo, sync>>
    BY <1>2 DEF vars, git, shared
  <2>2. CommitGraph'
    BY <2>1, CommitGraphSame, GraphParts
  <2>3. Bound'
    BY <2>1, GraphParts, SameKnown DEF Bound
  <2> QED BY <2>2, <2>3, GraphParts
<1> QED BY <1>1, <1>2

LEMMA TracksStep ==
    ASSUME ShapeInv, GraphInv, AloneInv, \A m \in Machines : Tracks(m), [Next]_vars
    PROVE  (\A m \in Machines : Tracks(m))'
<1> SUFFICES ASSUME NEW n \in Machines PROVE Tracks(n)'
  OBVIOUS
<1>1. tracked \in [Machines -> SUBSET Files] /\ head \in [Machines -> Nat] /\ merging \in [Machines -> Nat]
  BY DEF ShapeInv, TypeOK
<1>2. ASSUME UNCHANGED <<commits, head, merging, tracked>> PROVE Tracks(n)'
  BY <1>2 DEF Tracks, At
<1>3. ASSUME NEW m \in Machines, CloneRemote(m) \/ PullForwards(m) \/ PullMerges(m) PROVE Tracks(n)'
  <2>1. PICK b \in 0..Len(commits), i \in Indexes :
          Pulls(m, b, i) /\ (Follows(m, b, i) \/ CommitsMerge(m, b, i) \/ Conflicts(m, b, i))
    BY <1>3, PullSteps DEF PullStep
  <2>2. KnownAfterPull(m, i) /\ KnownAtHead(m, b, i)
    BY <2>1, PullKnown, PullHead
  <2>3. tracked' = [tracked EXCEPT ![m] = Pulled(m, b, @)] /\ remote # 0
    BY <2>1 DEF Pulls
  <2>4. CASE n = m
    BY <1>1, <2>2, <2>3, <2>4 DEF KnownAtHead, Tracks
  <2>5. CASE n # m
    <3>1. merging'[n] = merging[n] /\ At(head[n])' = At(head[n]) /\ tracked'[n] = tracked[n]
      BY <1>1, <2>2, <2>3, <2>5 DEF KnownAfterPull
    <3> QED BY <3>1 DEF Tracks
  <2> QED BY <2>4, <2>5
<1>4. ASSUME NEW m \in Machines, PushCommits(m) PROVE Tracks(n)'
  <2>1. sync[m] # None /\ UNCHANGED remote
    BY <1>4, PushCases
  <2>2. CASE FailsToCommit(m)
    BY <1>2, <2>2 DEF FailsToCommit
  <2>3. CASE HasNothingNew(m)
    <3>1. /\ commits' = commits /\ head' = head /\ tracked' = [tracked EXCEPT ![m] = Staged(m)]
          /\ merging' = merging /\ At(head[m]).files = Staged(m)
      BY <1>1, <2>3 DEF HasNothingNew, PushesOn
    <3> QED BY <1>1, <3>1 DEF Tracks, At
  <2>4. CASE CommitsOwn(m)
    <3>1. PICK new \in 1..Len(commits') : KnownAfterOwn(m, new)
      BY <2>1, <2>4, OwnKnown
    <3>2. KnownAfterCommit(m, Staged(m), index[m], Known(m), new)
      BY <3>1 DEF KnownAfterOwn
    <3>3. At(head[m])'.files = Staged(m) /\ \A k \in Machines \ {m} : merging'[k] = merging[k] /\ At(head[k])' = At(head[k])
      BY <3>2 DEF KnownAfterCommit
    <3>4. tracked' = [tracked EXCEPT ![m] = Staged(m)]
      BY <2>4 DEF CommitsOwn, PushesOn
    <3> QED BY <1>1, <3>3, <3>4 DEF Tracks
  <2> QED BY <1>4, <2>2, <2>3, <2>4, PushCases
<1>5. ASSUME NEW m \in Machines,
             \/ InitRemote(m) \/ CreateStores(m) \/ Saves(m)
             \/ GCRemoves(m) \/ OpTurns(m) \/ PushLists(m) \/ PushSends(m)
      PROVE  Tracks(n)'
  <2>1. UNCHANGED <<head, merging, commits, tracked>>
    BY <1>5, TaskFacts DEF InitRemote, CreateStores, PushLists, PushSends, git, shared
  <2> QED BY <1>2, <2>1
<1>6. CASE UNCHANGED vars
  BY <1>2, <1>6 DEF vars, git, shared
<1> QED BY <1>3, <1>4, <1>5, <1>6 DEF Next, Saves, OpTurns

LEMMA AloneInit == Init => AloneInv /\ \A m \in Machines : Tracks(m)
<1> SUFFICES ASSUME Init PROVE AloneInv /\ \A m \in Machines : Tracks(m)
  OBVIOUS
<1>1. \A m \in Machines : index[m] = {} /\ op[m] = None /\ tracked[m] = {} /\ head[m] = 0
  BY DEF Init
<1>2. At(0).files = {}
  BY ShapeInit, AtTyped
<1> QED BY <1>1, <1>2, ListedTyped DEF AloneInv, Tracks

LEMMA AloneStep ==
    ASSUME ShapeInv, GraphInv, AloneInv, \A m \in Machines : Tracks(m), [Next]_vars
    PROVE  AloneInv'
<1> DEFINE Own(n) == /\ index[n] # Conflict /\ \A s \in index[n] : maker[s] = n
                     /\ op[n] # None => \A s \in Snaps :
                          s \in op[n].list \cup op[n].kept \/ s = op[n].snap => maker[s] = n
<1> SUFFICES ASSUME NEW n \in Machines, repo'[n] = "none"
             PROVE  Own(n)'
  BY DEF AloneInv
<1>1. /\ files \in [Machines -> SUBSET Files] /\ index \in [Machines -> Indexes]
      /\ repo \in [Machines -> {"none", "half", "ready"}] /\ op \in [Machines -> Ops \cup {None}]
      /\ maker \in [Snaps -> Machines \cup {None}]
      /\ op[n] # None => op[n].snap \in Snaps \/ op[n].do \notin {"publish", "save"}
  <2>1. op[n] # None => op[n] \in Ops /\ (op[n].snap # 0 <=> op[n].do \in {"publish", "save"})
    BY DEF ShapeInv
  <2>2. op[n] # None => op[n].snap \in Snaps \/ op[n].do \notin {"publish", "save"}
    BY <2>1 DEF Ops, Snaps
  <2> QED BY <2>2 DEF ShapeInv, TypeOK
<1>2. repo[n] = "none" => Own(n) /\ index[n] \subseteq Snaps
  BY <1>1, ListedTyped DEF AloneInv
<1>3. ASSUME repo'[n] = repo[n], index'[n] = index[n], op'[n] = op[n],
             \A s \in Snaps : maker[s] = n => maker'[s] = n
      PROVE  Own(n)'
  BY <1>2, <1>3
<1>4. CASE UNCHANGED vars
  BY <1>3, <1>4 DEF vars, git, local, history
<1>5. ASSUME NEW m \in Machines,
             \/ InitRemote(m) \/ CloneRemote(m) \/ CreateStores(m) \/ Saves(m)
             \/ GCRemoves(m) \/ OpTurns(m) \/ PushLists(m) \/ PushCommits(m) \/ PushSends(m)
             \/ PullForwards(m) \/ PullMerges(m)
      PROVE  Own(n)'
  <2>1. CASE InitRemote(m)
    <3>1. UNCHANGED <<index, op, maker>> /\ repo[n] = "none"
      BY <1>1, <2>1 DEF InitRemote, history
    <3> QED BY <1>2, <3>1
  <2>2. CASE CloneRemote(m) \/ PullForwards(m) \/ PullMerges(m)
    <3>1. PICK b \in 0..Len(commits), i \in Indexes : Pulls(m, b, i)
      BY <2>2, PullSteps DEF PullStep
    <3> QED BY <1>1, <1>3, <3>1 DEF Pulls
  <2>3. CASE CreateStores(m)
    <3>1. PICK s \in Snaps :
            /\ \A r \in Snaps : maker[r] = None <=> r >= s
            /\ maker' = [maker EXCEPT ![s] = m]
            /\ op' = [op EXCEPT ![m] = [do |-> "publish", snap |-> s, list |-> {}, kept |-> {}, doomed |-> {}]]
      BY <2>3 DEF CreateStores
    <3>0. maker[s] = None
      BY <3>1 DEF Snaps
    <3>2. UNCHANGED <<repo, index>>
      BY <2>3 DEF CreateStores, git
    <3>3. /\ \A r \in Snaps : maker[r] = n => maker'[r] = n
          /\ maker'[s] = m
      BY <1>1, <3>0, <3>1, FilesTyped
    <3>4. CASE n = m
      BY <1>1, <1>2, <3>1, <3>2, <3>3, <3>4
    <3>5. CASE n # m
      BY <1>1, <1>3, <3>1, <3>2, <3>3, <3>5
    <3> QED BY <3>4, <3>5
  <2>4. CASE Saves(m)
    <3>1. UNCHANGED <<repo, maker>> /\ index' = [index EXCEPT ![m] = Saved(m)] /\ Saved(m) # Conflict
      BY <2>4, TaskFacts, SaveFacts
    <3>2. CASE n = m
      <4>1. /\ op[m] # None /\ op[m] \in Ops /\ Saved(m) \subseteq Snaps
            /\ \A s \in Snaps : s \in op[m].list \cup op[m].kept \/ s = op[m].snap => maker[s] = m
        BY <1>2, <2>4, <3>1, <3>2, SaveFacts
      <4>2. \A s \in Saved(m) : maker[s] = m
        BY <4>1 DEF Saved
      <4>3. op'[m] # None => op'[m] = [op[m] EXCEPT !.do = "mark"]
        BY <1>1, <2>4, SaveFacts
      <4>4. op'[m] # None => op'[m].list = op[m].list /\ op'[m].kept = op[m].kept /\ op'[m].snap = op[m].snap
        BY <4>1, <4>3 DEF Ops
      <4> QED BY <1>1, <3>1, <3>2, <4>1, <4>2, <4>4
    <3>3. CASE n # m
      <4>1. op'[n] = op[n] /\ index'[n] = index[n]
        BY <1>1, <2>4, <3>1, <3>3, SaveFacts
      <4> QED BY <1>3, <3>1, <4>1
    <3> QED BY <3>2, <3>3
  <2>5. CASE GCRemoves(m)
    <3>1. UNCHANGED <<repo, maker, index>>
      BY <2>5, TaskFacts
    <3>2. PICK f : /\ op[m] # None /\ op[m] \in Ops
                   /\ op' = [op EXCEPT ![m] = [op[m] EXCEPT !.doomed = op[m].doomed \ {f}]]
      BY <2>5, RemoveFacts
    <3>3. CASE n = m
      <4>1. op'[n].list = op[n].list /\ op'[n].kept = op[n].kept /\ op'[n].snap = op[n].snap
        BY <1>1, <3>2, <3>3 DEF Ops
      <4> QED BY <1>2, <3>1, <3>2, <3>3, <4>1
    <3>4. CASE n # m
      BY <1>1, <1>3, <3>1, <3>2, <3>4
    <3> QED BY <3>3, <3>4
  <2>6. CASE OpTurns(m)
    <3>1. UNCHANGED <<repo, maker, index>> /\ op' = [op EXCEPT ![m] = op'[m]]
      BY <2>6, TaskFacts, OpTurnFacts
    <3>2. CASE n = m
      <4>1. op'[m] # None =>
              \/ op[m] # None /\ op'[m].kept = op[m].kept /\ op'[m].snap = op[m].snap
                 /\ op'[m].list \in {op[m].list, index[m]}
              \/ op'[m].snap = 0 /\ op'[m].list = index[m] /\ op'[m].kept \subseteq index[m]
        BY <2>6, OpTurnFacts
      <4> QED BY <1>2, <3>1, <3>2, <4>1, FilesTyped
    <3>3. CASE n # m
      <4>1. op'[n] = op[n]
        BY <1>1, <3>1, <3>3
      <4> QED BY <1>3, <3>1, <4>1
    <3> QED BY <3>2, <3>3
  <2>7. CASE PushLists(m) \/ PushSends(m) \/ PushCommits(m)
    <3>1. UNCHANGED <<index, op, repo, maker>>
      BY <2>7, PushCases DEF PushLists, PushSends, local, git, history
    <3> QED BY <1>3, <3>1
  <2> QED BY <1>5, <2>1, <2>2, <2>3, <2>4, <2>5, <2>6, <2>7
<1> QED BY <1>4, <1>5 DEF Next, Saves, OpTurns

-----------------------------------------------------------------------------
(* As long as no pull crosses a Create or GC.                              *)

\* The index m works with, the Create or GC it is for.
LEMMA CleanSaves ==
    ASSUME ShapeInv, TaskInv, NEW m \in Machines, Saves(m)
    PROVE  /\ index[m] # Conflict /\ op[m] # None
           /\ \/ /\ op[m].do = "save" /\ op[m].snap \in Snaps /\ Publishing(m, op[m].snap)
                 /\ index' = [index EXCEPT ![m] = @ \cup {op[m].snap}]
                 /\ created' = created \cup {op[m].snap}
                 /\ op' = [op EXCEPT ![m] = None]
              \/ /\ op[m].do = "prune" /\ op[m].kept \subseteq index[m] /\ index[m] \ op[m].kept \subseteq pruned
                 /\ index' = [index EXCEPT ![m] = op[m].kept] /\ created' = created
                 /\ op' = [op EXCEPT ![m] = [@ EXCEPT !.do = "mark"]]
<1>1. /\ op[m] # None /\ op[m] \in Ops /\ op[m].do \in {"save", "prune"}
      /\ index' = [index EXCEPT ![m] = Saved(m)] /\ index \in [Machines -> Indexes]
  BY SaveFacts DEF ShapeInv, TypeOK
<1>2. index[m] = op[m].list
  BY <1>1 DEF TaskInv
<1>3. index[m] # Conflict
  BY <1>1, <1>2, ListedTyped DEF Ops
<1>4. CASE op[m].do = "save"
  BY <1>1, <1>2, <1>3, <1>4, SaveFacts DEF Saved, Publishing
<1>5. CASE op[m].do = "prune"
  <2>1. op[m].doomed = {} /\ op[m].kept \subseteq op[m].list /\ op[m].list \ op[m].kept \subseteq op[m].doomed \cup pruned
    BY <1>1, <1>5, SaveFacts DEF TaskInv
  <2> QED BY <1>1, <1>2, <1>3, <1>5, <2>1, SaveFacts DEF Saved
<1> QED BY <1>1, <1>4, <1>5

\* A pull leaves the index that a Create or GC is about to overwrite.
LEMMA CleanPulls ==
    ASSUME ShapeInv, NEW m \in Machines, NEW b, NEW i, Pulls(m, b, i), ~crossed'
    PROVE  ~crossed /\ (WillOverwrite(m) => index'[m] = index[m])
BY DEF Pulls, Crosses, ShapeInv

LEMMA CrossedStays ==
    ASSUME ShapeInv, GraphInv, AloneInv, \A m \in Machines : Tracks(m), [Next]_vars, ~crossed'
    PROVE  ~crossed
<1>1. CASE UNCHANGED vars
  BY <1>1 DEF vars, history
<1>2. ASSUME NEW m \in Machines, CloneRemote(m) \/ PullForwards(m) \/ PullMerges(m) PROVE ~crossed
  BY <1>2, PullSteps, CleanPulls DEF PullStep
<1>3. ASSUME NEW m \in Machines, Saves(m) \/ GCRemoves(m) \/ OpTurns(m) PROVE ~crossed
  BY <1>3, TaskFacts
<1>4. ASSUME NEW m \in Machines,
             InitRemote(m) \/ CreateStores(m) \/ PushLists(m) \/ PushCommits(m) \/ PushSends(m)
      PROVE  ~crossed
  BY <1>4 DEF InitRemote, CreateStores, PushLists, PushCommits, PushSends, history
<1> QED BY <1>1, <1>2, <1>3, <1>4 DEF Next, Saves, OpTurns

-----------------------------------------------------------------------------
(* What is listed is kept.                                                 *)

\* "later" keeps what "earlier" lists, a conflict keeps nothing.
Keeps(later, earlier) ==
  later = Conflict \/ (earlier # Conflict /\ earlier \subseteq later \cup pruned)

CommitsKeep == \A c \in 1..Len(commits) : \A d \in Past(c) : Keeps(At(c).index, At(d).index)
IndexKeeps  == \A m \in Machines : index[m] = Conflict \/ (merging[m] = 0 /\ Keeps(index[m], At(head[m]).index))
ShownIsKept == PublishedIsKept /\ (remote = 0 => shown = {})

LEMMA KeptParts ==
    ASSUME ShapeInv
    PROVE  KeptInv <=> CommitsKeep /\ IndexKeeps /\ ShownIsKept /\ LocalIsKept
<1>1. \A c \in 1..Len(commits) : At(c).index \in Indexes
  BY AtTyped
<1>2. \A c \in 1..Len(commits) : At(c).index # Conflict => Listed(At(c).index) = At(c).index
  BY <1>1, ListedTyped
<1>3. CommitsKeep <=> \A c \in 1..Len(commits) : \A d \in Past(c) :
                        \/ At(c).index = Conflict
                        \/ At(d).index # Conflict /\ At(d).index \subseteq KeptBy(c)
  BY <1>2 DEF CommitsKeep, Keeps, KeptBy
<1>4. IndexKeeps <=> \A m \in Machines :
        \/ index[m] = Conflict
        \/ merging[m] = 0 /\ At(head[m]).index # Conflict /\ At(head[m]).index \subseteq index[m] \cup pruned
  BY DEF IndexKeeps, Keeps
<1> QED BY <1>3, <1>4 DEF KeptInv, ShownIsKept

LEMMA KeptPartsNext == ShapeInv' /\ CommitsKeep' /\ IndexKeeps' /\ ShownIsKept' /\ LocalIsKept' => KeptInv'
BY KeptParts, PTL

\* A clean merge keeps both sides, and adds nothing.
LEMMA MergeKeeps ==
    ASSUME NEW base \in Indexes, NEW ours \in Indexes, NEW theirs \in Indexes,
           Keeps(ours, base), Keeps(theirs, base),
           NEW i \in MergedIndexes(base, ours, theirs), i # Conflict
    PROVE  /\ ours # Conflict /\ theirs # Conflict /\ base # Conflict
           /\ Keeps(i, ours) /\ Keeps(i, theirs) /\ i \subseteq ours \cup theirs
<1>1. \/ i = ours /\ ours = theirs
      \/ i = ours /\ theirs = base
      \/ i = theirs /\ ours = base
      \/ /\ Conflict \notin {base, ours, theirs} /\ i = Merged(base, ours, theirs)
  BY MergedIndexesTyped
<1>2. CASE i = ours /\ ours = theirs
  BY <1>2 DEF Keeps
<1>3. CASE i = ours /\ theirs = base
  BY <1>3 DEF Keeps
<1>4. CASE i = theirs /\ ours = base
  BY <1>4 DEF Keeps
<1>5. CASE Conflict \notin {base, ours, theirs} /\ i = Merged(base, ours, theirs)
  BY <1>5 DEF Keeps, Merged
<1> QED BY <1>1, <1>2, <1>3, <1>4, <1>5

LEMMA KeepsTrans ==
    ASSUME NEW i, NEW j, NEW k, Keeps(i, j), Keeps(j, k)
    PROVE  Keeps(i, k)
BY DEF Keeps

\* What m merges keeps what it was before.
LEMMA BaseKept ==
    ASSUME ShapeInv, GraphInv, KeptInv, NEW m \in Machines, merging[m] = 0,
           NEW b \in 0..Len(commits), IsBase(m, b)
    PROVE  Keeps(At(head[m]).index, At(b).index) /\ Keeps(At(remote).index, At(b).index)
<1>1. CASE b = 0
  BY <1>1, AtTyped, ListedTyped DEF Keeps
<1>2. CASE b # 0
  <2>1. b \in Past(remote) /\ b \in Past(head[m])
    BY <1>2, BaseFacts
  <2>2. /\ head[m] \in 0..Len(commits) /\ remote \in 0..Len(commits) /\ Past(0) = {}
        /\ \A c \in 0..Len(commits) : c # 0 => c \in 1..Len(commits)
    BY AtTyped
  <2>3. head[m] \in 1..Len(commits) /\ remote \in 1..Len(commits)
    BY <2>1, <2>2
  <2> QED BY <2>1, <2>3, KeptParts DEF CommitsKeep
<1> QED BY <1>1, <1>2

LEMMA KeptInit == Init => KeptInv
<1> SUFFICES ASSUME Init PROVE KeptInv
  OBVIOUS
<1>1. ShapeInv /\ Len(commits) = 0 /\ remote = 0 /\ shown = {}
  BY ShapeInit DEF Init
<1>2. \A m \in Machines : index[m] = {} /\ merging[m] = 0 /\ head[m] = 0
  BY DEF Init
<1>3. At(0).index = {} /\ {} # Conflict
  BY <1>1, AtTyped, ListedTyped
<1>4. CommitsKeep
  BY <1>1 DEF CommitsKeep
<1>5. IndexKeeps
  BY <1>2, <1>3 DEF IndexKeeps, Keeps
<1>6. ShownIsKept
  BY <1>1 DEF ShownIsKept, PublishedIsKept
<1>7. LocalIsKept
  BY DEF Init, LocalIsKept
<1> QED BY <1>1, <1>4, <1>5, <1>6, <1>7, KeptParts

LEMMA CommitsKeepStep ==
    ASSUME ShapeInv, GraphInv, AloneInv, \A m \in Machines : Tracks(m), KeptInv, Next
    PROVE  CommitsKeep'
<1>1. CommitsKeep /\ IndexKeeps
  BY KeptParts
<1>2. PICK m \in Machines :
        \/ InitRemote(m) \/ CloneRemote(m) \/ CreateStores(m) \/ Saves(m)
        \/ GCRemoves(m) \/ OpTurns(m) \/ PushLists(m) \/ PushCommits(m) \/ PushSends(m)
        \/ PullForwards(m) \/ PullMerges(m)
  BY DEF Next, Saves, OpTurns
<1>3. /\ Len(commits) \in Nat /\ 1..Len(commits) \subseteq 0..Len(commits)
      /\ \A n \in Machines : Known(n) \subseteq 1..Len(commits)
      /\ Past(remote) \subseteq 1..Len(commits)
      /\ remote \in 0..Len(commits) /\ \A n \in Machines : head[n] \in 0..Len(commits) /\ merging[n] \in 0..Len(commits)
      /\ \A c \in 0..Len(commits) : /\ c # 0 => c \in 1..Len(commits)
                                    /\ Past(c) \subseteq 1..Len(commits) /\ At(c).index \in Indexes
      /\ Past(0) = {}
  BY AtTyped, KnownTyped
<1>4. ASSUME NEW i, NEW j, Keeps(i, j), pruned \subseteq pruned' PROVE Keeps(i, j)'
  BY <1>4 DEF Keeps
<1>5. ASSUME UNCHANGED commits, pruned \subseteq pruned' PROVE CommitsKeep'
  <2>1. \A c : At(c)' = At(c) /\ Past(c)' = Past(c)
    BY <1>5, SameCommits
  <2> QED BY <1>1, <1>5, <2>1 DEF CommitsKeep, Keeps
<1>6. CASE CloneRemote(m) \/ PullForwards(m) \/ PullMerges(m)
  <2>1. PICK b \in 0..Len(commits), i \in Indexes :
          Pulls(m, b, i) /\ (Follows(m, b, i) \/ CommitsMerge(m, b, i) \/ Conflicts(m, b, i))
    BY <1>6, PullSteps DEF PullStep
  <2>2. KnownAfterPull(m, i) /\ KnownAtHead(m, b, i)
    BY <2>1, PullKnown, PullHead
  <2>3. /\ merging[m] = 0 /\ IsBase(m, b) /\ pruned' = pruned
        /\ i \in MergedIndexes(At(b).index, At(head[m]).index, At(remote).index)
    BY <2>1 DEF Pulls
  <2>4. /\ \A c \in 0..Len(commits) : At(c)' = At(c) /\ Past(c)' = Past(c)
        /\ Len(commits') \in Nat /\ Len(commits) <= Len(commits')
    BY <2>2 DEF KnownAfterPull
  <2>5. \A c \in 0..Len(commits') : c \notin 0..Len(commits) =>
          i # Conflict /\ At(c)'.index = i /\ Past(c)' = Known(m) \cup Past(remote) \cup {c}
    BY <2>2 DEF KnownAtHead
  <2>6. ASSUME i # Conflict
        PROVE  \A d \in Known(m) \cup Past(remote) : Keeps(i, At(d).index)
    <3>1. Keeps(At(head[m]).index, At(b).index) /\ Keeps(At(remote).index, At(b).index)
      BY <2>3, BaseKept
    <3>2. Keeps(i, At(head[m]).index) /\ Keeps(i, At(remote).index)
      BY <1>3, <2>3, <2>6, <3>1, MergeKeeps
    <3>3. \A d \in Known(m) : Keeps(At(head[m]).index, At(d).index)
      BY <1>1, <1>3, <2>3, KnownTyped DEF CommitsKeep
    <3>4. \A d \in Past(remote) : Keeps(At(remote).index, At(d).index)
      BY <1>1, <1>3 DEF CommitsKeep
    <3> QED BY <3>2, <3>3, <3>4, KeepsTrans
  <2>7. ASSUME NEW c \in 1..Len(commits'), NEW d \in Past(c)' PROVE Keeps(At(c).index, At(d).index)'
    <3>1. c \in 0..Len(commits')
      BY <2>4
    <3>2. CASE c \in 0..Len(commits)
      <4>1. c \in 1..Len(commits) /\ d \in Past(c) /\ d \in 0..Len(commits)
        BY <3>2, <2>4, <2>7, <1>3
      <4>2. Keeps(At(c).index, At(d).index) /\ At(c)' = At(c) /\ At(d)' = At(d)
        BY <4>1, <1>1, <2>4, <3>2 DEF CommitsKeep
      <4> QED BY <4>2, <2>3 DEF Keeps
    <3>3. CASE c \notin 0..Len(commits)
      <4>1. i # Conflict /\ At(c)'.index = i /\ d \in Known(m) \cup Past(remote) \cup {c}
        BY <3>1, <3>3, <2>5, <2>7
      <4>2. CASE d = c
        BY <4>1, <4>2 DEF Keeps
      <4>3. CASE d # c
        <5>1. Keeps(i, At(d).index) /\ d \in 0..Len(commits)
          BY <4>1, <4>3, <2>6, <1>3
        <5>2. At(d)' = At(d)
          BY <5>1, <2>4
        <5> QED BY <4>1, <5>1, <5>2, <2>3 DEF Keeps
      <4> QED BY <4>2, <4>3
    <3> QED BY <3>2, <3>3
  <2> QED BY <2>7 DEF CommitsKeep
<1>7. CASE PushCommits(m)
  <2>1. sync[m] # None /\ UNCHANGED <<remote, pruned>>
    BY <1>7, PushCases
  <2>2. CASE FailsToCommit(m) \/ HasNothingNew(m)
    BY <1>5, <2>1, <2>2 DEF FailsToCommit, HasNothingNew
  <2>3. CASE CommitsOwn(m)
    <3>1. PICK new \in 1..Len(commits') : KnownAfterOwn(m, new)
      BY <2>1, <2>3, OwnKnown
    <3>2. KnownAfterCommit(m, Staged(m), index[m], Known(m), new)
      BY <3>1 DEF KnownAfterOwn
    <3>3. /\ \A c \in 0..Len(commits) : At(c)' = At(c) /\ Past(c)' = Past(c)
          /\ Len(commits') = new /\ 1..new = (1..Len(commits)) \cup {new}
          /\ At(new)'.index = index[m] /\ Past(new)' = Known(m) \cup {new}
      BY <3>2 DEF KnownAfterCommit
    <3>4. \A d \in Known(m) : Keeps(index[m], At(d).index)
      <4>1. CASE index[m] = Conflict
        BY <4>1 DEF Keeps
      <4>2. CASE index[m] # Conflict
        <5>1. merging[m] = 0 /\ Keeps(index[m], At(head[m]).index)
          BY <1>1, <4>2 DEF IndexKeeps
        <5>2. \A d \in Known(m) : Keeps(At(head[m]).index, At(d).index)
          BY <1>1, <1>3, <5>1, KnownTyped DEF CommitsKeep
        <5> QED BY <5>1, <5>2, KeepsTrans
      <4> QED BY <4>1, <4>2
    <3>5. ASSUME NEW c \in 1..Len(commits'), NEW d \in Past(c)' PROVE Keeps(At(c).index, At(d).index)'
      <4>1. CASE c \in 1..Len(commits)
        <5>1. d \in Past(c) /\ d \in 0..Len(commits) /\ c \in 0..Len(commits)
          BY <4>1, <3>3, <3>5, <1>3
        <5>2. Keeps(At(c).index, At(d).index) /\ At(c)' = At(c) /\ At(d)' = At(d)
          BY <4>1, <5>1, <1>1, <3>3 DEF CommitsKeep
        <5> QED BY <5>2, <2>1 DEF Keeps
      <4>2. CASE c = new /\ d = new
        BY <4>2 DEF Keeps
      <4>3. CASE c = new /\ d # new
        <5>1. Keeps(index[m], At(d).index) /\ d \in 0..Len(commits)
          BY <4>3, <3>3, <3>4, <3>5, <1>3
        <5>2. At(d)' = At(d)
          BY <5>1, <3>3
        <5> QED BY <4>3, <3>3, <5>1, <5>2, <2>1 DEF Keeps
      <4> QED BY <4>1, <4>2, <4>3, <3>3
    <3> QED BY <3>5 DEF CommitsKeep
  <2> QED BY <1>7, <2>2, <2>3, PushCases
<1>8. CASE \/ InitRemote(m) \/ CreateStores(m) \/ Saves(m)
           \/ GCRemoves(m) \/ OpTurns(m) \/ PushLists(m) \/ PushSends(m)
  <2>1. UNCHANGED commits /\ pruned \subseteq pruned'
    BY <1>8, TaskFacts DEF InitRemote, CreateStores, PushLists, PushSends, shared, history
  <2> QED BY <1>5, <2>1
<1> QED BY <1>2, <1>6, <1>7, <1>8

LEMMA IndexKeepsStep ==
    ASSUME ShapeInv, GraphInv, AloneInv, \A m \in Machines : Tracks(m), KeptInv, TaskInv, Next
    PROVE  IndexKeeps'
<1>1. IndexKeeps /\ CommitsKeep
  BY KeptParts
<1>2. PICK m \in Machines :
        \/ InitRemote(m) \/ CloneRemote(m) \/ CreateStores(m) \/ Saves(m)
        \/ GCRemoves(m) \/ OpTurns(m) \/ PushLists(m) \/ PushCommits(m) \/ PushSends(m)
        \/ PullForwards(m) \/ PullMerges(m)
  BY DEF Next, Saves, OpTurns
<1>3. /\ index \in [Machines -> Indexes] /\ head \in [Machines -> Nat] /\ merging \in [Machines -> Nat]
      /\ \A c \in 0..Len(commits) : At(c).index \in Indexes
      /\ remote \in 0..Len(commits) /\ \A n \in Machines : head[n] \in 0..Len(commits)
  BY AtTyped DEF ShapeInv, TypeOK
<1>4. ASSUME UNCHANGED <<commits, head, merging>>, pruned \subseteq pruned',
             \A n \in Machines \ {m} : index'[n] = index[n],
             index'[m] # Conflict => index[m] # Conflict /\ index[m] \subseteq index'[m] \cup pruned'
      PROVE  IndexKeeps'
  <2>1. \A n \in Machines : At(head[n])' = At(head[n])
    BY <1>4 DEF At
  <2>2. ASSUME NEW n \in Machines, index'[n] # Conflict
        PROVE  merging'[n] = 0 /\ Keeps(index[n], At(head[n]).index)'
    <3>1. index[n] # Conflict /\ index[n] \subseteq index'[n] \cup pruned'
      BY <1>4, <2>2
    <3>2. merging[n] = 0 /\ At(head[n]).index # Conflict /\ At(head[n]).index \subseteq index[n] \cup pruned
      BY <1>1, <3>1 DEF IndexKeeps, Keeps
    <3> QED BY <1>4, <2>1, <3>1, <3>2 DEF Keeps
  <2> QED BY <2>2 DEF IndexKeeps
<1>5. CASE \/ InitRemote(m) \/ CreateStores(m) \/ GCRemoves(m) \/ OpTurns(m) \/ PushLists(m) \/ PushSends(m)
  <2>1. UNCHANGED <<commits, head, merging, index>> /\ pruned \subseteq pruned'
    BY <1>5, TaskFacts DEF InitRemote, CreateStores, PushLists, PushSends, shared, history, local, git
  <2> QED BY <1>4, <2>1
<1>6. CASE Saves(m)
  <2>1. UNCHANGED <<commits, head, merging, pruned>>
    BY <1>6, TaskFacts
  <2>2. /\ index'[m] # Conflict => index[m] # Conflict /\ index[m] \subseteq index'[m] \cup pruned'
        /\ \A n \in Machines \ {m} : index'[n] = index[n]
    BY <1>3, <1>6, <2>1, CleanSaves
  <2> QED BY <1>4, <2>1, <2>2
<1>8. CASE CloneRemote(m) \/ PullForwards(m) \/ PullMerges(m)
  <2>1. PICK b \in 0..Len(commits), i \in Indexes :
          Pulls(m, b, i) /\ (Follows(m, b, i) \/ CommitsMerge(m, b, i) \/ Conflicts(m, b, i))
    BY <1>8, PullSteps DEF PullStep
  <2>2. KnownAfterPull(m, i) /\ KnownAtHead(m, b, i)
    BY <2>1, PullKnown, PullHead
  <2>3. /\ merging[m] = 0 /\ IsBase(m, b) /\ pruned' = pruned
        /\ i \in MergedIndexes(At(b).index, At(head[m]).index, At(remote).index)
        /\ index' = [index EXCEPT ![m] = IF At(remote).index = At(b).index THEN @ ELSE i]
    BY <2>1 DEF Pulls
  <2>4. \/ merging'[m] = 0 /\ At(head[m])'.index = i
        \/ i = Conflict
    BY <2>2 DEF KnownAtHead
  <2>5. \A n \in Machines \ {m} : merging'[n] = merging[n] /\ At(head[n])' = At(head[n]) /\ index'[n] = index[n]
    BY <1>3, <2>2, <2>3 DEF KnownAfterPull
  <2>6. index'[m] = Conflict \/ (merging'[m] = 0 /\ Keeps(index[m], i)')
    <3>1. CASE index'[m] = i
      BY <3>1, <2>4 DEF Keeps
    <3>2. CASE index'[m] = index[m] /\ i = At(head[m]).index
      <4>1. index[m] = Conflict \/ (i # Conflict /\ i \subseteq index[m] \cup pruned)
        BY <1>1, <3>2 DEF IndexKeeps, Keeps
      <4> QED BY <2>3, <2>4, <3>2, <4>1 DEF Keeps
    <3>3. At(remote).index = At(b).index => i = At(head[m]).index
      BY <1>3, <2>3, MergedIndexesTyped
    <3> QED BY <1>3, <2>3, <3>1, <3>2, <3>3
  <2>7. index'[m] = Conflict \/ (merging'[m] = 0 /\ Keeps(index[m], At(head[m]).index)')
    BY <2>4, <2>6 DEF Keeps
  <2>8. \A n \in Machines \ {m} : index'[n] = Conflict \/ (merging'[n] = 0 /\ Keeps(index[n], At(head[n]).index)')
    BY <1>1, <2>3, <2>5 DEF IndexKeeps, Keeps
  <2> QED BY <2>7, <2>8 DEF IndexKeeps
<1>9. CASE PushCommits(m)
  <2>1. sync[m] # None /\ UNCHANGED <<remote, pruned, index>>
    BY <1>9, PushCases DEF local
  <2>2. CASE FailsToCommit(m) \/ HasNothingNew(m)
    <3>1. UNCHANGED <<commits, head, merging>>
      BY <1>3, <2>2 DEF FailsToCommit, HasNothingNew, PushesOn
    <3> QED BY <1>4, <2>1, <3>1
  <2>3. CASE CommitsOwn(m)
    <3>1. PICK new \in 1..Len(commits') : KnownAfterOwn(m, new)
      BY <2>1, <2>3, OwnKnown
    <3>2. KnownAfterCommit(m, Staged(m), index[m], Known(m), new)
      BY <3>1 DEF KnownAfterOwn
    <3>3. /\ merging'[m] = 0 /\ At(head[m])'.index = index[m]
          /\ \A n \in Machines \ {m} : merging'[n] = merging[n] /\ At(head[n])' = At(head[n])
      BY <3>2 DEF KnownAfterCommit
    <3>4. index'[m] = Conflict \/ (merging'[m] = 0 /\ Keeps(index[m], At(head[m]).index)')
      BY <2>1, <3>3 DEF Keeps
    <3>5. \A n \in Machines \ {m} : index'[n] = Conflict \/ (merging'[n] = 0 /\ Keeps(index[n], At(head[n]).index)')
      BY <1>1, <2>1, <3>3 DEF IndexKeeps, Keeps
    <3> QED BY <3>4, <3>5 DEF IndexKeeps
  <2> QED BY <1>9, <2>2, <2>3, PushCases
<1> QED BY <1>2, <1>5, <1>6, <1>8, <1>9

LEMMA ShownIsKeptStep ==
    ASSUME ShapeInv, GraphInv, AloneInv, \A m \in Machines : Tracks(m), KeptInv, Next
    PROVE  ShownIsKept'
<1>1. ShownIsKept /\ CommitsKeep
  BY KeptParts
<1>2. PICK m \in Machines :
        \/ InitRemote(m) \/ CloneRemote(m) \/ CreateStores(m) \/ Saves(m)
        \/ GCRemoves(m) \/ OpTurns(m) \/ PushLists(m) \/ PushCommits(m) \/ PushSends(m)
        \/ PullForwards(m) \/ PullMerges(m)
  BY DEF Next, Saves, OpTurns
<1>3. ASSUME At(remote)' = At(remote), UNCHANGED <<remote, shown>>, pruned \subseteq pruned'
      PROVE  ShownIsKept'
  BY <1>1, <1>3 DEF ShownIsKept, PublishedIsKept, Listed
<1>4. CASE \/ InitRemote(m) \/ CreateStores(m) \/ Saves(m)
           \/ GCRemoves(m) \/ OpTurns(m) \/ PushLists(m)
  <2>1. UNCHANGED <<commits, remote, shown>> /\ pruned \subseteq pruned'
    BY <1>4, TaskFacts DEF InitRemote, CreateStores, PushLists, shared, history
  <2>2. At(remote)' = At(remote)
    BY <2>1 DEF At
  <2> QED BY <1>3, <2>1, <2>2
<1>5. CASE CloneRemote(m) \/ PullForwards(m) \/ PullMerges(m)
  <2>1. PICK b \in 0..Len(commits), i \in Indexes :
          Pulls(m, b, i) /\ (Follows(m, b, i) \/ CommitsMerge(m, b, i) \/ Conflicts(m, b, i))
    BY <1>5, PullSteps DEF PullStep
  <2>2. At(remote)' = At(remote)
    BY <2>1, PullKnown DEF KnownAfterPull
  <2> QED BY <1>3, <2>1, <2>2 DEF Pulls
<1>6. CASE PushCommits(m)
  <2>1. sync[m] # None /\ UNCHANGED <<remote, pruned, shown>>
    BY <1>6, PushCases
  <2>2. At(remote)' = At(remote)
    <3>1. CASE FailsToCommit(m) \/ HasNothingNew(m)
      BY <2>1, <3>1 DEF FailsToCommit, HasNothingNew, At
    <3>2. CASE CommitsOwn(m)
      BY <2>1, <3>2, OwnKnown DEF KnownAfterOwn, KnownAfterCommit
    <3> QED BY <1>6, <3>1, <3>2, PushCases
  <2> QED BY <1>3, <2>1, <2>2
<1>7. CASE PushSends(m)
  <2>1. UNCHANGED <<commits, pruned>>
    BY <1>7 DEF PushSends
  <2>2. CASE UNCHANGED <<remote, shown>>
    BY <1>3, <2>1, <2>2 DEF At
  <2>3. CASE ~UNCHANGED <<remote, shown>>
    <3>1. /\ head[m] # 0 /\ (remote = 0 \/ remote \in Past(head[m]))
          /\ remote' = head[m] /\ shown' = shown \cup Listed(At(head[m]).index)
      BY <1>7, <2>3 DEF PushSends
    <3>2. At(remote)' = At(head[m])
      BY <2>1, <3>1 DEF At
    <3>3. At(head[m]).index \in Indexes /\ At(remote).index \in Indexes
      BY AtTyped
    <3>4. \A s \in shown : s \in Listed(At(head[m]).index) \cup pruned \/ At(head[m]).index = Conflict
      <4>1. CASE remote = 0
        BY <1>1, <4>1 DEF ShownIsKept
      <4>2. CASE remote # 0
        <5>1. head[m] \in 1..Len(commits)
          BY <3>1, AtTyped
        <5>2. Keeps(At(head[m]).index, At(remote).index)
          BY <1>1, <3>1, <4>2, <5>1 DEF CommitsKeep
        <5>3. \A s \in shown : s \in Listed(At(remote).index) \cup pruned \/ At(remote).index = Conflict
          BY <1>1 DEF ShownIsKept, PublishedIsKept
        <5> QED BY <3>3, <5>2, <5>3, ListedTyped DEF Keeps
      <4> QED BY <4>1, <4>2
    <3> QED BY <2>1, <3>1, <3>2, <3>4 DEF ShownIsKept, PublishedIsKept, Listed
  <2> QED BY <2>2, <2>3
<1> QED BY <1>2, <1>4, <1>5, <1>6, <1>7

LEMMA LocalIsKeptStep ==
    ASSUME ShapeInv, GraphInv, AloneInv, \A m \in Machines : Tracks(m), KeptInv, ListInv, TaskInv, Next
    PROVE  LocalIsKept'
<1>1. LocalIsKept
  BY KeptParts
<1>2. PICK m \in Machines :
        \/ InitRemote(m) \/ CloneRemote(m) \/ CreateStores(m) \/ Saves(m)
        \/ GCRemoves(m) \/ OpTurns(m) \/ PushLists(m) \/ PushCommits(m) \/ PushSends(m)
        \/ PullForwards(m) \/ PullMerges(m)
  BY DEF Next, Saves, OpTurns
<1>3. /\ index \in [Machines -> Indexes] /\ op \in [Machines -> Ops \cup {None}]
      /\ maker \in [Snaps -> Machines \cup {None}] /\ created \subseteq Snaps
      /\ \A s \in created : maker[s] # None
      /\ \A n \in Machines : \A s \in Snaps : Publishing(n, s) => maker[s] = n
  BY DEF ShapeInv, TypeOK, ListInv
<1>4. ASSUME UNCHANGED <<maker, created>>, pruned \subseteq pruned', \A n \in Machines \ {m} : index'[n] = index[n],
             index'[m] # Conflict => index[m] # Conflict /\ index[m] \subseteq index'[m] \cup pruned'
      PROVE  LocalIsKept'
  BY <1>1, <1>4 DEF LocalIsKept
<1>5. CASE InitRemote(m) \/ PushLists(m) \/ PushSends(m) \/ PushCommits(m)
  <2>1. UNCHANGED <<maker, created, pruned, index>>
    BY <1>5, PushCases DEF InitRemote, PushLists, PushSends, local, history
  <2> QED BY <1>4, <2>1
<1>6. CASE CreateStores(m)
  <2>0. PICK s \in Snaps : (\A r \in Snaps : maker[r] = None <=> r >= s) /\ maker' = [maker EXCEPT ![s] = m]
    BY <1>6 DEF CreateStores
  <2>1. maker[s] = None
    BY <2>0 DEF Snaps
  <2>2. UNCHANGED <<index, created, pruned>> /\ s \notin created
    BY <1>3, <1>6, <2>1 DEF CreateStores
  <2>3. \A r \in created : maker'[r] = maker[r]
    BY <1>3, <2>0, <2>1, <2>2
  <2> QED BY <1>1, <2>2, <2>3 DEF LocalIsKept
<1>7. CASE Saves(m)
  <2>1. UNCHANGED <<maker, pruned>>
    BY <1>7, TaskFacts
  <2>2. /\ \A n \in Machines \ {m} : index'[n] = index[n]
        /\ index'[m] # Conflict => index[m] # Conflict /\ index[m] \subseteq index'[m] \cup pruned'
    BY <1>3, <1>7, <2>1, CleanSaves
  <2>3. CASE created' = created
    BY <1>4, <2>1, <2>2, <2>3
  <2>4. CASE created' # created
    <3>1. PICK s \in Snaps : Publishing(m, s) /\ created' = created \cup {s} /\ index'[m] = index[m] \cup {s}
      BY <1>3, <1>7, <2>4, CleanSaves
    <3>2. maker[s] = m
      BY <1>3, <3>1
    <3> QED BY <1>1, <2>1, <2>2, <3>1, <3>2, FilesTyped DEF LocalIsKept
  <2> QED BY <2>3, <2>4
<1>8. CASE GCRemoves(m) \/ OpTurns(m)
  BY <1>4, <1>8, TaskFacts
<1>10. CASE CloneRemote(m) \/ PullForwards(m) \/ PullMerges(m)
  <2>1. PICK b \in 0..Len(commits), i \in Indexes :
          Pulls(m, b, i) /\ (Follows(m, b, i) \/ CommitsMerge(m, b, i) \/ Conflicts(m, b, i))
    BY <1>10, PullSteps DEF PullStep
  <2>2. /\ merging[m] = 0 /\ IsBase(m, b) /\ UNCHANGED <<pruned, maker, created>>
        /\ i \in MergedIndexes(At(b).index, At(head[m]).index, At(remote).index)
        /\ index' = [index EXCEPT ![m] = IF At(remote).index = At(b).index THEN @ ELSE i]
        /\ At(remote).index = At(b).index \/ index[m] = At(head[m]).index
    BY <2>1 DEF Pulls
  <2>3. index'[m] # Conflict => index[m] # Conflict /\ index[m] \subseteq index'[m] \cup pruned'
    <3>1. CASE At(remote).index = At(b).index
      BY <1>3, <2>2, <3>1
    <3>2. CASE At(remote).index # At(b).index /\ i # Conflict
      <4>1. Keeps(At(head[m]).index, At(b).index) /\ Keeps(At(remote).index, At(b).index)
        BY <2>2, BaseKept
      <4>2. At(b).index \in Indexes /\ At(head[m]).index \in Indexes /\ At(remote).index \in Indexes
        BY AtTyped
      <4>3. Keeps(i, At(head[m]).index) /\ At(head[m]).index # Conflict
        BY <2>2, <3>2, <4>1, <4>2, MergeKeeps
      <4> QED BY <1>3, <2>2, <3>2, <4>3 DEF Keeps
    <3> QED BY <1>3, <2>2, <3>1, <3>2
  <2>4. \A n \in Machines \ {m} : index'[n] = index[n]
    BY <1>3, <2>2
  <2> QED BY <1>4, <2>2, <2>3, <2>4
<1> QED BY <1>2, <1>5, <1>6, <1>7, <1>8, <1>10

LEMMA KeptStep ==
    ASSUME ShapeInv, GraphInv, AloneInv, \A m \in Machines : Tracks(m), KeptInv, ListInv, TaskInv, [Next]_vars
    PROVE  KeptInv'
<1>1. CASE Next
  BY <1>1, ShapeStep, CommitsKeepStep, IndexKeepsStep, ShownIsKeptStep, LocalIsKeptStep, KeptPartsNext
<1>2. CASE UNCHANGED vars
  <2>1. UNCHANGED <<commits, remote, head, merging, index, pruned, shown, maker, created>>
    BY <1>2 DEF vars, git, shared, local, history
  <2>2. At(remote)' = At(remote) /\ \A c : At(c)' = At(c) /\ Past(c)' = Past(c)
    BY <2>1 DEF At, Past
  <2> QED BY <2>1, <2>2 DEF KeptInv, KeptBy, Listed, PublishedIsKept, LocalIsKept, At
<1> QED BY <1>1, <1>2

-----------------------------------------------------------------------------
(* .gitignore and identity.json.                                           *)

LEMMA IgnoreInit == Init => IgnoreInv /\ IdentityInv
<1> SUFFICES ASSUME Init PROVE IgnoreInv /\ IdentityInv
  OBVIOUS
<1>1. ShapeInv /\ Len(commits) = 0 /\ remote = 0
  BY ShapeInit DEF Init
<1>2. \A m \in Machines : /\ files[m] = {Identity} /\ repo[m] = "none" /\ tracked[m] = {} /\ head[m] = 0
                          /\ sync[m] = None
  BY DEF Init
<1>3. At(0).files = {} /\ Ignore # Identity
  BY <1>1, AtTyped, NamesAssumption
<1> QED BY <1>1, <1>2, <1>3 DEF IgnoreInv, IdentityInv

LEMMA IgnoreInPulled ==
    ASSUME ShapeInv, GraphInv, IgnoreInv, NEW m \in Machines, NEW b \in 0..Len(commits), NEW i, Pulls(m, b, i)
    PROVE  Ignore \in Pulled(m, b, files[m]) /\ Ignore \in Pulled(m, b, tracked[m])
<1>1. merging[m] = 0 /\ IsBase(m, b) /\ remote # 0
  BY DEF Pulls
<1>2. Ignore \in At(remote).files
  BY <1>1 DEF IgnoreInv
<1>3. Ignore \in At(b).files => Ignore \in tracked[m] /\ Ignore \in files[m]
  <2> HAVE Ignore \in At(b).files
  <2>1. b # 0 /\ Past(0) = {}
    BY AtTyped
  <2>2. b \in Past(head[m])
    BY <1>1, <2>1, BaseFacts
  <2>3. head[m] \in 1..Len(commits)
    BY <2>1, <2>2, AtTyped
  <2>4. Ignore \in At(head[m]).files
    BY <2>2, <2>3 DEF IgnoreInv
  <2> QED BY <2>4 DEF IgnoreInv
<1> QED BY <1>2, <1>3 DEF Pulled, Merged

\* What a push stages: .gitignore exactly where the repository is ready.
LEMMA IgnoreInStaged ==
    ASSUME ShapeInv, GraphInv, IgnoreInv, NEW m \in Machines, sync[m] # None, sync[m].do = "add"
    PROVE  /\ Ignore \in Staged(m) <=> repo[m] = "ready"
           /\ \A d \in Known(m) : Ignore \in At(d).files => repo[m] = "ready"
<1>1. Ignore \in Staged(m) <=> repo[m] = "ready"
  BY DEF IgnoreInv, Staged
<1>2. ASSUME NEW d \in Known(m), Ignore \in At(d).files PROVE repo[m] = "ready"
  <2>1. CASE merging[m] # 0
    BY <2>1 DEF GraphInv
  <2>2. CASE merging[m] = 0
    <3>1. d \in Past(head[m]) /\ Past(0) = {}
      BY <1>2, <2>2, KnownTyped, AtTyped
    <3>2. head[m] \in 1..Len(commits)
      BY <3>1, AtTyped
    <3> QED BY <1>2, <3>1, <3>2 DEF IgnoreInv
  <2> QED BY <2>1, <2>2
<1> QED BY <1>1, <1>2

LEMMA IgnoreStep ==
    ASSUME ShapeInv, GraphInv, AloneInv, \A m \in Machines : Tracks(m), IgnoreInv, [Next]_vars
    PROVE  IgnoreInv'
<1>1. /\ files \in [Machines -> SUBSET Files] /\ tracked \in [Machines -> SUBSET Files]
      /\ repo \in [Machines -> {"none", "half", "ready"}] /\ sync \in [Machines -> Syncs \cup {None}]
      /\ \A n \in Machines : origin[n] => repo[n] = "ready"
      /\ Len(commits) \in Nat /\ 1..Len(commits) \subseteq 0..Len(commits)
      /\ \A c \in 0..Len(commits) : Past(c) \subseteq 1..Len(commits)
  BY AtTyped DEF ShapeInv, TypeOK
<1>2. /\ \A n \in Machines : Ignore \in files[n] <=> repo[n] = "ready"
      /\ remote # 0 => Ignore \in At(remote).files
      /\ \A n \in Machines : Ignore \in At(head[n]).files => Ignore \in tracked[n]
      /\ \A n \in Machines : Ignore \in tracked[n] => repo[n] = "ready"
      /\ \A c \in 1..Len(commits) : \A d \in Past(c) : Ignore \in At(d).files => Ignore \in At(c).files
      /\ \A n \in Machines : sync[n] # None =>
           /\ sync[n].do = "add" /\ repo[n] = "ready" => Ignore \in tracked[n] \cup sync[n].new
           /\ sync[n].do = "send" /\ repo[n] = "ready" => Ignore \in At(head[n]).files
           /\ Ignore \in sync[n].new => repo[n] = "ready"
  BY DEF IgnoreInv
<1>3. ASSUME UNCHANGED <<commits, head, merging, remote, tracked, repo, sync>>,
             \A n \in Machines : Ignore \in files'[n] <=> Ignore \in files[n]
      PROVE  IgnoreInv'
  <2>1. \A c : At(c)' = At(c) /\ Past(c)' = Past(c)
    BY <1>3, SameKnown
  <2>2. At(remote)' = At(remote) /\ \A n : At(head[n])' = At(head[n])
    BY <1>3, SameKnown
  <2> QED BY <1>2, <1>3, <2>1, <2>2 DEF IgnoreInv
<1>4. CASE UNCHANGED vars
  BY <1>3, <1>4 DEF vars, local, git, shared
<1>5. ASSUME NEW m \in Machines,
             \/ InitRemote(m) \/ CloneRemote(m) \/ CreateStores(m) \/ Saves(m)
             \/ GCRemoves(m) \/ OpTurns(m) \/ PushLists(m) \/ PushCommits(m) \/ PushSends(m)
             \/ PullForwards(m) \/ PullMerges(m)
      PROVE  IgnoreInv'
  <2>1. CASE InitRemote(m)
    <3>1. /\ UNCHANGED <<commits, head, merging, remote, tracked, sync>>
          /\ repo[m] # "ready" /\ sync[m] = None
          /\ \/ repo' = [repo EXCEPT ![m] = "half"] /\ files' = files
             \/ repo' = [repo EXCEPT ![m] = "ready"] /\ files' = [files EXCEPT ![m] = @ \cup {Ignore}]
      BY <2>1 DEF InitRemote, shared, Idle
    <3>2. \A c : At(c)' = At(c) /\ Past(c)' = Past(c)
      BY <3>1, SameKnown
    <3>3. At(remote)' = At(remote) /\ \A n : At(head[n])' = At(head[n])
      BY <3>1, SameKnown
    <3>4. \A n \in Machines : Ignore \in files'[n] <=> repo'[n] = "ready"
      BY <1>1, <1>2, <3>1
    <3>5. \A n \in Machines : repo[n] = "ready" => repo'[n] = "ready"
      BY <1>1, <3>1
    <3>6. \A n \in Machines : sync[n] # None => repo'[n] = repo[n]
      BY <1>1, <3>1
    <3> QED BY <1>2, <3>1, <3>2, <3>3, <3>4, <3>5, <3>6 DEF IgnoreInv
  <2>2. CASE CreateStores(m) \/ Saves(m) \/ GCRemoves(m) \/ OpTurns(m)
    <3>1. UNCHANGED <<commits, head, merging, remote, tracked, repo, sync>>
      BY <2>2, TaskFacts DEF CreateStores, shared, git
    <3>2. \A n \in Machines : Ignore \in files'[n] <=> Ignore \in files[n]
      <4>1. CASE CreateStores(m)
        <5>1. PICK s \in Snaps : files' = [files EXCEPT ![m] = @ \cup {s} \cup Content[s]]
          BY <4>1 DEF CreateStores
        <5>2. Ignore \notin {s} \cup Content[s]
          BY FilesTyped
        <5> QED BY <1>1, <5>1, <5>2
      <4>2. CASE Saves(m) \/ OpTurns(m)
        BY <4>2, TaskFacts
      <4>3. CASE GCRemoves(m)
        <5>1. PICK f \in Snaps \cup Objects : files' = [files EXCEPT ![m] = @ \ {f}]
          BY <4>3, RemoveFacts
        <5>2. f # Ignore
          BY <5>1, FilesTyped
        <5> QED BY <1>1, <5>1, <5>2
      <4> QED BY <2>2, <4>1, <4>2, <4>3
    <3> QED BY <1>3, <3>1, <3>2
  <2>3. CASE PushLists(m)
    <3>1. UNCHANGED <<commits, head, merging, remote, tracked, repo, files>>
          /\ sync' = [sync EXCEPT ![m] = [do |-> "add", new |-> (files[m] \ tracked[m]) \ Ignored(m),
                                          seen |-> Listed(index[m])]]
      BY <2>3 DEF PushLists, git, shared, local
    <3>2. \A c : At(c)' = At(c) /\ Past(c)' = Past(c)
      BY <3>1, SameKnown
    <3>3. At(remote)' = At(remote) /\ \A n : At(head[n])' = At(head[n])
      BY <3>1, SameKnown
    <3>4. Ignore # Identity /\ Ignore \notin Ignored(m)
      BY NamesAssumption DEF Ignored
    <3>5. sync'[m].do = "add" /\ sync'[m].new = (files[m] \ tracked[m]) \ Ignored(m)
          /\ \A n \in Machines \ {m} : sync'[n] = sync[n]
      BY <1>1, <3>1
    <3> QED BY <1>2, <3>1, <3>2, <3>3, <3>4, <3>5 DEF IgnoreInv
  <2>4. CASE PushCommits(m)
    <3>1. /\ sync[m] # None /\ sync[m].do = "add" /\ UNCHANGED <<remote, repo, files>>
      BY <2>4, PushCases DEF local
    <3>2. Ignore \in Staged(m) <=> repo[m] = "ready"
      BY <3>1, IgnoreInStaged
    <3>3. CASE FailsToCommit(m)
      <4>1. /\ UNCHANGED <<commits, head, merging, remote, tracked, repo, files>>
            /\ sync'[m] = None /\ \A n \in Machines \ {m} : sync'[n] = sync[n]
        BY <1>1, <3>1, <3>3 DEF FailsToCommit
      <4>2. \A c : At(c)' = At(c) /\ Past(c)' = Past(c)
        BY <4>1, SameKnown
      <4>3. At(remote)' = At(remote) /\ \A n : At(head[n])' = At(head[n])
        BY <4>1, SameKnown
      <4> QED BY <1>2, <4>1, <4>2, <4>3 DEF IgnoreInv
    <3>4. CASE PushesOn(m) /\ (HasNothingNew(m) \/ CommitsOwn(m))
      <4>1. /\ tracked'[m] = Staged(m) /\ sync'[m].do = "send" /\ sync'[m].new = sync[m].new
            /\ \A n \in Machines \ {m} : sync'[n] = sync[n] /\ tracked'[n] = tracked[n]
        BY <1>1, <3>1, <3>4 DEF PushesOn, Syncs
      <4>2. CASE HasNothingNew(m)
        <5>1. UNCHANGED <<commits, head, remote, repo, files>> /\ At(head[m]).files = Staged(m)
          BY <3>1, <4>2 DEF HasNothingNew
        <5>2. /\ \A c : At(c)' = At(c) /\ Past(c)' = Past(c)
              /\ At(remote)' = At(remote) /\ \A n : At(head[n])' = At(head[n])
          BY <5>1 DEF At, Past
        <5>3. \A n \in Machines : Ignore \in At(head[n])'.files => Ignore \in tracked'[n]
          BY <1>2, <4>1, <5>1, <5>2
        <5>4. \A n \in Machines : Ignore \in tracked'[n] => repo'[n] = "ready"
          BY <1>2, <3>2, <4>1, <5>1
        <5>5. \A n \in Machines : sync'[n] # None =>
                /\ sync'[n].do = "add" /\ repo'[n] = "ready" => Ignore \in tracked'[n] \cup sync'[n].new
                /\ sync'[n].do = "send" /\ repo'[n] = "ready" => Ignore \in At(head[n])'.files
                /\ Ignore \in sync'[n].new => repo'[n] = "ready"
          <6> TAKE n \in Machines
          <6>1. CASE n = m
            <7>1. Ignore \in sync[m].new => repo[m] = "ready"
              BY <1>2, <3>1
            <7> QED BY <3>2, <4>1, <5>1, <5>2, <6>1, <7>1
          <6>2. CASE n # m
            <7>1. tracked'[n] = tracked[n] /\ sync'[n] = sync[n] /\ At(head[n])' = At(head[n]) /\ repo' = repo
              BY <4>1, <5>1, <5>2, <6>2
            <7> QED BY <1>2, <7>1
          <6> QED BY <6>1, <6>2
        <5> QED BY <1>2, <5>1, <5>2, <5>3, <5>4, <5>5 DEF IgnoreInv
      <4>3. CASE CommitsOwn(m)
        <5>1. PICK new \in 1..Len(commits') : KnownAfterOwn(m, new)
          BY <3>1, <4>3, OwnKnown
        <5>2. KnownAfterCommit(m, Staged(m), index[m], Known(m), new)
          BY <5>1 DEF KnownAfterOwn
        <5>3. /\ \A c \in 0..Len(commits) : At(c)' = At(c) /\ Past(c)' = Past(c)
              /\ Len(commits') = new /\ 1..new = (1..Len(commits)) \cup {new}
              /\ At(new)'.files = Staged(m) /\ Past(new)' = Known(m) \cup {new}
              /\ At(head[m])'.files = Staged(m) /\ At(remote)' = At(remote)
              /\ \A n \in Machines \ {m} : At(head[n])' = At(head[n])
          BY <5>2 DEF KnownAfterCommit
        <5>4. \A d \in Known(m) : Ignore \in At(d).files => repo[m] = "ready"
          BY <3>1, IgnoreInStaged
        <5>5. Known(m) \subseteq 1..Len(commits)
          BY KnownTyped
        <5>6. ASSUME NEW c \in 1..Len(commits'), NEW d \in Past(c)', Ignore \in At(d)'.files
              PROVE  Ignore \in At(c)'.files
          <6>1. CASE c \in 1..Len(commits)
            <7>1. c \in 0..Len(commits) /\ d \in Past(c) /\ d \in 0..Len(commits)
              BY <1>1, <6>1, <5>3, <5>6
            <7> QED BY <1>2, <6>1, <7>1, <5>3, <5>6
          <6>2. CASE c = new /\ d # new
            <7>1. d \in Known(m) /\ d \in 0..Len(commits)
              BY <1>1, <6>2, <5>3, <5>5, <5>6
            <7> QED BY <3>2, <6>2, <7>1, <5>3, <5>4, <5>6
          <6> QED BY <5>3, <5>6, <6>1, <6>2
        <5> QED BY <1>2, <3>1, <3>2, <4>1, <5>3, <5>6 DEF IgnoreInv
      <4> QED BY <3>4, <4>2, <4>3
    <3> QED BY <2>4, <3>3, <3>4, PushCases DEF HasNothingNew, CommitsOwn
  <2>5. CASE PushSends(m)
    <3>1. /\ UNCHANGED <<commits, head, merging, tracked, repo, files>>
          /\ sync[m] # None /\ sync[m].do = "send"
          /\ sync' = [sync EXCEPT ![m] = None]
          /\ remote' = remote \/ (origin[m] /\ remote' = head[m])
      BY <2>5 DEF PushSends, git, local
    <3>2. \A c : At(c)' = At(c) /\ Past(c)' = Past(c)
      BY <3>1, SameCommits
    <3>3. \A n : At(head[n])' = At(head[n])
      BY <3>1 DEF At
    <3>4. remote' # 0 => Ignore \in At(remote)'.files
      <4>1. CASE remote' = remote
        <5>1. At(remote)' = At(remote)
          BY <3>1, <4>1 DEF At
        <5> QED BY <1>2, <4>1, <5>1
      <4>2. CASE origin[m] /\ remote' = head[m]
        <5>1. At(remote)' = At(head[m])
          BY <3>1, <4>2 DEF At
        <5> QED BY <1>1, <1>2, <3>1, <4>2, <5>1
      <4> QED BY <3>1, <4>1, <4>2
    <3>5. sync'[m] = None /\ \A n \in Machines \ {m} : sync'[n] = sync[n]
      BY <1>1, <3>1
    <3> QED BY <1>2, <3>1, <3>2, <3>3, <3>4, <3>5 DEF IgnoreInv
  <2>6. CASE CloneRemote(m) \/ PullForwards(m) \/ PullMerges(m)
    <3>1. PICK b \in 0..Len(commits), i \in Indexes :
            Pulls(m, b, i) /\ (Follows(m, b, i) \/ CommitsMerge(m, b, i) \/ Conflicts(m, b, i))
      BY <2>6, PullSteps DEF PullStep
    <3>2. KnownAfterPull(m, i) /\ KnownAtHead(m, b, i)
      BY <3>1, PullKnown, PullHead
    <3>3. Ignore \in Pulled(m, b, files[m]) /\ Ignore \in Pulled(m, b, tracked[m])
      BY <3>1, IgnoreInPulled
    <3>4. /\ files'[m] = Pulled(m, b, files[m]) /\ tracked'[m] = Pulled(m, b, tracked[m]) /\ repo'[m] = "ready"
          /\ \A n \in Machines \ {m} : files'[n] = files[n] /\ tracked'[n] = tracked[n] /\ repo'[n] = repo[n]
          /\ UNCHANGED <<remote, sync>> /\ sync[m] = None
      BY <1>1, <3>1 DEF Pulls
    <3>5. /\ \A c \in 0..Len(commits) : At(c)' = At(c) /\ Past(c)' = Past(c)
          /\ At(remote)' = At(remote)
          /\ \A n \in Machines \ {m} : At(head[n])' = At(head[n])
          /\ Len(commits') \in Nat /\ Len(commits) <= Len(commits')
      BY <3>2 DEF KnownAfterPull
    <3>6. \A c \in 0..Len(commits') : c \notin 0..Len(commits) => Ignore \in At(c)'.files
      BY <3>2, <3>3 DEF KnownAtHead
    <3>7. ASSUME NEW c \in 1..Len(commits'), NEW d \in Past(c)', Ignore \in At(d)'.files
          PROVE  Ignore \in At(c)'.files
      <4>1. c \in 0..Len(commits') /\ c # 0
        BY <3>5
      <4>2. CASE c \in 0..Len(commits)
        <5>1. c \in 1..Len(commits) /\ d \in Past(c) /\ d \in 0..Len(commits)
          BY <1>1, <4>1, <4>2, <3>5, <3>7, AtTyped
        <5> QED BY <1>2, <4>2, <5>1, <3>5, <3>7
      <4> QED BY <3>6, <4>1, <4>2
    <3> QED BY <1>2, <3>3, <3>4, <3>5, <3>7 DEF IgnoreInv
  <2> QED BY <1>5, <2>1, <2>2, <2>3, <2>4, <2>5, <2>6
<1> QED BY <1>4, <1>5 DEF Next, Saves, OpTurns

LEMMA IdentityStep ==
    ASSUME ShapeInv, GraphInv, AloneInv, \A m \in Machines : Tracks(m), IgnoreInv, IdentityInv, [Next]_vars
    PROVE  IdentityInv'
<1>1. /\ files \in [Machines -> SUBSET Files] /\ tracked \in [Machines -> SUBSET Files]
      /\ repo \in [Machines -> {"none", "half", "ready"}] /\ sync \in [Machines -> Syncs \cup {None}]
      /\ Len(commits) \in Nat /\ 1..Len(commits) \subseteq 0..Len(commits)
      /\ \A n \in Machines : Known(n) \subseteq 1..Len(commits)
      /\ remote \in 0..Len(commits)
      /\ \A c \in 0..Len(commits) : c # 0 => c \in 1..Len(commits)
  BY AtTyped, KnownTyped DEF ShapeInv, TypeOK
<1>2. /\ \A c \in 1..Len(commits) : Identity \in At(c).files => Past(c) \cap early # {}
      /\ \A n \in Machines : Identity \in tracked[n] => Known(n) \cap early # {}
      /\ \A n \in Machines : sync[n] # None /\ sync[n].do = "add" /\ Identity \in sync[n].new
                               => repo[n] = "half"
  BY DEF IdentityInv
<1>3. ASSUME UNCHANGED <<commits, head, merging, remote, tracked>>, early \subseteq early',
             \A n \in Machines : sync'[n] # None /\ sync'[n].do = "add" /\ Identity \in sync'[n].new
                                   => repo'[n] = "half"
      PROVE  IdentityInv'
  <2>1. /\ \A c : At(c)' = At(c) /\ Past(c)' = Past(c)
        /\ \A n : Known(n)' = Known(n)
    BY <1>3, SameKnown
  <2> QED BY <1>2, <1>3, <2>1 DEF IdentityInv
<1>4. CASE UNCHANGED vars
  BY <1>2, <1>3, <1>4 DEF vars, local, git, shared, history
<1>5. ASSUME NEW m \in Machines,
             \/ InitRemote(m) \/ CloneRemote(m) \/ CreateStores(m) \/ Saves(m)
             \/ GCRemoves(m) \/ OpTurns(m) \/ PushLists(m) \/ PushCommits(m) \/ PushSends(m)
             \/ PullForwards(m) \/ PullMerges(m)
      PROVE  IdentityInv'
  <2>1. CASE InitRemote(m)
    <3>1. /\ UNCHANGED <<commits, head, merging, remote, tracked, sync, early>>
          /\ sync[m] = None /\ \A n \in Machines \ {m} : repo'[n] = repo[n]
      BY <1>1, <2>1 DEF InitRemote, shared, Idle, history
    <3> QED BY <1>2, <1>3, <3>1
  <2>2. CASE CreateStores(m) \/ Saves(m) \/ GCRemoves(m) \/ OpTurns(m)
    <3>1. UNCHANGED <<commits, head, merging, remote, tracked, repo, sync, early>>
      BY <2>2, TaskFacts DEF CreateStores, shared, git, history
    <3> QED BY <1>2, <1>3, <3>1
  <2>3. CASE PushLists(m)
    <3>1. /\ UNCHANGED <<commits, head, merging, remote, tracked, repo, files, early>> /\ repo[m] # "none"
          /\ sync' = [sync EXCEPT ![m] = [do |-> "add", new |-> (files[m] \ tracked[m]) \ Ignored(m),
                                          seen |-> Listed(index[m])]]
      BY <2>3 DEF PushLists, git, shared, local, history
    <3>2. sync'[m].new = (files[m] \ tracked[m]) \ Ignored(m)
          /\ \A n \in Machines \ {m} : sync'[n] = sync[n]
      BY <1>1, <3>1
    <3>3. repo[m] = "ready" => Identity \in Ignored(m)
      BY DEF IgnoreInv, Ignored
    <3>4. repo[m] \in {"half", "ready"}
      BY <1>1, <3>1
    <3> QED BY <1>2, <1>3, <3>1, <3>2, <3>3, <3>4
  <2>4. CASE PushSends(m)
    <3>1. /\ UNCHANGED <<commits, head, merging, tracked, repo, early>>
          /\ sync' = [sync EXCEPT ![m] = None]
      BY <2>4 DEF PushSends, git, local
    <3>2. /\ \A c : At(c)' = At(c) /\ Past(c)' = Past(c)
          /\ \A n : Known(n)' = Known(n)
      BY <3>1 DEF At, Past, Known
    <3> QED BY <1>1, <1>2, <3>1, <3>2 DEF IdentityInv
  <2>5. CASE CloneRemote(m) \/ PullForwards(m) \/ PullMerges(m)
    <3>1. PICK b \in 0..Len(commits), i \in Indexes :
            Pulls(m, b, i) /\ (Follows(m, b, i) \/ CommitsMerge(m, b, i) \/ Conflicts(m, b, i))
      BY <2>5, PullSteps DEF PullStep
    <3>2. KnownAfterPull(m, i) /\ KnownAtHead(m, b, i)
      BY <3>1, PullKnown, PullHead
    <3>3. /\ tracked'[m] = Pulled(m, b, tracked[m]) /\ repo'[m] = "ready" /\ remote # 0
          /\ \A n \in Machines \ {m} : tracked'[n] = tracked[n] /\ repo'[n] = repo[n]
          /\ UNCHANGED <<remote, sync, early>> /\ sync[m] = None
      BY <1>1, <3>1 DEF Pulls
    <3>4. /\ \A c \in 0..Len(commits) : At(c)' = At(c) /\ Past(c)' = Past(c)
          /\ \A n \in Machines \ {m} : Known(n)' = Known(n)
          /\ Len(commits') \in Nat /\ Len(commits) <= Len(commits')
          /\ Past(remote) \subseteq Known(m)' /\ Known(m) \subseteq Known(m)'
      BY <3>2 DEF KnownAfterPull
    <3>5. Identity \in Pulled(m, b, tracked[m]) => (Known(m) \cup Past(remote)) \cap early # {}
      <4> HAVE Identity \in Pulled(m, b, tracked[m])
      <4>1. CASE Identity \in tracked[m]
        BY <1>2, <4>1
      <4>2. CASE Identity \in At(remote).files
        BY <1>1, <1>2, <3>3, <4>2
      <4> QED BY <4>1, <4>2 DEF Pulled, Merged
    <3>6. \A c \in 0..Len(commits') : c \notin 0..Len(commits) =>
            At(c)'.files = Pulled(m, b, tracked[m]) /\ Past(c)' = Known(m) \cup Past(remote) \cup {c}
      BY <3>2 DEF KnownAtHead
    <3>7. ASSUME NEW c \in 1..Len(commits'), Identity \in At(c)'.files
          PROVE  Past(c)' \cap early' # {}
      <4>1. c \in 0..Len(commits') /\ c # 0
        BY <3>4
      <4>2. CASE c \in 0..Len(commits)
        <5>1. c \in 1..Len(commits) /\ At(c)' = At(c) /\ Past(c)' = Past(c)
          BY <1>1, <4>1, <4>2, <3>4
        <5> QED BY <1>2, <3>3, <3>7, <5>1
      <4>3. CASE c \notin 0..Len(commits)
        BY <3>3, <3>5, <3>6, <3>7, <4>1, <4>3
      <4> QED BY <4>2, <4>3
    <3>8. ASSUME NEW n \in Machines, Identity \in tracked'[n] PROVE Known(n)' \cap early' # {}
      <4>1. CASE n = m
        BY <3>3, <3>4, <3>5, <3>8, <4>1
      <4>2. CASE n # m
        BY <1>2, <3>3, <3>4, <3>8, <4>2
      <4> QED BY <4>1, <4>2
    <3> QED BY <1>2, <3>3, <3>7, <3>8 DEF IdentityInv
  <2>6. CASE PushCommits(m)
    <3>1. sync[m] # None /\ sync[m].do = "add" /\ UNCHANGED <<remote, repo>>
      BY <2>6, PushCases
    <3>2. CASE FailsToCommit(m)
      <4>1. /\ UNCHANGED <<commits, head, merging, remote, tracked, early>>
            /\ sync'[m] = None /\ \A n \in Machines \ {m} : sync'[n] = sync[n]
        BY <1>1, <3>1, <3>2 DEF FailsToCommit
      <4> QED BY <1>2, <1>3, <3>1, <4>1
    <3>3. CASE PushesOn(m) /\ (HasNothingNew(m) \/ CommitsOwn(m))
      <4>1. /\ tracked'[m] = Staged(m) /\ sync'[m].do = "send"
            /\ \A n \in Machines \ {m} : sync'[n] = sync[n] /\ tracked'[n] = tracked[n]
        BY <1>1, <3>1, <3>3 DEF PushesOn, Syncs
      <4>2. \A n \in Machines : sync'[n] # None /\ sync'[n].do = "add" /\ Identity \in sync'[n].new
                                   => repo'[n] = "half"
        BY <1>2, <3>1, <4>1
      <4>3. Identity \in Staged(m) => Known(m) \cap early # {} \/ repo[m] = "half"
        BY <1>2, <3>1 DEF Staged
      <4>4. CASE HasNothingNew(m)
        <5>1. UNCHANGED <<commits, head, early, merging>> /\ At(head[m]).files = Staged(m) /\ merging[m] = 0
          BY <1>1, <4>4 DEF HasNothingNew, PushesOn, ShapeInv
        <5>2. /\ \A c : At(c)' = At(c) /\ Past(c)' = Past(c)
              /\ \A n : Known(n)' = Known(n)
          BY <5>1 DEF At, Past, Known
        <5>3. Identity \in Staged(m) => Known(m) \cap early # {}
          <6> HAVE Identity \in Staged(m)
          <6>1. head[m] \in 1..Len(commits)
            BY <5>1, AtTyped
          <6> QED BY <1>2, <5>1, <6>1, KnownTyped
        <5>4. ASSUME NEW n \in Machines, Identity \in tracked'[n] PROVE Known(n)' \cap early' # {}
          BY <1>2, <4>1, <5>1, <5>2, <5>3, <5>4
        <5> QED BY <1>2, <4>2, <5>1, <5>2, <5>4 DEF IdentityInv
      <4>5. CASE CommitsOwn(m)
        <5>1. PICK new \in 1..Len(commits') : KnownAfterOwn(m, new)
          BY <3>1, <4>5, OwnKnown
        <5>2. KnownAfterCommit(m, Staged(m), index[m], Known(m), new) /\ new = Len(commits) + 1
          BY <5>1 DEF KnownAfterOwn
        <5>3. /\ \A c \in 0..Len(commits) : At(c)' = At(c) /\ Past(c)' = Past(c)
              /\ Len(commits') = new /\ 1..new = (1..Len(commits)) \cup {new}
              /\ At(new)'.files = Staged(m) /\ Past(new)' = Known(m) \cup {new}
              /\ Known(m)' = Known(m) \cup {new}
              /\ \A n \in Machines \ {m} : Known(n)' = Known(n)
          BY <5>2 DEF KnownAfterCommit
        <5>4. early \subseteq early' /\ (repo[m] = "half" => new \in early')
          BY <4>5, <5>2 DEF CommitsOwn
        <5>5. Identity \in Staged(m) => (Known(m) \cup {new}) \cap early' # {}
          BY <4>3, <5>4
        <5>6. ASSUME NEW c \in 1..Len(commits'), Identity \in At(c)'.files PROVE Past(c)' \cap early' # {}
          <6>1. CASE c = new
            BY <5>3, <5>5, <5>6, <6>1
          <6>2. CASE c \in 1..Len(commits)
            <7>1. At(c)' = At(c) /\ Past(c)' = Past(c)
              BY <1>1, <5>3, <6>2
            <7> QED BY <1>2, <5>4, <5>6, <6>2, <7>1
          <6> QED BY <5>3, <6>1, <6>2
        <5>7. ASSUME NEW n \in Machines, Identity \in tracked'[n] PROVE Known(n)' \cap early' # {}
          <6>1. CASE n = m
            BY <4>1, <5>3, <5>5, <5>7, <6>1
          <6>2. CASE n # m
            BY <1>2, <4>1, <5>3, <5>4, <5>7, <6>2
          <6> QED BY <6>1, <6>2
        <5> QED BY <4>2, <5>6, <5>7 DEF IdentityInv
      <4> QED BY <3>3, <4>4, <4>5
    <3> QED BY <2>6, <3>2, <3>3, PushCases DEF HasNothingNew, CommitsOwn
  <2> QED BY <1>5, <2>1, <2>2, <2>3, <2>4, <2>5, <2>6
<1> QED BY <1>4, <1>5 DEF Next, Saves, OpTurns

-----------------------------------------------------------------------------
(* Where a listing comes from.                                             *)

\* Whom a merge may take an entry from: what this machine made itself it lists
\* already, what others made the remote lists, and what is gone stays away.
MergedEntries(m, i) ==
  /\ Gone(head[m]) \cap Listed(i) = {} /\ Gone(remote) \cap Listed(i) = {}
  /\ \A s \in Listed(i) : maker[s] # m => s \in Listed(At(remote).index)
  /\ \A s \in Listed(i) : maker[s] = m => s \in Listed(At(head[m]).index)

PulledEntries(m) ==
  /\ GoneAt(m) \cap Listed(index'[m]) = {} /\ Gone(remote) \cap Listed(index'[m]) = {}
  /\ \A s \in Listed(index'[m]) : maker[s] # m => s \in Listed(At(remote).index)
  /\ \A s \in Listed(index'[m]) : maker[s] = m => s \in Listed(index[m])

\* What m knows of s, where both sides of a merge have known it.
LEMMA BaseEver ==
    ASSUME ShapeInv, GraphInv, ListInv, NEW m \in Machines, merging[m] = 0,
           NEW b \in 0..Len(commits), IsBase(m, b)
    PROVE  /\ Heard(m) = Ever(head[m]) /\ Common(m) = Ever(b) /\ GoneHead(m) = Gone(head[m])
           /\ \A s \in Published : maker[s] = m => s \in Ever(b)
           /\ \A s \in Heard(m) \cup Listed(index[m]) : maker[s] # m => s \in Ever(b)
           /\ Gone(b) \subseteq Gone(head[m]) /\ Gone(b) \subseteq Gone(remote)
           /\ Gone(head[m]) \subseteq GoneAt(m)
           /\ Listed(At(head[m]).index) \subseteq Heard(m) /\ Listed(At(remote).index) \subseteq Published
<1>1. Known(m) = Past(head[m])
  BY KnownTyped
<1>2. Heard(m) = Ever(head[m]) /\ GoneHead(m) = Gone(head[m])
  BY <1>1 DEF Heard, Ever, GoneHead, Gone
<1>3. Common(m) = Ever(b)
  BY DEF IsBase, Common, Ever
<1>4. /\ \A s \in Published : maker[s] = m => s \in Ever(b)
      /\ \A s \in Heard(m) \cup Listed(index[m]) : maker[s] # m => s \in Ever(b)
  BY <1>3 DEF ListInv
<1>5. /\ head[m] \in 0..Len(commits) /\ remote \in 0..Len(commits) /\ Past(0) = {} /\ Ever(0) = {}
      /\ \A c \in 0..Len(commits) : c # 0 => c \in 1..Len(commits)
      /\ At(0).index = {} /\ Listed({}) = {}
  BY AtTyped, KnownTyped, ListedTyped
<1>6. Gone(b) \subseteq Gone(head[m]) /\ Gone(b) \subseteq Gone(remote)
  <2>1. CASE b = 0
    BY <1>5, <2>1 DEF Gone
  <2>2. CASE b # 0
    <3>1. b \in Past(remote) /\ b \in Past(head[m])
      BY <2>2, BaseFacts
    <3>2. head[m] \in 1..Len(commits) /\ remote \in 1..Len(commits)
      BY <1>5, <3>1
    <3> QED BY <3>1, <3>2 DEF ListInv
  <2> QED BY <2>1, <2>2
<1>7. Gone(head[m]) \subseteq GoneAt(m)
  BY <1>2 DEF ListInv
<1>8. \A c \in 0..Len(commits) : Listed(At(c).index) \subseteq Ever(c)
  <2> TAKE c \in 0..Len(commits)
  <2>1. CASE c = 0
    BY <1>5, <2>1
  <2>2. CASE c # 0
    <3>1. c \in Past(c)
      BY <1>5, <2>2 DEF GraphInv
    <3>2. Listed(At(c).index) \subseteq Snaps
      BY AtTyped, ListedTyped
    <3> QED BY <3>1, <3>2 DEF Ever, ListedIn
  <2> QED BY <2>1, <2>2
<1>9. Listed(At(head[m]).index) \subseteq Heard(m) /\ Listed(At(remote).index) \subseteq Published
  BY <1>2, <1>5, <1>8 DEF Ever, Published
<1> QED BY <1>2, <1>3, <1>4, <1>6, <1>7, <1>9

LEMMA MergeEntries ==
    ASSUME ShapeInv, GraphInv, KeptInv, ListInv, NEW m \in Machines, NEW b \in 0..Len(commits),
           NEW i \in Indexes, Pulls(m, b, i)
    PROVE  MergedEntries(m, i)
<1>1. /\ merging[m] = 0 /\ IsBase(m, b)
      /\ i \in MergedIndexes(At(b).index, At(head[m]).index, At(remote).index)
  BY DEF Pulls
<1>2. CASE i = Conflict
  BY <1>2, ListedTyped DEF MergedEntries
<1>3. CASE i # Conflict
  <2>1. PICK base \in Indexes, ours \in Indexes, theirs \in Indexes :
          base = At(b).index /\ ours = At(head[m]).index /\ theirs = At(remote).index
    BY AtTyped
  <2>2. /\ ours # Conflict /\ theirs # Conflict /\ base # Conflict /\ i \subseteq ours \cup theirs
    <3>1. Keeps(ours, base) /\ Keeps(theirs, base)
      BY <1>1, <2>1, BaseKept
    <3> QED BY <1>1, <1>3, <2>1, <3>1, MergeKeeps
  <2>3. Listed(i) = i /\ Listed(base) = base /\ Listed(ours) = ours /\ Listed(theirs) = theirs /\ i \subseteq Snaps
    BY <1>3, <2>2, ListedTyped
  <2>4. \/ i = ours /\ ours = theirs
        \/ i = ours /\ theirs = base
        \/ i = theirs /\ ours = base
        \/ i = (ours \ (base \ theirs)) \cup (theirs \ base)
    BY <1>1, <1>3, <2>1, MergedIndexesTyped DEF Merged
  <2>5. /\ Heard(m) = Ever(head[m])
        /\ \A s \in Published : maker[s] = m => s \in Ever(b)
        /\ \A s \in Heard(m) : maker[s] # m => s \in Ever(b)
        /\ Gone(b) \subseteq Gone(head[m]) /\ Gone(b) \subseteq Gone(remote)
        /\ ours \subseteq Heard(m) /\ theirs \subseteq Published
    BY <1>1, <2>1, <2>3, BaseEver
  <2>6. /\ Gone(head[m]) = Heard(m) \ ours /\ Gone(remote) = Published \ theirs /\ Gone(b) = Ever(b) \ base
    BY <2>1, <2>3, <2>5 DEF Gone, Ever, Published
  <2>7. \A s \in Ever(b) : s \notin base => s \notin ours /\ s \notin theirs
    BY <2>5, <2>6
  <2>8. \A s \in i : (s \notin ours => s \notin base \/ s \notin theirs) /\ (s \notin theirs => s \notin base \/ s \notin ours)
    BY <2>4
  <2>9. \A s \in i : s \in Heard(m) /\ s \in Published => s \in ours /\ s \in theirs
    BY <2>2, <2>5, <2>7, <2>8
  <2>10. \A s \in i : s \notin ours => s \in theirs /\ s \in Published /\ s \notin Heard(m)
    BY <2>2, <2>5, <2>9
  <2>11. \A s \in i : s \notin theirs => s \in ours /\ s \in Heard(m) /\ s \notin Published
    BY <2>2, <2>5, <2>9
  <2>12. \A s \in i : s \in Ever(b) => s \in ours /\ s \in theirs
    BY <2>2, <2>7, <2>8
  <2>13. \A s \in i : (maker[s] # m => s \in theirs) /\ (maker[s] = m => s \in ours)
    BY <2>5, <2>10, <2>11, <2>12
  <2> QED BY <2>1, <2>3, <2>6, <2>10, <2>11, <2>13 DEF MergedEntries
<1> QED BY <1>2, <1>3

LEMMA PullEntries ==
    ASSUME ShapeInv, GraphInv, KeptInv, ListInv, NEW m \in Machines, NEW b \in 0..Len(commits),
           NEW i \in Indexes, Pulls(m, b, i)
    PROVE  /\ PulledEntries(m)
           /\ \/ index'[m] = index[m] /\ i = At(head[m]).index /\ At(remote).index = At(b).index
              \/ index'[m] = i /\ index[m] = At(head[m]).index
<1>1. /\ merging[m] = 0 /\ IsBase(m, b)
      /\ i \in MergedIndexes(At(b).index, At(head[m]).index, At(remote).index)
      /\ At(remote).index = At(b).index \/ index[m] = At(head[m]).index
      /\ index'[m] = IF At(remote).index = At(b).index THEN index[m] ELSE i
  BY DEF Pulls, ShapeInv, TypeOK
<1>2. At(b).index \in Indexes /\ At(head[m]).index \in Indexes /\ At(remote).index \in Indexes
  BY AtTyped
<1>3. \/ index'[m] = index[m] /\ i = At(head[m]).index /\ At(remote).index = At(b).index
      \/ index'[m] = i /\ index[m] = At(head[m]).index
  BY <1>1, <1>2, MergedIndexesTyped
<1>4. MergedEntries(m, i)
  BY MergeEntries
<1>5. /\ Heard(m) = Ever(head[m])
      /\ \A s \in Published : maker[s] = m => s \in Ever(b)
      /\ \A s \in Heard(m) \cup Listed(index[m]) : maker[s] # m => s \in Ever(b)
      /\ Gone(b) \subseteq Gone(head[m]) /\ Gone(b) \subseteq Gone(remote) /\ Gone(head[m]) \subseteq GoneAt(m)
  BY <1>1, BaseEver
<1>6. CASE index'[m] = i /\ index[m] = At(head[m]).index
  <2>1. GoneAt(m) = Gone(head[m])
    BY <1>5, <1>6 DEF GoneAt, Gone
  <2> QED BY <1>3, <1>4, <1>6, <2>1 DEF MergedEntries, PulledEntries
<1>7. CASE index'[m] = index[m] /\ At(remote).index = At(b).index
  <2>1. \A s \in Listed(index[m]) : s \notin GoneAt(m)
    BY DEF GoneAt
  <2>2. \A s \in Listed(index[m]) : s \in Ever(b) => s \in Listed(At(remote).index)
    BY <1>5, <1>7, <2>1 DEF Gone
  <2>3. Gone(remote) \subseteq Published /\ \A s \in Gone(remote) : s \notin Listed(At(remote).index)
    BY DEF Gone, Ever, Published
  <2>4. \A s \in Listed(index[m]) : s \notin Gone(remote)
    BY <1>5, <2>2, <2>3
  <2> QED BY <1>3, <1>5, <1>7, <2>1, <2>2, <2>4 DEF PulledEntries
<1> QED BY <1>3, <1>6, <1>7

FreshInv ==
  /\ \A s \in Snaps : IsListed(s) => s \in created
  /\ \A s \in created : maker[s] # None
  /\ \A m \in Machines : \A s \in Snaps : Publishing(m, s) => maker[s] = m /\ s \notin created

SharedInv ==
  /\ \A s \in Published : maker[s] \in Machines => s \in Common(maker[s])
  /\ \A m \in Machines : \A s \in Heard(m) \cup Listed(index[m]) : maker[s] # m => s \in Common(m)

GoneInv ==
  /\ \A c \in 1..Len(commits) : \A d \in Past(c) : Gone(d) \subseteq Gone(c)
  /\ \A m \in Machines : GoneHead(m) \subseteq GoneAt(m)

LEMMA ListParts ==
    /\ ListInv <=> FreshInv /\ SharedInv /\ GoneInv
    /\ ListInv' <=> FreshInv' /\ SharedInv' /\ GoneInv'
<1>1. ListInv <=> FreshInv /\ SharedInv /\ GoneInv
  BY DEF ListInv, FreshInv, SharedInv, GoneInv
<1> QED BY <1>1, PTL

LEMMA FreshFacts ==
    ASSUME FreshInv
    PROVE  /\ \A s \in Snaps : maker[s] = None => ~IsListed(s)
           /\ \A m \in Machines : \A s \in Snaps : Publishing(m, s) => maker[s] = m /\ ~IsListed(s)
BY DEF FreshInv

LEMMA ListInit == Init => ListInv
<1> SUFFICES ASSUME Init PROVE ListInv
  OBVIOUS
<1>1. ShapeInv /\ GraphInv /\ Len(commits) = 0 /\ remote = 0
  BY ShapeInit, GraphInit DEF Init
<1>2. \A m \in Machines : index[m] = {} /\ op[m] = None /\ head[m] = 0 /\ merging[m] = 0
  BY DEF Init
<1>3. All = {} /\ Listed({}) = {}
  BY <1>1, ListedTyped DEF All, ListedIn
<1>4. Published = {} /\ \A m \in Machines : Heard(m) = {}
  BY <1>1, <1>3, KnownTyped
<1>5. FreshInv
  BY <1>2, <1>3 DEF Init, FreshInv, IsListed, Publishing
<1>6. SharedInv
  BY <1>2, <1>3, <1>4 DEF SharedInv
<1>7. GoneInv
  BY <1>1, <1>4 DEF GoneInv, GoneHead
<1> QED BY <1>5, <1>6, <1>7, ListParts

LEMMA TaskInit == Init => TaskInv
BY DEF Init, TaskInv

LEMMA WorkTyped ==
    ASSUME ShapeInv
    PROVE  /\ index \in [Machines -> Indexes] /\ op \in [Machines -> Ops \cup {None}]
           /\ maker \in [Snaps -> Machines \cup {None}]
           /\ \A m \in Machines : Listed(index[m]) \subseteq Snaps /\ (index[m] # Conflict => Listed(index[m]) = index[m])
           /\ \A m \in Machines : op[m] # None => (op[m].snap # 0 <=> op[m].do \in {"publish", "save"})
<1>1. index \in [Machines -> Indexes] /\ op \in [Machines -> Ops \cup {None}]
  BY DEF ShapeInv, TypeOK
<1>2. \A m \in Machines : index[m] \in Indexes
  BY <1>1
<1>3. \A m \in Machines : Listed(index[m]) \subseteq Snaps /\ (index[m] # Conflict => Listed(index[m]) = index[m])
  BY <1>2, ListedTyped
<1>4. /\ maker \in [Snaps -> Machines \cup {None}]
      /\ \A m \in Machines : op[m] # None => (op[m].snap # 0 <=> op[m].do \in {"publish", "save"})
  BY DEF ShapeInv
<1> QED BY <1>1, <1>3, <1>4

\* What a save adds to the index nobody has listed, what it drops is pruned.
LEMMA SavedEntries ==
    ASSUME ShapeInv, FreshInv, TaskInv, NEW m \in Machines, Saves(m)
    PROVE  /\ UNCHANGED <<maker, commits, head, merging, remote>>
           /\ \A n \in Machines \ {m} : index'[n] = index[n]
           /\ \A s \in Listed(index'[m]) :
                s \in Listed(index[m]) \/ (maker[s] = m /\ ~IsListed(s) /\ Publishing(m, s) /\ op[m].do = "save")
           /\ \A s \in Listed(index[m]) : s \in Listed(index'[m]) \/ s \in pruned
<1>1. /\ index \in [Machines -> Indexes] /\ op \in [Machines -> Ops \cup {None}]
      /\ index[m] # Conflict => Listed(index[m]) = index[m]
      /\ UNCHANGED <<maker, commits, head, merging, remote>>
  BY WorkTyped, TaskFacts
<1>2. CASE op[m].do = "save"
  <2>1. /\ op[m].snap \in Snaps /\ Publishing(m, op[m].snap) /\ index[m] # Conflict
        /\ index' = [index EXCEPT ![m] = @ \cup {op[m].snap}]
    BY <1>2, CleanSaves
  <2>2. Listed(index'[m]) = Listed(index[m]) \cup {op[m].snap}
    BY <1>1, <2>1, ListedTyped
  <2>3. maker[op[m].snap] = m /\ ~IsListed(op[m].snap)
    BY <2>1, FreshFacts
  <2> QED BY <1>1, <1>2, <2>1, <2>2, <2>3
<1>3. CASE op[m].do = "prune"
  <2>1. /\ op[m].kept \subseteq index[m] /\ index[m] \ op[m].kept \subseteq pruned /\ index[m] # Conflict
        /\ index' = [index EXCEPT ![m] = op[m].kept]
    BY <1>3, CleanSaves
  <2>2. Listed(index'[m]) = op[m].kept
    BY <1>1, <2>1, ListedTyped
  <2> QED BY <1>1, <2>1, <2>2
<1> QED BY <1>2, <1>3, SaveFacts

LEMMA FreshStep ==
    ASSUME ShapeInv, GraphInv, AloneInv, \A m \in Machines : Tracks(m), KeptInv, ListInv, TaskInv, [Next]_vars
    PROVE  FreshInv'
<1>1. FreshInv
  BY ListParts
<1>2. /\ index \in [Machines -> Indexes] /\ op \in [Machines -> Ops \cup {None}]
      /\ maker \in [Snaps -> Machines \cup {None}]
      /\ \A n \in Machines : Listed(index[n]) \subseteq Snaps /\ (index[n] # Conflict => Listed(index[n]) = index[n])
      /\ All \subseteq Snaps
      /\ \A n \in Machines : op[n] # None => (op[n].snap # 0 <=> op[n].do \in {"publish", "save"})
      /\ created \subseteq Snaps
  BY WorkTyped, KnownTyped DEF ShapeInv
<1>3. ASSUME UNCHANGED <<maker, created>>, \A s \in Snaps : IsListed(s)' => IsListed(s),
             \A n \in Machines : \A s \in Snaps : Publishing(n, s)' => Publishing(n, s)
      PROVE  FreshInv'
  BY <1>1, <1>3 DEF FreshInv
<1>4. ASSUME UNCHANGED <<commits, index>> PROVE \A s : IsListed(s)' <=> IsListed(s)
  BY <1>4 DEF IsListed, All, ListedIn, Listed, At
<1>5. CASE UNCHANGED vars
  BY <1>3, <1>4, <1>5 DEF vars, shared, local, history, Publishing
<1>6. ASSUME NEW m \in Machines,
             \/ InitRemote(m) \/ CloneRemote(m) \/ CreateStores(m) \/ Saves(m)
             \/ GCRemoves(m) \/ OpTurns(m) \/ PushLists(m) \/ PushCommits(m) \/ PushSends(m)
             \/ PullForwards(m) \/ PullMerges(m)
      PROVE  FreshInv'
  <2>1. CASE InitRemote(m) \/ PushLists(m) \/ PushSends(m)
    <3>1. UNCHANGED <<maker, created, commits, index, op>>
      BY <2>1 DEF InitRemote, PushLists, PushSends, shared, local, history
    <3> QED BY <1>3, <1>4, <3>1 DEF Publishing
  <2>2. CASE GCRemoves(m) \/ OpTurns(m)
    <3>1. UNCHANGED <<maker, created, commits, index>>
      BY <2>2, TaskFacts
    <3>2. \A n \in Machines : \A s \in Snaps : Publishing(n, s)' => Publishing(n, s)
      <4>1. CASE OpTurns(m)
        <5>1. op' = [op EXCEPT ![m] = op'[m]] /\ \A s : Publishing(m, s)' => Publishing(m, s)
          BY <4>1, OpTurnFacts
        <5> QED BY <1>2, <5>1 DEF Publishing
      <4>2. CASE GCRemoves(m)
        <5>1. PICK f : /\ op[m] # None /\ op[m] \in Ops
                       /\ op' = [op EXCEPT ![m] = [op[m] EXCEPT !.doomed = op[m].doomed \ {f}]]
          BY <4>2, RemoveFacts
        <5>2. op'[m].do = op[m].do /\ op'[m].snap = op[m].snap
          BY <1>2, <5>1 DEF Ops
        <5> QED BY <1>2, <5>1, <5>2 DEF Publishing
      <4> QED BY <2>2, <4>1, <4>2
    <3> QED BY <1>3, <1>4, <3>1, <3>2
  <2>4. CASE CreateStores(m)
    <3>1. PICK s \in Snaps :
            /\ \A r \in Snaps : maker[r] = None <=> r >= s
            /\ maker' = [maker EXCEPT ![s] = m]
            /\ op' = [op EXCEPT ![m] = [do |-> "publish", snap |-> s, list |-> {}, kept |-> {}, doomed |-> {}]]
      BY <2>4 DEF CreateStores
    <3>2. UNCHANGED <<commits, index, created>>
      BY <2>4 DEF CreateStores, shared
    <3>3. \A r : IsListed(r)' <=> IsListed(r)
      BY <1>4, <3>2
    <3>4. maker[s] = None /\ s \notin created
      <4>1. s >= s
        BY FilesTyped
      <4> QED BY <1>1, <3>1, <4>1 DEF FreshInv
    <3>5. ASSUME NEW n \in Machines, NEW r \in Snaps, Publishing(n, r)'
          PROVE  maker'[r] = n /\ r \notin created
      <4>1. CASE n = m
        <5>1. r = s
          BY <1>2, <3>1, <3>5, <4>1 DEF Publishing
        <5> QED BY <1>2, <3>1, <3>4, <4>1, <5>1
      <4>2. CASE n # m
        <5>1. Publishing(n, r)
          BY <1>2, <3>1, <3>5, <4>2 DEF Publishing
        <5>2. maker[r] = n /\ r \notin created /\ n # None
          BY <1>1, <5>1, FilesTyped DEF FreshInv
        <5> QED BY <1>2, <3>1, <3>4, <5>2
      <4> QED BY <4>1, <4>2
    <3>6. \A r \in created : maker'[r] # None
      BY <1>1, <1>2, <3>1, <3>4 DEF FreshInv
    <3>7. \A r \in Snaps : IsListed(r) => r \in created
      BY <1>1 DEF FreshInv
    <3> QED BY <3>2, <3>3, <3>5, <3>6, <3>7 DEF FreshInv
  <2>5. CASE Saves(m)
    <3>1. UNCHANGED <<maker, commits>>
      BY <2>5, TaskFacts
    <3>2. All' = All
      BY <3>1 DEF All, ListedIn, At, Listed
    <3>3. CASE op[m].do = "save"
      <4>1. /\ op[m].snap \in Snaps /\ Publishing(m, op[m].snap) /\ index[m] # Conflict
            /\ index' = [index EXCEPT ![m] = @ \cup {op[m].snap}]
            /\ created' = created \cup {op[m].snap} /\ op' = [op EXCEPT ![m] = None]
        BY <2>5, <3>3, CleanSaves
      <4>2. Listed(index'[m]) \subseteq Listed(index[m]) \cup {op[m].snap}
        BY <1>2, <4>1, ListedTyped
      <4>3. \A r : IsListed(r)' => IsListed(r) \/ r = op[m].snap
        BY <1>2, <3>2, <4>1, <4>2 DEF IsListed, Listed
      <4>4. maker[op[m].snap] = m
        BY <1>1, <4>1 DEF FreshInv
      <4>5. ASSUME NEW n \in Machines, NEW r \in Snaps, Publishing(n, r)'
            PROVE  maker[r] = n /\ r \notin created'
        <5>1. n # m /\ Publishing(n, r)
          BY <1>2, <4>1, <4>5 DEF Publishing
        <5>2. maker[r] = n /\ r \notin created
          BY <1>1, <5>1 DEF FreshInv
        <5> QED BY <4>1, <4>4, <5>1, <5>2
      <4>6. \A r \in created' : maker[r] # None
        BY <1>1, <4>1, <4>4, FilesTyped DEF FreshInv
      <4>7. \A r \in Snaps : IsListed(r)' => r \in created'
        BY <1>1, <4>1, <4>3 DEF FreshInv
      <4> QED BY <3>1, <4>5, <4>6, <4>7 DEF FreshInv
    <3>4. CASE op[m].do = "prune"
      <4>1. /\ op[m] # None /\ op[m].kept \subseteq index[m] /\ index[m] # Conflict /\ created' = created
            /\ index' = [index EXCEPT ![m] = op[m].kept]
            /\ op' = [op EXCEPT ![m] = [@ EXCEPT !.do = "mark"]]
        BY <2>5, <3>4, CleanSaves
      <4>2. \A n \in Machines : Listed(index'[n]) \subseteq Listed(index[n])
        BY <1>2, <4>1, ListedTyped
      <4>3. \A s \in Snaps : IsListed(s)' => IsListed(s)
        BY <3>2, <4>2 DEF IsListed, Listed
      <4>4. op[m] \in Ops
        BY <1>2, <4>1
      <4>5. op'[m].do = "mark"
        BY <1>2, <4>1, <4>4 DEF Ops
      <4>6. \A n \in Machines : \A s \in Snaps : Publishing(n, s)' => Publishing(n, s)
        BY <1>2, <4>1, <4>5 DEF Publishing
      <4> QED BY <1>3, <3>1, <4>1, <4>3, <4>6
    <3> QED BY <2>5, <3>3, <3>4, SaveFacts
  <2>6. CASE PushCommits(m)
    <3>1. sync[m] # None /\ UNCHANGED <<remote, op, maker, created, index>>
      BY <2>6, PushCases DEF local
    <3>2. CASE FailsToCommit(m) \/ HasNothingNew(m)
      BY <1>3, <1>4, <3>1, <3>2 DEF FailsToCommit, HasNothingNew, Publishing
    <3>3. CASE CommitsOwn(m)
      <4>1. All' = All \cup Listed(index[m])
        BY <3>1, <3>3, OwnKnown DEF KnownAfterOwn, KnownAfterCommit
      <4>2. \A s \in Snaps : IsListed(s)' => IsListed(s)
        BY <3>1, <4>1 DEF IsListed, Listed
      <4> QED BY <1>3, <3>1, <4>2 DEF Publishing
    <3> QED BY <2>6, <3>2, <3>3, PushCases
  <2>7. CASE CloneRemote(m) \/ PullForwards(m) \/ PullMerges(m)
    <3>1. PICK b \in 0..Len(commits), i \in Indexes :
            Pulls(m, b, i) /\ (Follows(m, b, i) \/ CommitsMerge(m, b, i) \/ Conflicts(m, b, i))
      BY <2>7, PullSteps DEF PullStep
    <3>2. All' \subseteq All \cup Listed(i)
      BY <3>1, PullKnown DEF KnownAfterPull
    <3>3. /\ UNCHANGED <<maker, created, op>> /\ merging[m] = 0 /\ IsBase(m, b)
          /\ \A n \in Machines \ {m} : index'[n] = index[n]
      BY <1>2, <3>1 DEF Pulls
    <3>4. MergedEntries(m, i) /\ PulledEntries(m)
      BY <3>1, MergeEntries, PullEntries
    <3>5. Listed(At(head[m]).index) \subseteq All /\ Listed(At(remote).index) \subseteq All
      BY <3>3, BaseEver, KnownTyped
    <3>6. Listed(i) \subseteq All
      BY <3>4, <3>5 DEF MergedEntries
    <3>7. Listed(index'[m]) \subseteq Listed(index[m]) \cup All
      BY <3>4, <3>5 DEF PulledEntries
    <3>8. \A s \in Snaps : IsListed(s)' => IsListed(s)
      BY <3>2, <3>3, <3>6, <3>7 DEF IsListed, Listed
    <3> QED BY <1>3, <3>3, <3>8 DEF Publishing
  <2> QED BY <1>6, <2>1, <2>2, <2>4, <2>5, <2>6, <2>7
<1> QED BY <1>5, <1>6 DEF Next, Saves, OpTurns

LEMMA SharedStep ==
    ASSUME ShapeInv, GraphInv, AloneInv, \A m \in Machines : Tracks(m), KeptInv, ListInv, TaskInv, [Next]_vars
    PROVE  SharedInv'
<1>1. SharedInv /\ FreshInv
  BY ListParts
<1>2. /\ index \in [Machines -> Indexes] /\ op \in [Machines -> Ops \cup {None}]
      /\ maker \in [Snaps -> Machines \cup {None}]
      /\ \A n \in Machines : Listed(index[n]) \subseteq Snaps /\ (index[n] # Conflict => Listed(index[n]) = index[n])
      /\ \A n \in Machines : Heard(n) \subseteq All /\ Common(n) \subseteq Heard(n) /\ Common(n) \subseteq Published
      /\ Published \subseteq All /\ All \subseteq Snaps
      /\ \A n \in Machines : op[n] # None => (op[n].snap # 0 <=> op[n].do \in {"publish", "save"})
  BY WorkTyped, KnownTyped
<1>3. ASSUME maker' = maker, Published' = Published,
             \A n \in Machines : /\ Common(n)' = Common(n) /\ Heard(n)' \subseteq Heard(n) \cup Listed(index[n])
                                 /\ Listed(index'[n]) \subseteq Heard(n) \cup Listed(index[n])
      PROVE  SharedInv'
  BY <1>1, <1>3 DEF SharedInv, Listed
<1>4. ASSUME UNCHANGED <<commits, head, merging, remote>>
      PROVE  Published' = Published /\ \A n \in Machines : Common(n)' = Common(n) /\ Heard(n)' = Heard(n)
  BY <1>4, SameKnown
<1>5. CASE UNCHANGED vars
  BY <1>3, <1>4, <1>5 DEF vars, shared, local, git, history
<1>6. ASSUME NEW m \in Machines,
             \/ InitRemote(m) \/ CloneRemote(m) \/ CreateStores(m) \/ Saves(m)
             \/ GCRemoves(m) \/ OpTurns(m) \/ PushLists(m) \/ PushCommits(m) \/ PushSends(m)
             \/ PullForwards(m) \/ PullMerges(m)
      PROVE  SharedInv'
  <2>1. CASE InitRemote(m) \/ PushLists(m) \/ GCRemoves(m) \/ OpTurns(m)
    <3>1. UNCHANGED <<maker, commits, head, merging, remote, index>>
      BY <2>1, TaskFacts DEF InitRemote, PushLists, shared, local, git, history
    <3> QED BY <1>3, <1>4, <3>1
  <2>3. CASE CreateStores(m)
    <3>1. PICK s \in Snaps :
            /\ \A r \in Snaps : maker[r] = None <=> r >= s
            /\ maker' = [maker EXCEPT ![s] = m]
      BY <2>3 DEF CreateStores
    <3>2. UNCHANGED <<commits, head, merging, remote, index>>
      BY <2>3 DEF CreateStores, shared, git
    <3>3. s \notin All /\ \A n \in Machines : s \notin Listed(index[n])
      <4>1. s >= s
        BY FilesTyped
      <4> QED BY <1>1, <3>1, <4>1 DEF FreshInv, IsListed
    <3>4. \A r \in Published : maker[r] = maker'[r]
      BY <1>2, <3>1, <3>3
    <3>5. \A n \in Machines : \A r \in Heard(n) \cup Listed(index[n]) : maker[r] = maker'[r]
      BY <1>2, <3>1, <3>3
    <3> QED BY <1>1, <1>4, <3>2, <3>4, <3>5 DEF SharedInv, Listed
  <2>4. CASE Saves(m)
    <3>1. /\ UNCHANGED <<maker, commits, head, merging, remote>>
          /\ \A n \in Machines \ {m} : index'[n] = index[n]
          /\ \A s \in Listed(index'[m]) : s \in Listed(index[m]) \/ maker[s] = m
      BY <1>1, <2>4, SavedEntries
    <3> QED BY <1>1, <1>4, <3>1 DEF SharedInv, Listed
  <2>5. CASE PushSends(m)
    <3>1. /\ sync[m] # None /\ sync[m].do = "send" /\ UNCHANGED <<maker, index, commits, head, merging>>
          /\ remote' = remote \/ ((remote = 0 \/ remote \in Past(head[m])) /\ remote' = head[m])
      BY <2>5 DEF PushSends, local, git
    <3>2. CASE remote' = remote
      BY <1>3, <1>4, <3>1, <3>2
    <3>3. CASE (remote = 0 \/ remote \in Past(head[m])) /\ remote' = head[m]
      <4>1. /\ Published \subseteq Published' /\ Published' = Heard(m) /\ Common(m)' = Heard(m)
            /\ \A n \in Machines : Heard(n)' = Heard(n)
            /\ \A n \in Machines \ {m} : Common(n)' = Common(n)
        BY <3>1, <3>3, SendKnown DEF KnownAfterSend
      <4>2. ASSUME NEW s \in Heard(m), maker[s] \in Machines PROVE s \in Common(maker[s])'
        <5>1. CASE maker[s] = m
          BY <3>1, <4>1, <5>1
        <5>2. CASE maker[s] # m
          <6>1. s \in Published
            BY <1>1, <1>2, <5>2 DEF SharedInv
          <6>2. s \in Common(maker[s])
            BY <1>1, <4>2, <6>1 DEF SharedInv
          <6> QED BY <3>1, <4>1, <4>2, <5>2, <6>2
        <5> QED BY <5>1, <5>2
      <4>3. \A n \in Machines : Common(n) \subseteq Common(n)'
        BY <1>2, <4>1
      <4> QED BY <1>1, <3>1, <4>1, <4>2, <4>3 DEF SharedInv, Listed
    <3> QED BY <3>1, <3>2, <3>3
  <2>6. CASE PushCommits(m)
    <3>1. sync[m] # None /\ UNCHANGED <<remote, maker, index>>
      BY <2>6, PushCases DEF local
    <3>2. CASE FailsToCommit(m)
      BY <1>3, <1>4, <3>1, <3>2 DEF FailsToCommit
    <3>3. CASE HasNothingNew(m)
      <4>1. merging' = merging
        BY <3>3 DEF HasNothingNew, PushesOn, ShapeInv
      <4> QED BY <1>3, <1>4, <3>1, <3>3, <4>1 DEF HasNothingNew
    <3>4. CASE CommitsOwn(m)
      <4>1. /\ Published' = Published /\ Heard(m)' = Heard(m) \cup Listed(index[m]) /\ Common(m)' = Common(m)
            /\ \A n \in Machines \ {m} : Heard(n)' = Heard(n) /\ Common(n)' = Common(n)
        BY <3>1, <3>4, OwnKnown DEF KnownAfterOwn, KnownAfterCommit
      <4> QED BY <1>3, <3>1, <4>1
    <3> QED BY <2>6, <3>2, <3>3, <3>4, PushCases
  <2>7. CASE CloneRemote(m) \/ PullForwards(m) \/ PullMerges(m)
    <3>1. PICK b \in 0..Len(commits), i \in Indexes :
            Pulls(m, b, i) /\ (Follows(m, b, i) \/ CommitsMerge(m, b, i) \/ Conflicts(m, b, i))
      BY <2>7, PullSteps DEF PullStep
    <3>2. /\ Published' = Published /\ Common(m)' = Published
          /\ Heard(m)' \subseteq Heard(m) \cup Published \cup Listed(i)
          /\ \A n \in Machines \ {m} : Heard(n)' = Heard(n) /\ Common(n)' = Common(n)
      BY <3>1, PullKnown DEF KnownAfterPull
    <3>3. /\ UNCHANGED maker /\ merging[m] = 0 /\ IsBase(m, b)
          /\ \A n \in Machines \ {m} : index'[n] = index[n]
      BY <1>2, <3>1 DEF Pulls, history
    <3>4. MergedEntries(m, i) /\ PulledEntries(m)
      BY <3>1, MergeEntries, PullEntries
    <3>5. Listed(At(remote).index) \subseteq Published
      BY <3>3, BaseEver
    <3>6. \A s \in Heard(m) : maker[s] # m => s \in Published
      BY <1>1, <1>2 DEF SharedInv
    <3>7. \A s \in Listed(i) \cup Listed(index'[m]) : maker[s] # m => s \in Published
      BY <3>4, <3>5 DEF MergedEntries, PulledEntries
    <3>8. \A s \in Heard(m)' \cup Listed(index'[m]) : maker[s] # m => s \in Common(m)'
      BY <3>2, <3>6, <3>7
    <3>9. \A s \in Published : maker[s] \in Machines => s \in Common(maker[s])'
      <4> TAKE s \in Published
      <4> HAVE maker[s] \in Machines
      <4>1. CASE maker[s] = m
        BY <3>2, <3>3, <4>1
      <4>2. CASE maker[s] # m
        <5>1. s \in Common(maker[s])
          BY <1>1 DEF SharedInv
        <5> QED BY <3>2, <3>3, <4>2, <5>1
      <4> QED BY <4>1, <4>2
    <3>10. \A n \in Machines \ {m} : \A s \in Heard(n)' \cup Listed(index'[n]) : maker[s] # n => s \in Common(n)'
      BY <1>1, <3>2, <3>3 DEF SharedInv
    <3> QED BY <3>2, <3>3, <3>8, <3>9, <3>10 DEF SharedInv, Listed
  <2> QED BY <1>6, <2>1, <2>3, <2>4, <2>5, <2>6, <2>7
<1> QED BY <1>5, <1>6 DEF Next, Saves, OpTurns

\* A commit that is made forgets nothing that its past knew to be gone.
LEMMA GoneInPast ==
    ASSUME ShapeInv, GraphInv, ListInv, NEW m \in Machines, NEW d \in Known(m)
    PROVE  Gone(d) \subseteq GoneHead(m)
<1>1. /\ head[m] \in 0..Len(commits) /\ merging[m] \in 0..Len(commits) /\ Past(0) = {}
      /\ \A c \in 0..Len(commits) : c # 0 => c \in 1..Len(commits)
  BY AtTyped
<1>2. CASE merging[m] = 0
  <2>1. d \in Past(head[m]) /\ GoneHead(m) = Gone(head[m])
    BY <1>2, KnownTyped DEF GoneHead, Gone, Ever, Heard
  <2>2. head[m] \in 1..Len(commits)
    BY <1>1, <2>1
  <2> QED BY <2>1, <2>2 DEF ListInv
<1>3. CASE merging[m] # 0
  <2>1. Past(d) \subseteq Known(m)
    <3>1. CASE d \in Past(head[m])
      BY <1>1, <3>1 DEF GraphInv, Known
    <3>2. CASE d \in Past(merging[m])
      BY <1>1, <3>2 DEF GraphInv, Known
    <3> QED BY <3>1, <3>2 DEF Known
  <2> QED BY <1>3, <2>1 DEF GoneHead, Heard, Gone, Ever, ListedIn
<1> QED BY <1>2, <1>3

LEMMA GoneStep ==
    ASSUME ShapeInv, GraphInv, AloneInv, \A m \in Machines : Tracks(m), KeptInv, ListInv, TaskInv, [Next]_vars
    PROVE  GoneInv'
<1>1. SharedInv /\ FreshInv /\ GoneInv
  BY ListParts
<1>2. /\ index \in [Machines -> Indexes] /\ op \in [Machines -> Ops \cup {None}]
      /\ \A n \in Machines : Listed(index[n]) \subseteq Snaps /\ (index[n] # Conflict => Listed(index[n]) = index[n])
      /\ \A n \in Machines : Heard(n) \subseteq All /\ Common(n) \subseteq Heard(n)
      /\ maker \in [Snaps -> Machines \cup {None}]
  BY WorkTyped, KnownTyped
<1>3. ASSUME UNCHANGED <<commits, head, merging>>,
             \A n \in Machines : \A s \in Heard(n) : s \in Listed(index'[n]) => s \in Listed(index[n])
      PROVE  GoneInv'
  <2>1. \A c : Past(c)' = Past(c) /\ Gone(c)' = Gone(c)
    BY <1>3 DEF At, Past, Gone, Ever, ListedIn, Listed
  <2>2. \A n : Heard(n)' = Heard(n) /\ GoneHead(n)' = GoneHead(n)
    BY <1>3 DEF At, Past, Known, Heard, GoneHead, ListedIn, Listed
  <2>3. \A n \in Machines : GoneAt(n) \subseteq GoneAt(n)'
    BY <1>3, <2>2 DEF GoneAt, Listed
  <2> QED BY <1>1, <1>3, <2>1, <2>2, <2>3 DEF GoneInv
<1>4. CASE UNCHANGED vars
  BY <1>3, <1>4 DEF vars, shared, local, git
<1>5. ASSUME NEW m \in Machines,
             \/ InitRemote(m) \/ CloneRemote(m) \/ CreateStores(m) \/ Saves(m)
             \/ GCRemoves(m) \/ OpTurns(m) \/ PushLists(m) \/ PushCommits(m) \/ PushSends(m)
             \/ PullForwards(m) \/ PullMerges(m)
      PROVE  GoneInv'
  <2>1. CASE InitRemote(m) \/ PushLists(m) \/ GCRemoves(m) \/ OpTurns(m) \/ CreateStores(m) \/ PushSends(m)
    <3>1. UNCHANGED <<commits, head, merging, index>>
      BY <2>1, TaskFacts DEF InitRemote, PushLists, CreateStores, PushSends, shared, local, git
    <3> QED BY <1>3, <3>1
  <2>2. CASE Saves(m)
    <3>1. /\ UNCHANGED <<commits, head, merging>>
          /\ \A n \in Machines \ {m} : index'[n] = index[n]
          /\ \A s \in Listed(index'[m]) : s \in Listed(index[m]) \/ s \notin All
      BY <1>1, <2>2, SavedEntries DEF IsListed
    <3> QED BY <1>2, <1>3, <3>1
  <2>4. CASE PushCommits(m)
    <3>1. sync[m] # None /\ UNCHANGED <<remote, index>>
      BY <2>4, PushCases DEF local
    <3>2. CASE FailsToCommit(m)
      BY <1>3, <3>1, <3>2 DEF FailsToCommit
    <3>3. CASE HasNothingNew(m)
      <4>1. merging' = merging
        BY <3>3 DEF HasNothingNew, PushesOn, ShapeInv
      <4> QED BY <1>3, <3>1, <3>3, <4>1 DEF HasNothingNew
    <3>4. CASE CommitsOwn(m)
      <4>1. PICK new \in 1..Len(commits') : KnownAfterOwn(m, new)
        BY <3>1, <3>4, OwnKnown
      <4>2. /\ \A c \in 0..Len(commits) : Past(c)' = Past(c) /\ Gone(c)' = Gone(c)
            /\ 1..Len(commits') = (1..Len(commits)) \cup {new}
            /\ At(new)'.index = index[m] /\ Past(new)' = Known(m) \cup {new}
            /\ merging'[m] = 0 /\ At(head[m])'.index = index[m]
            /\ Heard(m)' = Heard(m) \cup Listed(index[m]) /\ Ever(new)' = Heard(m) \cup Listed(index[m])
            /\ \A n \in Machines \ {m} : Heard(n)' = Heard(n) /\ GoneHead(n)' = GoneHead(n)
        BY <4>1 DEF KnownAfterOwn, KnownAfterCommit
      <4>3. \A c \in 1..Len(commits) : c \in 0..Len(commits) /\ Past(c) \subseteq 0..Len(commits)
        BY AtTyped
      <4>4. Known(m) \subseteq 0..Len(commits)
        BY <4>3, KnownTyped
      <4>5. Gone(new)' = GoneAt(m)
        BY <4>2 DEF Gone, GoneAt, Listed
      <4>6. \A d \in Known(m) : Gone(d) \subseteq GoneAt(m)
        BY <1>1, GoneInPast DEF GoneInv
      <4>7. \A d \in Known(m) \cup {new} : Gone(d)' \subseteq Gone(new)'
        BY <4>2, <4>4, <4>5, <4>6
      <4>8. \A c \in 1..Len(commits') : \A d \in Past(c)' : Gone(d)' \subseteq Gone(c)'
        BY <1>1, <4>2, <4>3, <4>7 DEF GoneInv
      <4>9. GoneHead(m)' = GoneAt(m)'
        BY <3>1, <4>2 DEF GoneHead, GoneAt, Listed
      <4>10. \A n \in Machines \ {m} : GoneAt(n)' = GoneAt(n)
        BY <3>1, <4>2 DEF GoneAt, Listed
      <4> QED BY <1>1, <4>2, <4>8, <4>9, <4>10 DEF GoneInv
    <3> QED BY <2>4, <3>2, <3>3, <3>4, PushCases
  <2>5. CASE CloneRemote(m) \/ PullForwards(m) \/ PullMerges(m)
    <3>1. PICK b \in 0..Len(commits), i \in Indexes :
            Pulls(m, b, i) /\ (Follows(m, b, i) \/ CommitsMerge(m, b, i) \/ Conflicts(m, b, i))
      BY <2>5, PullSteps DEF PullStep
    <3>2. /\ \A c \in 0..Len(commits) : Past(c)' = Past(c) /\ Gone(c)' = Gone(c)
          /\ Heard(m)' \subseteq Heard(m) \cup Published \cup Listed(i)
          /\ \A n \in Machines \ {m} : Heard(n)' = Heard(n) /\ GoneHead(n)' = GoneHead(n)
      BY <3>1, PullKnown DEF KnownAfterPull
    <3>3. /\ merging[m] = 0 /\ IsBase(m, b) /\ remote # 0
          /\ \A n \in Machines \ {m} : index'[n] = index[n]
      BY <1>2, <3>1 DEF Pulls
    <3>4. /\ \/ /\ merging'[m] = 0 /\ head'[m] # 0 /\ At(head[m])'.index = i
             \/ merging'[m] = remote /\ i = Conflict
          /\ \A c \in 0..Len(commits') : c \notin 0..Len(commits) =>
               /\ At(c)'.index = i /\ Past(c)' = Known(m) \cup Past(remote) \cup {c}
               /\ Ever(c)' = Heard(m) \cup Published \cup Listed(i)
      BY <3>1, PullHead DEF KnownAtHead
    <3>5. /\ Gone(head[m]) \cap Listed(i) = {} /\ Gone(remote) \cap Listed(i) = {}
          /\ \/ index'[m] = index[m] /\ i = At(head[m]).index
             \/ index'[m] = i
      BY <3>1, MergeEntries, PullEntries DEF MergedEntries
    <3>6. /\ GoneHead(m) = Gone(head[m]) /\ Gone(head[m]) \subseteq Heard(m) /\ Gone(remote) \subseteq Published
      BY <3>3, BaseEver DEF Gone, Ever, Published
    <3>7. /\ \A d \in Known(m) : Gone(d) \subseteq Gone(head[m])
          /\ \A d \in Past(remote) : Gone(d) \subseteq Gone(remote)
      <4>1. remote \in 1..Len(commits)
        BY <3>3, AtTyped
      <4> QED BY <1>1, <3>6, <4>1, GoneInPast DEF GoneInv
    <3>8. Known(m) \cup Past(remote) \subseteq 0..Len(commits)
      BY KnownTyped, AtTyped
    <3>9. ASSUME NEW c \in 0..Len(commits'), c \notin 0..Len(commits)
          PROVE  \A d \in Past(c)' : Gone(d)' \subseteq Gone(c)'
      <4>1. Gone(c)' = (Heard(m) \cup Published) \ Listed(i)
        BY <3>4, <3>9 DEF Gone, Listed
      <4>2. \A d \in Known(m) \cup Past(remote) : Gone(d)' \subseteq Gone(c)'
        BY <3>2, <3>5, <3>6, <3>7, <3>8, <4>1
      <4> QED BY <3>4, <3>9, <4>2
    <3>10. ASSUME NEW c \in 1..Len(commits')
           PROVE  \A d \in Past(c)' : Gone(d)' \subseteq Gone(c)'
      <4>1. CASE c \in 0..Len(commits)
        <5>1. c \in 1..Len(commits) /\ Past(c) \subseteq 0..Len(commits)
          BY <3>10, <4>1, AtTyped
        <5> QED BY <1>1, <3>2, <4>1, <5>1 DEF GoneInv
      <4>2. CASE c \notin 0..Len(commits)
        BY <3>9, <3>10, <4>2
      <4> QED BY <4>1, <4>2
    <3>11. \A s \in Listed(index[m]) : s \in Heard(m) \cup Published => s \in Listed(At(head[m]).index) \cap Heard(m)
      <4> SUFFICES ASSUME NEW s \in Listed(index[m]), s \in Heard(m) \cup Published
                   PROVE  s \in Listed(At(head[m]).index) \cap Heard(m)
        OBVIOUS
      <4>1. s \in Common(m) \/ s \in Heard(m)
        BY <1>1 DEF SharedInv
      <4>2. s \in Heard(m)
        BY <1>2, <4>1
      <4>3. s \notin GoneHead(m)
        BY <1>1 DEF GoneInv, GoneAt
      <4> QED BY <3>3, <4>2, <4>3 DEF GoneHead
    <3>12. GoneHead(m)' \subseteq GoneAt(m)'
      <4>1. CASE merging'[m] = 0 /\ At(head[m])'.index = i
        <5>1. GoneHead(m)' = Heard(m)' \ Listed(i)
          BY <4>1 DEF GoneHead, Listed
        <5>2. \A s \in Heard(m)' : s \in Listed(index'[m]) => s \in Listed(i)
          BY <3>2, <3>5, <3>11
        <5> QED BY <5>1, <5>2 DEF GoneAt, Listed
      <4>2. CASE i = Conflict
        <5>1. index'[m] = Conflict
          BY <3>5, <4>2 DEF KeptInv
        <5>2. Listed(index'[m]) = {}
          BY <5>1, ListedTyped
        <5> QED BY <5>2 DEF GoneHead, GoneAt, Listed
      <4> QED BY <3>4, <4>1, <4>2
    <3>13. \A n \in Machines \ {m} : GoneAt(n)' = GoneAt(n)
      BY <3>2, <3>3 DEF GoneAt, Listed
    <3> QED BY <1>1, <3>2, <3>10, <3>12, <3>13 DEF GoneInv
  <2> QED BY <1>5, <2>1, <2>2, <2>4, <2>5
<1> QED BY <1>4, <1>5 DEF Next, Saves, OpTurns

LEMMA ListStep ==
    ASSUME ShapeInv, GraphInv, AloneInv, \A m \in Machines : Tracks(m), KeptInv, ListInv, TaskInv, [Next]_vars
    PROVE  ListInv'
BY FreshStep, SharedStep, GoneStep, ListParts

\* Only here it matters that no pull crosses the Create or GC.
LEMMA TaskStep ==
    ASSUME ShapeInv, GraphInv, AloneInv, \A m \in Machines : Tracks(m), KeptInv, ListInv, TaskInv, [Next]_vars,
           ~crossed'
    PROVE  TaskInv'
<1> DEFINE Task(n) ==
      op[n] # None =>
        /\ op[n].do \in {"save", "load", "prune"} => index[n] = op[n].list
        /\ op[n].do \in {"load", "prune"} => op[n].kept \subseteq op[n].list
        /\ op[n].do \notin {"prune", "sweep"} => op[n].doomed = {}
        /\ op[n].do = "prune" => /\ op[n].doomed \subseteq Snaps \ op[n].kept
                                 /\ op[n].list \ op[n].kept \subseteq op[n].doomed \cup pruned
        /\ op[n].do \in {"mark", "sweep"} => \A s \in Listed(index[n]) : maker[s] = n => s \in op[n].kept
        /\ op[n].do = "sweep" => /\ op[n].doomed \subseteq Objects
                                 /\ \A s \in op[n].kept : op[n].doomed \cap Content[s] = {}
<1> SUFFICES ASSUME NEW n \in Machines PROVE Task(n)'
  BY DEF TaskInv
<1>1. FreshInv /\ Task(n)
  BY ListParts DEF TaskInv
<1>2. /\ index \in [Machines -> Indexes] /\ op \in [Machines -> Ops \cup {None}]
      /\ \A k \in Machines : Listed(index[k]) \subseteq Snaps /\ (index[k] # Conflict => Listed(index[k]) = index[k])
      /\ maker \in [Snaps -> Machines \cup {None}] /\ None \notin Ops
  BY WorkTyped, FilesTyped
<1>3. ASSUME op'[n] = op[n], pruned \subseteq pruned', WillOverwrite(n) => index'[n] = index[n],
             \A s \in Listed(index'[n]) : maker'[s] = n => s \in Listed(index[n]) /\ maker[s] = n
      PROVE  Task(n)'
  BY <1>1, <1>3 DEF WillOverwrite, Listed
<1>4. CASE UNCHANGED vars
  BY <1>3, <1>4 DEF vars, local, history
<1>5. ASSUME NEW m \in Machines,
             \/ InitRemote(m) \/ CloneRemote(m) \/ CreateStores(m) \/ Saves(m)
             \/ GCRemoves(m) \/ OpTurns(m) \/ PushLists(m) \/ PushCommits(m) \/ PushSends(m)
             \/ PullForwards(m) \/ PullMerges(m)
      PROVE  Task(n)'
  <2>1. CASE InitRemote(m) \/ PushLists(m) \/ PushSends(m) \/ PushCommits(m)
    <3>1. UNCHANGED <<maker, index, op, pruned>>
      BY <2>1, PushCases DEF InitRemote, PushLists, PushSends, local, history
    <3> QED BY <1>3, <3>1
  <2>2. CASE OpTurns(m)
    <3>1. UNCHANGED <<maker, index, pruned>> /\ op' = [op EXCEPT ![m] = op'[m]] /\ op'[m] \in Ops \cup {None}
      BY <2>2, TaskFacts, OpTurnFacts
    <3>2. CASE n # m
      BY <1>2, <1>3, <3>1, <3>2
    <3>3. CASE n = m /\ OpStops(m)
      BY <1>2, <3>3 DEF OpStops
    <3>4. CASE n = m /\ CreateLoads(m)
      <4>1. /\ op[n] \in Ops /\ op[n].do = "publish" /\ op[n] # None
            /\ op' = [op EXCEPT ![n] = [@ EXCEPT !.do = "save", !.list = index[n]]]
        BY <1>2, <3>4 DEF CreateLoads, Works
      <4>2. op'[n].do = "save" /\ op'[n].list = index[n] /\ op'[n].doomed = op[n].doomed
        BY <1>2, <4>1 DEF Ops
      <4>3. op[n].doomed = {}
        BY <1>1, <4>1
      <4> QED BY <3>1, <4>2, <4>3
    <3>5. CASE n = m /\ GCLoads(m)
      <4>1. PICK k \in 0..1 :
              op' = [op EXCEPT ![n] = [do |-> "load", snap |-> 0, list |-> index[n],
                       kept |-> {s \in index[n] : Cardinality({r \in index[n] : r > s}) < k}, doomed |-> {}]]
        BY <3>5 DEF GCLoads
      <4>2. op'[n].do = "load" /\ op'[n].list = index[n] /\ op'[n].kept \subseteq index[n] /\ op'[n].doomed = {}
        BY <1>2, <4>1
      <4> QED BY <3>1, <4>2
    <3>6. CASE n = m /\ GCLists(m)
      <4>1. PICK doomed : doomed = ((files[n] \cap Snaps) \ op[n].list) \cup (op[n].list \ op[n].kept)
        OBVIOUS
      <4>2. /\ op[n] \in Ops /\ op[n] # None /\ op[n].do = "load"
            /\ op' = [op EXCEPT ![n] = [@ EXCEPT !.do = "prune", !.doomed = doomed]]
        BY <1>2, <3>6, <4>1 DEF GCLists, Works
      <4>3. /\ op'[n].do = "prune" /\ op'[n].list = op[n].list /\ op'[n].kept = op[n].kept
            /\ op'[n].doomed = doomed
        BY <1>2, <4>2 DEF Ops
      <4>4. index[n] = op[n].list /\ op[n].kept \subseteq op[n].list /\ op[n].list \subseteq Snaps
        BY <1>1, <4>2 DEF Ops
      <4>5. doomed \subseteq Snaps \ op[n].kept /\ op[n].list \ op[n].kept \subseteq doomed
        BY <4>1, <4>4
      <4> QED BY <3>1, <4>3, <4>4, <4>5
    <3>7. CASE n = m /\ GCMarks(m)
      <4>1. PICK doomed : doomed = (files[n] \cap Objects) \ UNION {Content[s] : s \in op[n].kept}
        OBVIOUS
      <4>2. /\ op[n] \in Ops /\ op[n] # None /\ op[n].do = "mark"
            /\ op' = [op EXCEPT ![n] = [@ EXCEPT !.do = "sweep", !.doomed = doomed]]
        BY <1>2, <3>7, <4>1 DEF GCMarks, Works
      <4>3. op'[n].do = "sweep" /\ op'[n].kept = op[n].kept /\ op'[n].doomed = doomed
        BY <1>2, <4>2 DEF Ops
      <4>4. \A s \in Listed(index[n]) : maker[s] = n => s \in op[n].kept
        BY <1>1, <4>2
      <4>5. doomed \subseteq Objects /\ \A s \in op[n].kept : doomed \cap Content[s] = {}
        BY <4>1
      <4> QED BY <3>1, <4>3, <4>4, <4>5 DEF Listed
    <3> QED BY <2>2, <3>2, <3>3, <3>4, <3>5, <3>6, <3>7 DEF OpTurns
  <2>3. CASE GCRemoves(m)
    <3>1. UNCHANGED <<maker, index>>
      BY <2>3, TaskFacts
    <3>2. PICK f \in op[m].doomed :
            /\ op[m] # None /\ op[m] \in Ops /\ pruned' = pruned \cup ({f} \cap op[m].list)
            /\ op' = [op EXCEPT ![m] = [op[m] EXCEPT !.doomed = op[m].doomed \ {f}]]
      BY <2>3, RemoveFacts
    <3>3. CASE n # m
      BY <1>2, <1>3, <3>1, <3>2, <3>3
    <3>4. CASE n = m
      <4>1. /\ op'[n].do = op[n].do /\ op'[n].list = op[n].list /\ op'[n].kept = op[n].kept
            /\ op'[n].doomed = op[n].doomed \ {f}
        BY <1>2, <3>2, <3>4 DEF Ops
      <4>2. op[n].list \ op[n].kept \subseteq op[n].doomed \cup pruned =>
              op[n].list \ op[n].kept \subseteq (op[n].doomed \ {f}) \cup pruned'
        BY <3>2, <3>4
      <4> QED BY <1>1, <3>1, <3>2, <3>4, <4>1, <4>2 DEF Listed
    <3> QED BY <3>3, <3>4
  <2>4. CASE Saves(m)
    <3>1. UNCHANGED <<maker, pruned>> /\ op \in [Machines -> Ops \cup {None}] /\ op[m] # None
      BY <1>2, <2>4, TaskFacts, CleanSaves
    <3>2. CASE n # m
      <4>1. index'[n] = index[n]
        BY <1>1, <2>4, <3>2, SavedEntries
      <4>2. op'[n] = op[n]
        BY <1>2, <2>4, <3>2, SaveFacts
      <4> QED BY <1>3, <3>1, <4>1, <4>2
    <3>3. CASE n = m /\ op[m].do = "save"
      BY <1>2, <2>4, <3>3, CleanSaves
    <3>4. CASE n = m /\ op[m].do = "prune"
      <4>1. /\ op[n].kept \subseteq index[n] /\ index[n] # Conflict /\ op[n] \in Ops
            /\ index' = [index EXCEPT ![n] = op[n].kept] /\ op' = [op EXCEPT ![n] = [@ EXCEPT !.do = "mark"]]
        BY <1>2, <2>4, <3>1, <3>4, CleanSaves
      <4>2. op'[n].do = "mark" /\ op'[n].kept = op[n].kept /\ op'[n].doomed = op[n].doomed
        BY <1>2, <4>1 DEF Ops
      <4>3. op[n].doomed = {}
        BY <2>4, <3>4, SaveFacts
      <4>4. Listed(index'[n]) = op[n].kept
        BY <1>2, <4>1, ListedTyped
      <4> QED BY <4>2, <4>3, <4>4 DEF Listed
    <3> QED BY <2>4, <3>2, <3>3, <3>4, SaveFacts
  <2>5. CASE CreateStores(m)
    <3>1. PICK s \in Snaps :
            /\ \A r \in Snaps : maker[r] = None <=> r >= s
            /\ maker' = [maker EXCEPT ![s] = m]
            /\ op' = [op EXCEPT ![m] = [do |-> "publish", snap |-> s, list |-> {}, kept |-> {}, doomed |-> {}]]
      BY <2>5 DEF CreateStores
    <3>2. UNCHANGED <<index, pruned>>
      BY <2>5 DEF CreateStores
    <3>3. s \notin Listed(index[n])
      <4>1. s >= s
        BY FilesTyped
      <4> QED BY <1>1, <3>1, <4>1, FreshFacts DEF IsListed
    <3>4. \A r \in Listed(index[n]) : maker'[r] = maker[r]
      BY <1>2, <3>1, <3>3
    <3>5. CASE n = m
      BY <1>2, <3>1, <3>5
    <3>6. CASE n # m
      <4>1. op'[n] = op[n]
        BY <1>2, <3>1, <3>6
      <4> QED BY <1>3, <3>2, <3>4, <4>1
    <3> QED BY <3>5, <3>6
  <2>6. CASE CloneRemote(m) \/ PullForwards(m) \/ PullMerges(m)
    <3>1. PICK b \in 0..Len(commits), i \in Indexes :
            Pulls(m, b, i) /\ (Follows(m, b, i) \/ CommitsMerge(m, b, i) \/ Conflicts(m, b, i))
      BY <2>6, PullSteps DEF PullStep
    <3>2. UNCHANGED <<maker, op, pruned>> /\ \A k \in Machines \ {m} : index'[k] = index[k]
      BY <1>2, <3>1 DEF Pulls
    <3>3. \A s \in Listed(index'[m]) : maker[s] = m => s \in Listed(index[m])
      BY <3>1, PullEntries DEF PulledEntries
    <3>4. WillOverwrite(m) => index'[m] = index[m]
      BY <3>1, CleanPulls
    <3> QED BY <1>3, <3>2, <3>3, <3>4
  <2> QED BY <1>5, <2>1, <2>2, <2>3, <2>4, <2>5, <2>6
<1> QED BY <1>4, <1>5 DEF Next, Saves, OpTurns

-----------------------------------------------------------------------------
(* What is tracked and where it went.                                      *)

Nowhere(s) ==
  /\ \A m \in Machines : s \notin files[m] /\ s \notin tracked[m]
  /\ \A m \in Machines : sync[m] # None => s \notin sync[m].new /\ s \notin sync[m].seen
  /\ \A c \in 1..Len(commits) : s \notin At(c).files

UnmadeInv == \A s \in Snaps : maker[s] = None => Nowhere(s)

LostInv ==
  \A m \in Machines : \A f \in (tracked[m] \ files[m]) \cap Foreign(m) : f \in swept[m] \cup GoneAt(m)

DroppedInv ==
  \A m \in Machines : \A b \in 0..Len(commits) : IsBase(m, b) =>
    \A f \in (At(b).files \ tracked[m]) \cap Foreign(m) : f \in swept[m] \cup GoneHead(m)

LEMMA TrackParts ==
    /\ TrackInv <=> (\A m \in Machines : Tracks(m)) /\ UnmadeInv /\ LostInv /\ DroppedInv
    /\ TrackInv' <=> (\A m \in Machines : Tracks(m))' /\ UnmadeInv' /\ LostInv' /\ DroppedInv'
<1>1. TrackInv <=> (\A m \in Machines : Tracks(m)) /\ UnmadeInv /\ LostInv /\ DroppedInv
  BY DEF TrackInv, Tracks, UnmadeInv, Nowhere, LostInv, DroppedInv
<1> QED BY <1>1, PTL

LEMMA TrackInit == Init => TrackInv
<1> SUFFICES ASSUME Init PROVE TrackInv
  OBVIOUS
<1>1. ShapeInv /\ Len(commits) = 0 /\ \A m \in Machines : Tracks(m)
  BY ShapeInit, AloneInit DEF Init
<1>2. \A m \in Machines : /\ files[m] = {Identity} /\ tracked[m] = {} /\ sync[m] = None
  BY DEF Init
<1>3. At(0).files = {}
  BY <1>1, AtTyped
<1>4. UnmadeInv
  <2>1. \A s \in Snaps : s # Identity
    BY FilesTyped
  <2>2. 1..Len(commits) = {}
    BY <1>1
  <2> QED BY <1>2, <2>1, <2>2 DEF UnmadeInv, Nowhere
<1>5. LostInv /\ DroppedInv
  BY <1>1, <1>2, <1>3 DEF LostInv, DroppedInv
<1> QED BY <1>1, <1>4, <1>5, TrackParts

LEMMA UnmadeStep ==
    ASSUME ShapeInv, GraphInv, AloneInv, \A m \in Machines : Tracks(m), ListInv, UnmadeInv, [Next]_vars
    PROVE  UnmadeInv'
<1>1. /\ files \in [Machines -> SUBSET Files] /\ tracked \in [Machines -> SUBSET Files]
      /\ sync \in [Machines -> Syncs \cup {None}] /\ maker \in [Snaps -> Machines \cup {None}]
      /\ Len(commits) \in Nat
      /\ \A c \in 0..Len(commits) : c # 0 => c \in 1..Len(commits)
      /\ \A c \in 1..Len(commits) : c \in 0..Len(commits)
      /\ remote \in 0..Len(commits)
  BY AtTyped DEF ShapeInv, TypeOK
<1>2. FreshInv
  BY ListParts
<1>3. CASE UNCHANGED vars
  <2>1. UNCHANGED <<maker, files, tracked, sync, commits>>
    BY <1>3 DEF vars, local, git, shared, history
  <2>2. \A s : Nowhere(s)' <=> Nowhere(s)
    BY <2>1 DEF Nowhere, At
  <2> QED BY <2>1, <2>2 DEF UnmadeInv
<1>4. ASSUME NEW m \in Machines,
             \/ InitRemote(m) \/ CloneRemote(m) \/ CreateStores(m) \/ Saves(m)
             \/ GCRemoves(m) \/ OpTurns(m) \/ PushLists(m) \/ PushCommits(m) \/ PushSends(m)
             \/ PullForwards(m) \/ PullMerges(m),
             NEW s \in Snaps, maker'[s] = None
      PROVE  Nowhere(s)'
  <2>1. maker[s] = None
    <3>1. CASE CreateStores(m)
      <4>1. PICK r \in Snaps : maker' = [maker EXCEPT ![r] = m]
        BY <3>1 DEF CreateStores
      <4> QED BY <1>1, <1>4, <4>1, FilesTyped
    <3>2. CASE CloneRemote(m) \/ PullForwards(m) \/ PullMerges(m)
      BY <1>4, <3>2 DEF CloneRemote, PullForwards, PullMerges, history
    <3>3. CASE PushCommits(m)
      BY <1>4, <3>3, PushCases
    <3>4. CASE \/ InitRemote(m) \/ Saves(m) \/ GCRemoves(m) \/ OpTurns(m)
               \/ PushLists(m) \/ PushSends(m)
      BY <1>4, <3>4, TaskFacts DEF InitRemote, PushLists, PushSends, history
    <3> QED BY <1>4, <3>1, <3>2, <3>3, <3>4
  <2>2. /\ \A n \in Machines : s \notin files[n] /\ s \notin tracked[n]
        /\ \A n \in Machines : sync[n] # None => s \notin sync[n].new /\ s \notin sync[n].seen
        /\ \A c \in 1..Len(commits) : s \notin At(c).files
        /\ \A n \in Machines : s \notin Listed(index[n])
    BY <1>2, <2>1, FreshFacts DEF UnmadeInv, Nowhere, IsListed
  <2>3. s # Ignore /\ s \notin Objects
    BY FilesTyped
  <2>4. ASSUME UNCHANGED <<tracked, sync, commits>>, \A n \in Machines : s \notin files'[n]
        PROVE  Nowhere(s)'
    BY <2>2, <2>4 DEF Nowhere, At
  <2>5. CASE InitRemote(m)
    <3>1. \A n \in Machines : files'[n] \subseteq files[n] \cup {Ignore}
      BY <1>1, <2>5 DEF InitRemote
    <3>2. UNCHANGED <<tracked, sync, commits>>
      BY <2>5 DEF InitRemote, shared
    <3> QED BY <2>2, <2>3, <2>4, <3>1, <3>2
  <2>6. CASE CreateStores(m)
    <3>1. PICK r \in Snaps :
            /\ \A q \in Snaps : maker[q] = None <=> q >= r
            /\ maker' = [maker EXCEPT ![r] = m]
            /\ files' = [files EXCEPT ![m] = @ \cup {r} \cup Content[r]]
      BY <2>6 DEF CreateStores
    <3>2. r # s /\ Content[r] \subseteq Objects
      BY <1>1, <1>4, <3>1, FilesTyped
    <3>3. \A n \in Machines : s \notin files'[n]
      BY <1>1, <2>2, <2>3, <3>1, <3>2
    <3>4. UNCHANGED <<tracked, sync, commits>>
      BY <2>6 DEF CreateStores, shared, git
    <3> QED BY <2>4, <3>3, <3>4
  <2>7. CASE PushSends(m)
    <3>1. UNCHANGED <<tracked, files, commits>> /\ (sync' = sync \/ sync' = [sync EXCEPT ![m] = None])
      BY <2>7 DEF PushSends, git, local
    <3>2. \A n \in Machines : sync'[n] = sync[n] \/ sync'[n] = None
      BY <1>1, <3>1
    <3> QED BY <2>2, <3>1, <3>2 DEF Nowhere, At
  <2>8. CASE Saves(m) \/ GCRemoves(m) \/ OpTurns(m)
    <3>1. UNCHANGED <<tracked, sync, commits>> /\ \A n \in Machines : files'[n] \subseteq files[n]
      BY <2>8, TaskFacts, RemovesOne
    <3> QED BY <2>2, <2>4, <3>1
  <2>10. CASE PushLists(m)
    <3>1. /\ UNCHANGED <<tracked, files, commits>>
          /\ sync' = [sync EXCEPT ![m] = [do |-> "add", new |-> (files[m] \ tracked[m]) \ Ignored(m),
                                          seen |-> Listed(index[m])]]
      BY <2>10 DEF PushLists, shared, git, local
    <3>2. s \notin sync'[m].new /\ s \notin sync'[m].seen
      BY <1>1, <2>2, <3>1
    <3>3. \A n \in Machines \ {m} : sync'[n] = sync[n]
      BY <1>1, <3>1
    <3> QED BY <2>2, <3>1, <3>2, <3>3 DEF Nowhere, At
  <2>11. CASE PushCommits(m)
    <3>1. sync[m] # None /\ UNCHANGED <<remote, files>>
      BY <2>11, PushCases DEF local
    <3>2. CASE FailsToCommit(m)
      <4>1. \A n \in Machines : sync'[n] = sync[n] \/ sync'[n] = None
        BY <1>1, <3>2 DEF FailsToCommit
      <4> QED BY <2>2, <3>1, <3>2, <4>1 DEF Nowhere, At, FailsToCommit
    <3>3. ASSUME PushesOn(m)
          PROVE  /\ \A n \in Machines : s \notin tracked'[n]
                 /\ \A n \in Machines : sync'[n] # None => s \notin sync'[n].new /\ s \notin sync'[n].seen
      <4>1. sync[m] \in Syncs /\ sync'[m].new = sync[m].new /\ sync'[m].seen = sync[m].seen
        BY <1>1, <3>1, <3>3 DEF PushesOn, Syncs
      <4>2. \A n \in Machines \ {m} : sync'[n] = sync[n] /\ tracked'[n] = tracked[n]
        BY <1>1, <3>3 DEF PushesOn
      <4>3. s \notin tracked'[m]
        BY <1>1, <2>2, <3>1, <3>3 DEF PushesOn, Staged
      <4> QED BY <2>2, <3>1, <4>1, <4>2, <4>3
    <3>4. CASE HasNothingNew(m)
      BY <2>2, <3>1, <3>3, <3>4 DEF HasNothingNew, Nowhere, At
    <3>5. CASE CommitsOwn(m)
      <4>1. PICK new \in 1..Len(commits') : KnownAfterOwn(m, new)
        BY <3>1, <3>5, OwnKnown
      <4>2. /\ \A c \in 0..Len(commits) : At(c)' = At(c)
            /\ 1..Len(commits') = (1..Len(commits)) \cup {new} /\ At(new)'.files = Staged(m)
        BY <4>1 DEF KnownAfterOwn, KnownAfterCommit
      <4>3. s \notin Staged(m)
        BY <2>2, <3>1 DEF Staged
      <4>4. \A c \in 1..Len(commits') : s \notin At(c)'.files
        BY <1>1, <2>2, <4>2, <4>3
      <4> QED BY <2>2, <3>1, <3>3, <3>5, <4>4 DEF CommitsOwn, Nowhere
    <3> QED BY <2>11, <3>2, <3>4, <3>5, PushCases
  <2>12. CASE CloneRemote(m) \/ PullForwards(m) \/ PullMerges(m)
    <3>1. PICK b \in 0..Len(commits), i \in Indexes :
            Pulls(m, b, i) /\ (Follows(m, b, i) \/ CommitsMerge(m, b, i) \/ Conflicts(m, b, i))
      BY <2>12, PullSteps DEF PullStep
    <3>2. \A c \in 0..Len(commits) : At(c)' = At(c)
      BY <3>1, PullKnown DEF KnownAfterPull
    <3>3. \A c \in 0..Len(commits') : c \notin 0..Len(commits) => At(c)'.files = Pulled(m, b, tracked[m])
      BY <3>1, PullHead DEF KnownAtHead
    <3>4. s \notin Pulled(m, b, tracked[m]) /\ s \notin Pulled(m, b, files[m])
      <4>1. s \notin At(remote).files
        BY <1>1, <2>2, <3>1 DEF Pulls
      <4> QED BY <2>2, <4>1 DEF Pulled, Merged
    <3>5. \A n \in Machines : s \notin files'[n] /\ s \notin tracked'[n]
      BY <1>1, <2>2, <3>1, <3>4 DEF Pulls
    <3>6. \A c \in 1..Len(commits') : s \notin At(c)'.files
      <4> TAKE c \in 1..Len(commits')
      <4>1. CASE c \in 0..Len(commits)
        BY <1>1, <2>2, <3>2, <4>1
      <4>2. CASE c \notin 0..Len(commits)
        BY <3>3, <3>4, <4>2
      <4> QED BY <4>1, <4>2
    <3> QED BY <2>2, <3>1, <3>5, <3>6 DEF Pulls, Nowhere
  <2> QED BY <1>4, <2>5, <2>6, <2>7, <2>8, <2>10, <2>11, <2>12
<1> QED BY <1>3, <1>4 DEF Next, UnmadeInv, Saves, OpTurns

LEMMA LostStep ==
    ASSUME ShapeInv, GraphInv, AloneInv, \A m \in Machines : Tracks(m), KeptInv, ListInv, TaskInv, LostInv, [Next]_vars
    PROVE  LostInv'
<1>1. /\ files \in [Machines -> SUBSET Files] /\ tracked \in [Machines -> SUBSET Files]
      /\ swept \in [Machines -> SUBSET Files]
      /\ index \in [Machines -> Indexes] /\ op \in [Machines -> Ops \cup {None}]
      /\ maker \in [Snaps -> Machines \cup {None}]
      /\ \A n \in Machines : Listed(index[n]) \subseteq Snaps /\ (index[n] # Conflict => Listed(index[n]) = index[n])
      /\ \A n \in Machines : Heard(n) \subseteq All /\ Common(n) \subseteq Heard(n)
  BY WorkTyped, KnownTyped DEF ShapeInv, TypeOK
<1>2. SharedInv /\ FreshInv
  BY ListParts
<1>3. ASSUME \A n \in Machines : Foreign(n)' \subseteq Foreign(n),
             \A n \in Machines : \A f \in (tracked'[n] \ files'[n]) \cap Foreign(n) :
               \/ f \in (tracked[n] \ files[n]) /\ swept[n] \subseteq swept'[n] /\ GoneAt(n) \subseteq GoneAt(n)'
               \/ f \in swept'[n] \cup GoneAt(n)'
      PROVE  LostInv'
  <2> SUFFICES ASSUME NEW n \in Machines, NEW f, f \in tracked'[n], f \notin files'[n], f \in Foreign(n)'
               PROVE  f \in swept'[n] \cup GoneAt(n)'
    BY DEF LostInv
  <2>1. f \in Foreign(n)
    BY <1>3
  <2> QED BY <1>3, <2>1 DEF LostInv
<1>4. ASSUME maker' = maker PROVE \A n \in Machines : Foreign(n)' \subseteq Foreign(n)
  BY <1>4 DEF Foreign
<1>5. ASSUME UNCHANGED <<commits, head, merging>> PROVE \A n : Heard(n)' = Heard(n)
  BY <1>5 DEF At, Past, Known, Heard, ListedIn, Listed
<1>6. ASSUME UNCHANGED <<commits, head, merging, index>> PROVE \A n : GoneAt(n)' = GoneAt(n)
  BY <1>5, <1>6 DEF GoneAt, Listed
<1>7. CASE UNCHANGED vars
  BY <1>3, <1>4, <1>6, <1>7 DEF vars, local, git, shared, history
<1>8. ASSUME NEW m \in Machines,
             \/ InitRemote(m) \/ CloneRemote(m) \/ CreateStores(m) \/ Saves(m)
             \/ GCRemoves(m) \/ OpTurns(m) \/ PushLists(m) \/ PushCommits(m) \/ PushSends(m)
             \/ PullForwards(m) \/ PullMerges(m)
      PROVE  LostInv'
  <2>1. CASE InitRemote(m) \/ PushLists(m) \/ PushSends(m)
    <3>1. UNCHANGED <<maker, tracked, swept, commits, head, merging, index>>
      BY <2>1 DEF InitRemote, PushLists, PushSends, local, git, shared, history
    <3>2. \A n \in Machines : files[n] \subseteq files'[n]
      BY <1>1, <2>1 DEF InitRemote, PushLists, PushSends, local
    <3> QED BY <1>3, <1>4, <1>6, <3>1, <3>2
  <2>2. CASE CreateStores(m)
    <3>1. PICK s \in Snaps :
            /\ \A r \in Snaps : maker[r] = None <=> r >= s
            /\ maker' = [maker EXCEPT ![s] = m]
            /\ files' = [files EXCEPT ![m] = @ \cup {s} \cup Content[s]]
      BY <2>2 DEF CreateStores
    <3>2. UNCHANGED <<tracked, swept, commits, head, merging, index>>
      BY <2>2 DEF CreateStores, shared, git
    <3>3. \A n \in Machines : files[n] \subseteq files'[n]
      BY <1>1, <3>1
    <3>4. maker[s] = None
      <4>1. s >= s
        BY FilesTyped
      <4> QED BY <3>1, <4>1
    <3>5. \A n \in Machines : \A r \in Snaps : maker'[r] # n => maker[r] # n
      BY <1>1, <3>1, <3>4, FilesTyped
    <3>6. \A n \in Machines : Foreign(n)' \subseteq Foreign(n)
      BY <3>5 DEF Foreign
    <3> QED BY <1>3, <1>6, <3>2, <3>3, <3>6
  <2>3. CASE Saves(m)
    <3>1. UNCHANGED <<files, maker, tracked, swept, commits, head, merging>>
      BY <2>3, TaskFacts
    <3>2. /\ \A n \in Machines \ {m} : index'[n] = index[n]
          /\ \A s \in Listed(index'[m]) : s \in Listed(index[m]) \/ s \notin All
      BY <1>2, <2>3, SavedEntries DEF IsListed
    <3>3. \A n \in Machines : Heard(n)' = Heard(n)
      BY <1>5, <3>1
    <3>4. \A n \in Machines : GoneAt(n) \subseteq GoneAt(n)'
      BY <1>1, <3>2, <3>3 DEF GoneAt, Listed
    <3> QED BY <1>3, <1>4, <3>1, <3>4
  <2>4. CASE OpTurns(m)
    <3>1. UNCHANGED <<files, maker, tracked, swept, commits, head, merging, index>>
      BY <2>4, TaskFacts
    <3> QED BY <1>3, <1>4, <1>6, <3>1
  <2>5. CASE GCRemoves(m)
    <3>1. UNCHANGED <<maker, tracked, commits, head, merging, index>>
      BY <2>5, TaskFacts
    <3>2. \A n \in Machines : /\ swept[n] \subseteq swept'[n]
                              /\ \A f \in files[n] : f \in files'[n] \/ f \in swept'[n]
      BY <2>5, RemovesOne
    <3> QED BY <1>3, <1>4, <1>6, <3>1, <3>2
  <2>6. CASE PushCommits(m)
    <3>1. sync[m] # None /\ UNCHANGED <<remote, index, files, swept, maker>>
      BY <2>6, PushCases DEF local
    <3>2. CASE FailsToCommit(m)
      BY <1>3, <1>4, <1>6, <3>1, <3>2 DEF FailsToCommit
    <3>3. CASE PushesOn(m) /\ \A n \in Machines \ {m} : GoneAt(n)' = GoneAt(n)
      <4>1. tracked'[m] \subseteq files[m] /\ \A n \in Machines \ {m} : tracked'[n] = tracked[n]
        BY <1>1, <3>3 DEF PushesOn, Staged
      <4> QED BY <1>3, <1>4, <3>1, <3>3, <4>1
    <3>4. CASE HasNothingNew(m)
      <4>1. merging' = merging
        BY <3>4 DEF HasNothingNew, PushesOn, ShapeInv
      <4> QED BY <1>6, <3>1, <3>3, <3>4, <4>1 DEF HasNothingNew
    <3>5. CASE CommitsOwn(m)
      <4>1. \A n \in Machines \ {m} : Heard(n)' = Heard(n)
        BY <3>1, <3>5, OwnKnown DEF KnownAfterOwn, KnownAfterCommit
      <4>2. \A n \in Machines \ {m} : GoneAt(n)' = GoneAt(n)
        BY <3>1, <4>1 DEF GoneAt, Listed
      <4> QED BY <3>3, <3>5, <4>2 DEF CommitsOwn
    <3> QED BY <2>6, <3>2, <3>4, <3>5, PushCases
  <2>7. CASE CloneRemote(m) \/ PullForwards(m) \/ PullMerges(m)
    <3>1. PICK b \in 0..Len(commits), i \in Indexes :
            Pulls(m, b, i) /\ (Follows(m, b, i) \/ CommitsMerge(m, b, i) \/ Conflicts(m, b, i))
      BY <2>7, PullSteps DEF PullStep
    <3>2. Heard(m) \subseteq Heard(m)' /\ \A n \in Machines \ {m} : Heard(n)' = Heard(n)
      BY <3>1, PullKnown DEF KnownAfterPull
    <3>3. /\ UNCHANGED <<maker, swept>>
          /\ files'[m] = Pulled(m, b, files[m]) /\ tracked'[m] = Pulled(m, b, tracked[m])
          /\ \A n \in Machines \ {m} : index'[n] = index[n] /\ files'[n] = files[n] /\ tracked'[n] = tracked[n]
      BY <1>1, <3>1 DEF Pulls, history
    <3>4. GoneAt(m) \cap Listed(index'[m]) = {}
      BY <3>1, PullEntries DEF PulledEntries
    <3>5. GoneAt(m) \subseteq GoneAt(m)'
      BY <3>2, <3>4 DEF GoneAt, Listed
    <3>6. \A n \in Machines \ {m} : GoneAt(n)' = GoneAt(n)
      BY <3>2, <3>3 DEF GoneAt, Listed
    <3>7. tracked'[m] \ files'[m] \subseteq tracked[m] \ files[m]
      BY <3>3 DEF Pulled, Merged
    <3> QED BY <1>3, <1>4, <3>3, <3>5, <3>6, <3>7
  <2> QED BY <1>8, <2>1, <2>2, <2>3, <2>4, <2>5, <2>6, <2>7
<1> QED BY <1>7, <1>8 DEF Next, Saves, OpTurns

LEMMA ForeignShrinks ==
    ASSUME ShapeInv, NEW m \in Machines, NEW s \in Snaps, maker[s] = None, maker' = [maker EXCEPT ![s] = m]
    PROVE  \A n \in Machines : Foreign(n)' \subseteq Foreign(n)
<1>1. \A n \in Machines : \A r \in Snaps : maker'[r] # n => maker[r] # n
  BY FilesTyped DEF ShapeInv
<1> QED BY <1>1 DEF Foreign

LEMMA DroppedStep ==
    ASSUME ShapeInv, GraphInv, AloneInv, \A m \in Machines : Tracks(m), KeptInv, ListInv,
           LostInv, DroppedInv, [Next]_vars
    PROVE  DroppedInv'
<1>1. /\ files \in [Machines -> SUBSET Files] /\ tracked \in [Machines -> SUBSET Files]
      /\ swept \in [Machines -> SUBSET Files]
      /\ \A c \in 0..Len(commits) : At(c).files \subseteq Files
      /\ remote \in 0..Len(commits)
  BY AtTyped DEF ShapeInv, TypeOK
<1>2. GoneInv
  BY ListParts
<1>3. ASSUME \A n \in Machines : Foreign(n)' \subseteq Foreign(n), NEW n \in Machines,
             \A c \in 0..Len(commits') : IsBase(n, c)' =>
               /\ c \in 0..Len(commits) /\ IsBase(n, c) /\ At(c)' = At(c)
               /\ \A f \in (At(c).files \ tracked'[n]) \cap Foreign(n) :
                    \/ /\ f \notin tracked[n] /\ swept[n] \subseteq swept'[n] /\ GoneHead(n) \subseteq GoneHead(n)'
                    \/ f \in swept'[n] \cup GoneHead(n)'
      PROVE  \A c \in 0..Len(commits') : IsBase(n, c)' =>
               \A f \in (At(c)'.files \ tracked'[n]) \cap Foreign(n)' : f \in swept'[n] \cup GoneHead(n)'
  <2> SUFFICES ASSUME NEW c \in 0..Len(commits'), IsBase(n, c)',
                      NEW f, f \in At(c)'.files, f \notin tracked'[n], f \in Foreign(n)'
               PROVE  f \in swept'[n] \cup GoneHead(n)'
    OBVIOUS
  <2>1. f \in Foreign(n) /\ c \in 0..Len(commits) /\ IsBase(n, c) /\ f \in At(c).files
    BY <1>3
  <2> QED BY <1>3, <2>1 DEF DroppedInv
<1>4. ASSUME maker' = maker PROVE \A n \in Machines : Foreign(n)' \subseteq Foreign(n)
  BY <1>4 DEF Foreign
<1>5. ASSUME UNCHANGED <<commits, head, merging, remote, tracked>>,
             \A n \in Machines : swept[n] \subseteq swept'[n] /\ Foreign(n)' \subseteq Foreign(n)
      PROVE  DroppedInv'
  <2>1. /\ (\A c : At(c)' = At(c)) /\ \A n, c : IsBase(n, c)' <=> IsBase(n, c)
        /\ \A n : GoneHead(n)' = GoneHead(n)
    BY <1>5, SameKnown
  <2>2. ASSUME NEW n \in Machines
        PROVE  \A c \in 0..Len(commits') : IsBase(n, c)' =>
                 \A f \in (At(c)'.files \ tracked'[n]) \cap Foreign(n)' : f \in swept'[n] \cup GoneHead(n)'
    BY <1>3, <1>5, <2>1
  <2> QED BY <2>2 DEF DroppedInv
<1>6. CASE UNCHANGED vars
  BY <1>4, <1>5, <1>6 DEF vars, git, shared, history
<1>7. ASSUME NEW m \in Machines,
             \/ InitRemote(m) \/ CloneRemote(m) \/ CreateStores(m) \/ Saves(m)
             \/ GCRemoves(m) \/ OpTurns(m) \/ PushLists(m) \/ PushCommits(m) \/ PushSends(m)
             \/ PullForwards(m) \/ PullMerges(m)
      PROVE  DroppedInv'
  <2>1. CASE InitRemote(m) \/ PushLists(m) \/ Saves(m) \/ OpTurns(m)
    <3>1. UNCHANGED <<maker, tracked, swept, commits, head, merging, remote>>
      BY <2>1, TaskFacts DEF InitRemote, PushLists, git, shared, history
    <3> QED BY <1>4, <1>5, <3>1
  <2>2. CASE CreateStores(m)
    <3>1. PICK s \in Snaps :
            /\ \A r \in Snaps : maker[r] = None <=> r >= s
            /\ maker' = [maker EXCEPT ![s] = m]
      BY <2>2 DEF CreateStores
    <3>2. UNCHANGED <<tracked, swept, commits, head, merging, remote>>
      BY <2>2 DEF CreateStores, shared, git
    <3>3. maker[s] = None
      <4>1. s >= s
        BY FilesTyped
      <4> QED BY <3>1, <4>1
    <3> QED BY <1>5, <3>1, <3>2, <3>3, ForeignShrinks
  <2>3. CASE GCRemoves(m)
    <3>1. UNCHANGED <<maker, tracked, commits, head, merging, remote>>
      BY <2>3, TaskFacts
    <3>2. \A n \in Machines : swept[n] \subseteq swept'[n]
      BY <2>3, RemovesOne
    <3> QED BY <1>4, <1>5, <3>1, <3>2
  <2>4. CASE PushSends(m)
    <3>1. /\ sync[m] # None /\ sync[m].do = "send"
          /\ UNCHANGED <<maker, swept, tracked, commits, head, merging>>
          /\ remote' = remote \/ ((remote = 0 \/ remote \in Past(head[m])) /\ remote' = head[m])
      BY <2>4 DEF PushSends, git
    <3>2. CASE remote' = remote
      BY <1>4, <1>5, <3>1, <3>2
    <3>3. CASE (remote = 0 \/ remote \in Past(head[m])) /\ remote' = head[m]
      <4>1. /\ \A c : At(c)' = At(c)
            /\ \A n \in Machines : GoneHead(n)' = GoneHead(n)
            /\ \A n \in Machines \ {m} : \A c \in 0..Len(commits) : IsBase(n, c)' <=> IsBase(n, c)
            /\ \A c \in 0..Len(commits) : IsBase(m, c)' => c = head[m]
        BY <3>1, <3>3, SendKnown DEF KnownAfterSend
      <4>2. tracked[m] = At(head[m]).files
        BY <3>1 DEF GraphInv, Tracks
      <4>3. ASSUME NEW n \in Machines
            PROVE  \A c \in 0..Len(commits') : IsBase(n, c)' =>
                     \A f \in (At(c)'.files \ tracked'[n]) \cap Foreign(n)' : f \in swept'[n] \cup GoneHead(n)'
        <5>1. CASE n = m
          BY <3>1, <4>1, <4>2, <5>1
        <5>2. CASE n # m
          BY <1>3, <1>4, <3>1, <4>1, <5>2
        <5> QED BY <5>1, <5>2
      <4> QED BY <4>3 DEF DroppedInv
    <3> QED BY <3>1, <3>2, <3>3
  <2>5. CASE PushCommits(m)
    <3>1. sync[m] # None /\ UNCHANGED <<remote, index, files, swept, maker>>
      BY <2>5, PushCases DEF local
    <3>2. CASE FailsToCommit(m)
      BY <1>4, <1>5, <3>1, <3>2 DEF FailsToCommit
    <3>3. CASE HasNothingNew(m)
      <4>1. merging' = merging
        BY <3>3 DEF HasNothingNew, PushesOn, ShapeInv
      <4>2. tracked[m] = Staged(m) /\ tracked' = [tracked EXCEPT ![m] = Staged(m)]
        BY <3>3 DEF HasNothingNew, PushesOn, Tracks
      <4>3. tracked' = tracked
        BY <1>1, <4>2
      <4> QED BY <1>4, <1>5, <3>1, <3>3, <4>1, <4>3 DEF HasNothingNew
    <3>4. CASE CommitsOwn(m)
      <4>1. /\ \A n \in Machines : \A c \in 0..Len(commits') : IsBase(n, c)' => c \in 0..Len(commits) /\ IsBase(n, c)
            /\ \A c \in 0..Len(commits) : At(c)' = At(c)
            /\ \A n \in Machines \ {m} : GoneHead(n)' = GoneHead(n)
            /\ merging'[m] = 0 /\ At(head[m])'.index = index[m] /\ Heard(m)' = Heard(m) \cup Listed(index[m])
        BY <3>1, <3>4, OwnKnown DEF KnownAfterOwn, KnownAfterCommit
      <4>2. GoneHead(m)' = GoneAt(m) /\ GoneHead(m) \subseteq GoneAt(m)
        BY <1>2, <4>1 DEF GoneHead, GoneAt, GoneInv, Listed
      <4>3. tracked'[m] = Staged(m) /\ \A n \in Machines \ {m} : tracked'[n] = tracked[n]
        BY <1>1, <3>4 DEF CommitsOwn, PushesOn
      <4>4. \A f \in Foreign(m) : f \notin tracked'[m] => f \notin tracked[m] \/ f \in swept[m] \cup GoneAt(m)
        BY <4>3 DEF LostInv, Staged
      <4>5. ASSUME NEW n \in Machines
            PROVE  \A c \in 0..Len(commits') : IsBase(n, c)' =>
                     \A f \in (At(c)'.files \ tracked'[n]) \cap Foreign(n)' : f \in swept'[n] \cup GoneHead(n)'
        <5>1. CASE n = m
          BY <1>3, <1>4, <3>1, <4>1, <4>2, <4>4, <5>1
        <5>2. CASE n # m
          BY <1>3, <1>4, <3>1, <4>1, <4>3, <5>2
        <5> QED BY <5>1, <5>2
      <4> QED BY <4>5 DEF DroppedInv
    <3> QED BY <2>5, <3>2, <3>3, <3>4, PushCases
  <2>6. CASE CloneRemote(m) \/ PullForwards(m) \/ PullMerges(m)
    <3>1. PICK b \in 0..Len(commits), i \in Indexes :
            Pulls(m, b, i) /\ (Follows(m, b, i) \/ CommitsMerge(m, b, i) \/ Conflicts(m, b, i))
      BY <2>6, PullSteps DEF PullStep
    <3>2. /\ \A c \in 0..Len(commits) : At(c)' = At(c)
          /\ Heard(m) \subseteq Heard(m)'
          /\ \A n \in Machines \ {m} : GoneHead(n)' = GoneHead(n)
          /\ \A c \in 0..Len(commits') : IsBase(m, c)' => c = remote
          /\ \A n \in Machines \ {m} : \A c \in 0..Len(commits') : IsBase(n, c)' => c \in 0..Len(commits) /\ IsBase(n, c)
      BY <3>1, PullKnown DEF KnownAfterPull
    <3>3. /\ UNCHANGED <<maker, swept>> /\ merging[m] = 0 /\ IsBase(m, b) /\ remote # 0
          /\ tracked'[m] = Pulled(m, b, tracked[m])
          /\ \A n \in Machines \ {m} : tracked'[n] = tracked[n]
      BY <1>1, <3>1 DEF Pulls, history
    <3>4. \/ merging'[m] = 0 /\ At(head[m])'.index = i
          \/ merging'[m] = remote
      BY <3>1, PullHead DEF KnownAtHead
    <3>5. GoneHead(m) \cap Listed(i) = {}
      BY <3>1, <3>3, MergeEntries, BaseEver DEF MergedEntries
    <3>6. GoneHead(m) \subseteq GoneHead(m)'
      <4>1. GoneHead(m) \subseteq Heard(m)
        BY DEF GoneHead
      <4>2. CASE merging'[m] = 0 /\ At(head[m])'.index = i
        <5>1. GoneHead(m)' = Heard(m)' \ Listed(i)
          BY <4>2 DEF GoneHead, Listed
        <5> QED BY <3>2, <3>5, <4>1, <5>1
      <4>3. CASE merging'[m] = remote
        <5>1. GoneHead(m)' = Heard(m)'
          BY <3>3, <4>3 DEF GoneHead
        <5> QED BY <3>2, <4>1, <5>1
      <4> QED BY <3>4, <4>2, <4>3
    <3>7. ASSUME NEW f \in Foreign(m), f \in At(remote).files, f \notin tracked'[m]
          PROVE  f \in swept[m] \cup GoneHead(m)'
      <4>1. f \in At(b).files /\ f \notin tracked[m]
        BY <3>3, <3>7 DEF Pulled, Merged
      <4> QED BY <3>3, <3>6, <3>7, <4>1 DEF DroppedInv
    <3>8. \A n \in Machines : Foreign(n)' \subseteq Foreign(n)
      BY <1>4, <3>3
    <3>9. ASSUME NEW n \in Machines
          PROVE  \A c \in 0..Len(commits') : IsBase(n, c)' =>
                   \A f \in (At(c)'.files \ tracked'[n]) \cap Foreign(n)' : f \in swept'[n] \cup GoneHead(n)'
      <4>1. CASE n = m
        <5> SUFFICES ASSUME NEW c \in 0..Len(commits'), IsBase(m, c)',
                            NEW f, f \in At(c)'.files, f \notin tracked'[m], f \in Foreign(m)'
                     PROVE  f \in swept'[m] \cup GoneHead(m)'
          BY <4>1
        <5>1. c = remote
          BY <3>2
        <5>2. PICK r \in 0..Len(commits) : r = remote
          BY <1>1
        <5>3. c = r /\ At(r)' = At(r) /\ At(r) = At(remote)
          BY <3>2, <5>1, <5>2
        <5>4. f \in At(remote).files
          BY <5>3
        <5> QED BY <3>3, <3>7, <3>8, <5>4
      <4>2. CASE n # m
        BY <1>3, <3>2, <3>3, <3>8, <4>2
      <4> QED BY <4>1, <4>2
    <3> QED BY <3>9 DEF DroppedInv
  <2> QED BY <1>7, <2>1, <2>2, <2>3, <2>4, <2>5, <2>6
<1> QED BY <1>6, <1>7 DEF Next, Saves, OpTurns

LEMMA TrackStep ==
    ASSUME ShapeInv, GraphInv, AloneInv, KeptInv, ListInv, TaskInv, TrackInv, [Next]_vars
    PROVE  TrackInv'
<1>1. (\A m \in Machines : Tracks(m)) /\ UnmadeInv /\ LostInv /\ DroppedInv
  BY TrackParts
<1> QED BY <1>1, TracksStep, UnmadeStep, LostStep, DroppedStep, TrackParts

-----------------------------------------------------------------------------
(* What was taken from the remote.                                         *)

LEMMA RemovedInit == Init => RemovedInv
<1> SUFFICES ASSUME Init PROVE RemovedInv
  OBVIOUS
<1>1. ShapeInv /\ Len(commits) = 0
  BY ShapeInit DEF Init
<1>2. At(0).files = {}
  BY <1>1, AtTyped
<1> QED BY <1>1, <1>2 DEF RemovedInv

LEMMA RemovedStep ==
    ASSUME ShapeInv, GraphInv, AloneInv, KeptInv, ListInv, TrackInv, RemovedInv, [Next]_vars
    PROVE  RemovedInv'
<1>1. /\ swept \in [Machines -> SUBSET Files] /\ maker \in [Snaps -> Machines \cup {None}]
      /\ remote \in 0..Len(commits)
      /\ At(0).files = {} /\ Past(0) = {}
      /\ \A c \in 0..Len(commits) : c # 0 => c \in 1..Len(commits)
  BY AtTyped DEF ShapeInv, TypeOK
<1>2. (\A m \in Machines : Tracks(m)) /\ UnmadeInv /\ LostInv /\ DroppedInv /\ GoneInv
  BY TrackParts, ListParts
<1>3. ASSUME \A n \in Machines : \A c \in 0..Len(commits') : IsBase(n, c)' =>
               \/ c \in 0..Len(commits) /\ IsBase(n, c) /\ At(c)' = At(c)
               \/ At(c)'.files = At(remote).files,
             At(remote)' = At(remote), Gone(remote)' = Gone(remote),
             \A n \in Machines : swept[n] \subseteq swept'[n],
             \A s \in Snaps : maker'[s] = maker[s] \/ \A c \in 0..Len(commits) : s \notin At(c).files
      PROVE  RemovedInv'
  <2> SUFFICES ASSUME NEW n \in Machines, NEW c \in 0..Len(commits'), IsBase(n, c)',
                      NEW f, f \in At(c)'.files, f \notin At(remote)'.files,
                      f \in Objects \/ (f \in Snaps /\ maker'[f] = n)
               PROVE  (\E k \in Machines \ {n} : f \in swept'[k]) \/ f \in Gone(remote)'
    BY DEF RemovedInv
  <2>1. c \in 0..Len(commits) /\ IsBase(n, c) /\ f \in At(c).files /\ f \notin At(remote).files
    BY <1>3
  <2>2. f \in Objects \/ (f \in Snaps /\ maker[f] = n)
    BY <1>3, <2>1
  <2>3. (\E k \in Machines \ {n} : f \in swept[k]) \/ f \in Gone(remote)
    BY <2>1, <2>2 DEF RemovedInv
  <2> QED BY <1>3, <2>3
<1>4. ASSUME UNCHANGED <<commits, head, merging, remote>>,
             \A n \in Machines : swept[n] \subseteq swept'[n],
             \A s \in Snaps : maker'[s] = maker[s] \/ \A c \in 0..Len(commits) : s \notin At(c).files
      PROVE  RemovedInv'
  <2>1. /\ \A c : At(c)' = At(c)
        /\ \A n, c : IsBase(n, c)' <=> IsBase(n, c)
        /\ At(remote)' = At(remote) /\ Gone(remote)' = Gone(remote)
    BY <1>4, SameKnown
  <2> QED BY <1>3, <1>4, <2>1
<1>5. CASE UNCHANGED vars
  BY <1>4, <1>5 DEF vars, git, shared, history
<1>6. ASSUME NEW m \in Machines,
             \/ InitRemote(m) \/ CloneRemote(m) \/ CreateStores(m) \/ Saves(m)
             \/ GCRemoves(m) \/ OpTurns(m) \/ PushLists(m) \/ PushCommits(m) \/ PushSends(m)
             \/ PullForwards(m) \/ PullMerges(m)
      PROVE  RemovedInv'
  <2>1. CASE InitRemote(m) \/ PushLists(m) \/ Saves(m) \/ OpTurns(m)
    <3>1. UNCHANGED <<maker, swept, commits, head, merging, remote>>
      BY <2>1, TaskFacts DEF InitRemote, PushLists, git, shared, history
    <3> QED BY <1>4, <3>1
  <2>2. CASE CreateStores(m)
    <3>1. PICK s \in Snaps :
            /\ \A r \in Snaps : maker[r] = None <=> r >= s
            /\ maker' = [maker EXCEPT ![s] = m]
      BY <2>2 DEF CreateStores
    <3>2. UNCHANGED <<swept, commits, head, merging, remote>>
      BY <2>2 DEF CreateStores, shared, git
    <3>3. maker[s] = None
      <4>1. s >= s
        BY FilesTyped
      <4> QED BY <3>1, <4>1
    <3>4. \A c \in 0..Len(commits) : s \notin At(c).files
      BY <1>1, <1>2, <3>3 DEF UnmadeInv, Nowhere
    <3>5. \A r \in Snaps : maker'[r] = maker[r] \/ r = s
      BY <1>1, <3>1
    <3> QED BY <1>4, <3>2, <3>4, <3>5
  <2>3. CASE GCRemoves(m)
    <3>1. UNCHANGED <<maker, commits, head, merging, remote>>
      BY <2>3, TaskFacts
    <3>2. \A n \in Machines : swept[n] \subseteq swept'[n]
      BY <2>3, RemovesOne
    <3> QED BY <1>4, <3>1, <3>2
  <2>4. CASE PushSends(m)
    <3>1. /\ sync[m] # None /\ sync[m].do = "send"
          /\ UNCHANGED <<maker, swept, commits, head, merging>>
          /\ remote' = remote \/ ((remote = 0 \/ remote \in Past(head[m])) /\ remote' = head[m])
      BY <2>4 DEF PushSends, git
    <3>2. CASE remote' = remote
      BY <1>4, <3>1, <3>2
    <3>3. CASE (remote = 0 \/ remote \in Past(head[m])) /\ remote' = head[m]
      <4>1. /\ \A c : At(c)' = At(c)
            /\ At(remote)' = At(head[m]) /\ Gone(remote)' = Gone(head[m])
            /\ Gone(head[m]) = GoneHead(m) /\ IsBase(m, remote)
            /\ \A n \in Machines \ {m} : \A c \in 0..Len(commits) : IsBase(n, c)' <=> IsBase(n, c)
            /\ \A c \in 0..Len(commits) : IsBase(m, c)' => c = head[m]
        BY <3>1, <3>3, SendKnown DEF KnownAfterSend
      <4>2. tracked[m] = At(head[m]).files
        BY <1>2, <3>1 DEF GraphInv, Tracks
      <4>3. Gone(remote) \subseteq Gone(head[m])
        <5>1. CASE remote = 0
          <6>1. Gone(0) = {}
            BY KnownTyped DEF Gone
          <6> QED BY <5>1, <6>1
        <5>2. CASE remote \in Past(head[m])
          <6>1. head[m] \in 1..Len(commits)
            BY <1>1, <5>2, AtTyped
          <6> QED BY <1>2, <5>2, <6>1 DEF GoneInv
        <5> QED BY <3>3, <5>1, <5>2
      <4>4. ASSUME NEW n \in Machines, n # m, NEW c \in 0..Len(commits), IsBase(n, c),
                   NEW f, f \in At(c).files, f \notin At(head[m]).files,
                   f \in Objects \/ (f \in Snaps /\ maker[f] = n)
            PROVE  (\E k \in Machines \ {n} : f \in swept[k]) \/ f \in Gone(head[m])
        <5>1. CASE f \notin At(remote).files
          BY <4>3, <4>4, <5>1 DEF RemovedInv
        <5>2. CASE f \in At(remote).files
          <6>1. f \in Foreign(m)
            BY <4>4 DEF Foreign
          <6>2. f \in swept[m] \cup GoneHead(m)
            BY <1>1, <1>2, <4>1, <4>2, <4>4, <5>2, <6>1 DEF DroppedInv
          <6> QED BY <4>1, <4>4, <6>2
        <5> QED BY <5>1, <5>2
      <4> SUFFICES ASSUME NEW n \in Machines, NEW c \in 0..Len(commits'), IsBase(n, c)',
                          NEW f, f \in At(c)'.files, f \notin At(remote)'.files,
                          f \in Objects \/ (f \in Snaps /\ maker'[f] = n)
                   PROVE  (\E k \in Machines \ {n} : f \in swept'[k]) \/ f \in Gone(remote)'
        BY DEF RemovedInv
      <4>5. n # m
        BY <3>1, <4>1
      <4>6. IsBase(n, c) /\ c \in 0..Len(commits)
        BY <3>1, <4>1, <4>5
      <4>7. (\E k \in Machines \ {n} : f \in swept[k]) \/ f \in Gone(head[m])
        BY <3>1, <4>1, <4>4, <4>5, <4>6
      <4> QED BY <3>1, <4>1, <4>7
    <3> QED BY <3>1, <3>2, <3>3
  <2>5. CASE PushCommits(m)
    <3>1. sync[m] # None /\ UNCHANGED <<remote, swept, maker>>
      BY <2>5, PushCases
    <3>2. CASE FailsToCommit(m)
      BY <1>4, <3>1, <3>2 DEF FailsToCommit
    <3>3. CASE HasNothingNew(m)
      <4>1. merging' = merging
        BY <3>3 DEF HasNothingNew, PushesOn, ShapeInv
      <4> QED BY <1>4, <3>1, <3>3, <4>1 DEF HasNothingNew
    <3>4. CASE CommitsOwn(m)
      <4>1. /\ \A n \in Machines : \A c \in 0..Len(commits') : IsBase(n, c)' => c \in 0..Len(commits) /\ IsBase(n, c)
            /\ \A c \in 0..Len(commits) : At(c)' = At(c)
            /\ At(remote)' = At(remote) /\ Gone(remote)' = Gone(remote)
        BY <3>1, <3>4, OwnKnown DEF KnownAfterOwn, KnownAfterCommit
      <4> QED BY <1>3, <3>1, <4>1
    <3> QED BY <2>5, <3>2, <3>3, <3>4, PushCases
  <2>6. CASE CloneRemote(m) \/ PullForwards(m) \/ PullMerges(m)
    <3>1. PICK b \in 0..Len(commits), i \in Indexes :
            Pulls(m, b, i) /\ (Follows(m, b, i) \/ CommitsMerge(m, b, i) \/ Conflicts(m, b, i))
      BY <1>2, <2>6, PullSteps DEF PullStep
    <3>2. /\ \A c \in 0..Len(commits) : At(c)' = At(c)
          /\ At(remote)' = At(remote) /\ Gone(remote)' = Gone(remote)
          /\ \A c \in 0..Len(commits') : IsBase(m, c)' => c = remote
          /\ \A n \in Machines \ {m} : \A c \in 0..Len(commits') : IsBase(n, c)' => c \in 0..Len(commits) /\ IsBase(n, c)
      BY <3>1, PullKnown DEF KnownAfterPull
    <3>3. UNCHANGED <<maker, swept>>
      BY <3>1 DEF Pulls, history
    <3>4. PICK r \in 0..Len(commits) : r = remote
      BY <1>1
    <3>5. At(r)' = At(r) /\ At(r) = At(remote)
      BY <3>2, <3>4
    <3>6. \A n \in Machines : \A c \in 0..Len(commits') : IsBase(n, c)' =>
               \/ c \in 0..Len(commits) /\ IsBase(n, c) /\ At(c)' = At(c)
               \/ At(c)'.files = At(remote).files
      <4> TAKE n \in Machines
      <4>1. CASE n = m
        <5>1. \A c \in 0..Len(commits') : IsBase(m, c)' => c = r
          BY <3>2, <3>4
        <5> QED BY <3>5, <4>1, <5>1
      <4>2. CASE n # m
        BY <3>2, <4>2
      <4> QED BY <4>1, <4>2
    <3> QED BY <1>3, <3>2, <3>3, <3>6
  <2> QED BY <1>6, <2>1, <2>2, <2>3, <2>4, <2>5, <2>6
<1> QED BY <1>5, <1>6 DEF Next, Saves, OpTurns

-----------------------------------------------------------------------------
(* The files of what is listed.                                            *)

LEMMA HistoryStep ==
    ASSUME ShapeInv, GraphInv, AloneInv, \A m \in Machines : Tracks(m), [Next]_vars
    PROVE  /\ \A n \in Machines : swept[n] \subseteq swept'[n]
           /\ torn \subseteq torn'
           /\ \A s \in Snaps : maker[s] # None => maker'[s] = maker[s]
<1>1. swept \in [Machines -> SUBSET Files] /\ maker \in [Snaps -> Machines \cup {None}]
  BY DEF ShapeInv
<1>2. CASE UNCHANGED vars
  BY <1>2 DEF vars, history
<1>3. ASSUME NEW m \in Machines,
             \/ InitRemote(m) \/ CloneRemote(m) \/ CreateStores(m) \/ Saves(m)
             \/ GCRemoves(m) \/ OpTurns(m) \/ PushLists(m) \/ PushCommits(m) \/ PushSends(m)
             \/ PullForwards(m) \/ PullMerges(m)
      PROVE  /\ \A n \in Machines : swept[n] \subseteq swept'[n]
             /\ torn \subseteq torn'
             /\ \A s \in Snaps : maker[s] # None => maker'[s] = maker[s]
  <2>1. CASE CreateStores(m)
    <3>1. PICK s \in Snaps :
            /\ \A r \in Snaps : maker[r] = None <=> r >= s
            /\ maker' = [maker EXCEPT ![s] = m]
      BY <2>1 DEF CreateStores
    <3>2. maker[s] = None
      <4>1. s >= s
        BY FilesTyped
      <4> QED BY <3>1, <4>1
    <3> QED BY <1>1, <2>1, <3>1, <3>2 DEF CreateStores
  <2>2. CASE CloneRemote(m) \/ PullForwards(m) \/ PullMerges(m)
    BY <2>2 DEF CloneRemote, PullForwards, PullMerges, history
  <2>3. CASE PushCommits(m)
    <3>1. torn \subseteq torn'
      BY <2>3, PushCases DEF FailsToCommit, HasNothingNew, CommitsOwn, PushesOn
    <3> QED BY <2>3, <3>1, PushCases
  <2>4. CASE GCRemoves(m) \/ Saves(m) \/ OpTurns(m)
    BY <2>4, TaskFacts, RemovesOne
  <2>5. CASE InitRemote(m) \/ PushLists(m) \/ PushSends(m)
    BY <2>5 DEF InitRemote, PushLists, PushSends, history
  <2> QED BY <1>3, <2>1, <2>2, <2>3, <2>4, <2>5
<1> QED BY <1>2, <1>3 DEF Next, Saves, OpTurns

LEMMA ExcusedStep ==
    ASSUME ShapeInv, GraphInv, AloneInv, \A m \in Machines : Tracks(m), [Next]_vars,
           NEW s \in Snaps, maker[s] # None
    PROVE  (SweptElsewhere(s) => SweptElsewhere(s)') /\ (Excused(s) => Excused(s)')
<1>1. SweptElsewhere(s) => SweptElsewhere(s)'
  BY HistoryStep DEF SweptElsewhere
<1> QED BY <1>1, HistoryStep DEF Excused

\* What a pull takes from m of a snapshot of its own, others have swept.
LEMMA OurFiles ==
    ASSUME ShapeInv, RemovedInv, NEW m \in Machines, NEW b \in 0..Len(commits), IsBase(m, b),
           NEW s \in Snaps, maker[s] = m, s \notin Gone(remote), NEW X, FilesOf(s) \subseteq X
    PROVE  FilesOf(s) \subseteq Pulled(m, b, X) \/ SweptElsewhere(s)
<1> SUFFICES ASSUME NEW f \in FilesOf(s), f \notin Pulled(m, b, X) PROVE SweptElsewhere(s)
  OBVIOUS
<1>1. f \in At(b).files /\ f \notin At(remote).files
  BY DEF Pulled, Merged
<1>2. f \in Objects \/ f = s
  BY FilesTyped DEF FilesOf
<1>3. f \notin Gone(remote)
  <2>1. Gone(remote) \subseteq Snaps
    BY KnownTyped DEF Gone, Ever, ListedIn
  <2> QED BY <1>2, <2>1, FilesTyped
<1>4. PICK n \in Machines \ {m} : f \in swept[n]
  BY <1>1, <1>2, <1>3 DEF RemovedInv
<1> QED BY <1>4 DEF SweptElsewhere, FilesOf

\* What a pull misses on m of a snapshot of another machine, m has swept.
LEMMA TheirFiles ==
    ASSUME NEW m \in Machines, NEW b, NEW s \in Snaps, maker[s] # m,
           FilesOf(s) \subseteq At(remote).files, NEW X, NEW G \in SUBSET Snaps, s \notin G,
           \A f \in (At(b).files \ X) \cap Foreign(m) : f \in swept[m] \cup G
    PROVE  FilesOf(s) \subseteq Pulled(m, b, X) \/ SweptElsewhere(s)
<1> SUFFICES ASSUME NEW f \in FilesOf(s), f \notin Pulled(m, b, X) PROVE SweptElsewhere(s)
  OBVIOUS
<1>1. f \in At(b).files /\ f \notin X
  BY DEF Pulled, Merged
<1>2. f \in Objects \/ f = s
  BY FilesTyped DEF FilesOf
<1>3. f \in Foreign(m)
  BY <1>2 DEF Foreign
<1>4. f \notin G
  BY <1>2, FilesTyped
<1>5. f \in swept[m]
  BY <1>1, <1>3, <1>4
<1> QED BY <1>5 DEF SweptElsewhere, FilesOf

OwnFiles ==
  \A m \in Machines : \A s \in Snaps :
    maker[s] = m /\ (s \in Listed(index[m]) \/ Publishing(m, s)) =>
      FilesOf(s) \subseteq files[m] \/ s \in swept[m] \/ SweptElsewhere(s)

LocalFiles ==
  \A m \in Machines : \A s \in Listed(index[m]) :
    FilesOf(s) \subseteq files[m] \/ s \in swept[m] \/ Excused(s)

CommitFiles ==
  \A c \in 1..Len(commits) : \A s \in Listed(At(c).index) : FilesOf(s) \subseteq At(c).files \/ Excused(s)

SeenFiles ==
  \A m \in Machines : sync[m] # None /\ sync[m].do = "add" =>
    \A s \in sync[m].seen :
      FilesOf(s) \subseteq tracked[m] \cup sync[m].new \/ s \in swept[m] \/ Excused(s)

LEMMA FileParts ==
    /\ FileInv <=> OwnFiles /\ LocalFiles /\ CommitFiles /\ SeenFiles
    /\ FileInv' <=> OwnFiles' /\ LocalFiles' /\ CommitFiles' /\ SeenFiles'
<1>1. FileInv <=> OwnFiles /\ LocalFiles /\ CommitFiles /\ SeenFiles
  BY DEF FileInv, OwnFiles, LocalFiles, CommitFiles, SeenFiles
<1> QED BY <1>1, PTL

LEMMA FileInit == Init => FileInv
<1> SUFFICES ASSUME Init PROVE FileInv
  OBVIOUS
<1>1. Len(commits) = 0 /\ \A m \in Machines : index[m] = {} /\ op[m] = None /\ sync[m] = None
  BY ShapeInit DEF Init
<1> QED BY <1>1, ListedTyped DEF FileInv, Publishing

\* What the machines list, and what they publish, somebody made.
LEMMA Made ==
    ASSUME ShapeInv, FreshInv, UnmadeInv
    PROVE  /\ \A m \in Machines : \A s \in Listed(index[m]) : s \in Snaps /\ maker[s] # None
           /\ \A m \in Machines : \A s \in Snaps : Publishing(m, s) => maker[s] # None
           /\ \A c \in 1..Len(commits) : \A s \in Listed(At(c).index) : s \in Snaps /\ maker[s] # None
           /\ \A m \in Machines : sync[m] # None => \A s \in sync[m].seen : s \in Snaps /\ maker[s] # None
<1>1. \A m \in Machines : Listed(index[m]) \subseteq Snaps
  BY ListedTyped DEF ShapeInv, TypeOK
<1>2. \A c \in 1..Len(commits) : Listed(At(c).index) \subseteq Snaps
  BY ListedTyped, AtTyped
<1>3. \A m \in Machines : sync[m] # None => sync[m].seen \subseteq Snaps
  BY DEF ShapeInv, Syncs
<1>4. \A c \in 1..Len(commits) : \A s \in Listed(At(c).index) : s \in All
  BY <1>2 DEF All, ListedIn
<1> QED BY <1>1, <1>2, <1>3, <1>4, FilesTyped, FreshFacts DEF FreshInv, IsListed, UnmadeInv, Nowhere

\* A pull leaves m the files of what it lists then and has made itself or commits.
LEMMA PulledFiles ==
    ASSUME ShapeInv, GraphInv, KeptInv, ListInv, LostInv, DroppedInv, RemovedInv, FileInv,
           NEW m \in Machines, Tracks(m), NEW b \in 0..Len(commits), NEW i \in Indexes, Pulls(m, b, i)
    PROVE  /\ \A s \in Snaps : maker[s] = m /\ (s \in Listed(index'[m]) \/ Publishing(m, s)) =>
                FilesOf(s) \subseteq Pulled(m, b, files[m]) \/ s \in swept[m] \/ SweptElsewhere(s)
           /\ \A s \in Listed(index'[m]) : s \in Snaps =>
                FilesOf(s) \subseteq Pulled(m, b, files[m]) \/ s \in swept[m] \/ Excused(s)
           /\ \A s \in Listed(i) : FilesOf(s) \subseteq Pulled(m, b, tracked[m]) \/ Excused(s)
<1>1. merging[m] = 0 /\ IsBase(m, b) /\ remote # 0
  BY DEF Pulls
<1>2. OwnFiles /\ LocalFiles /\ CommitFiles /\ FreshInv /\ GoneInv
  BY FileParts, ListParts
<1>3. MergedEntries(m, i) /\ PulledEntries(m)
  BY MergeEntries, PullEntries
<1>4. /\ remote \in 1..Len(commits) /\ head[m] \in 0..Len(commits)
      /\ \A c \in 0..Len(commits) : c # 0 => c \in 1..Len(commits)
      /\ Gone(remote) \subseteq All /\ Heard(m) \subseteq Snaps /\ Listed(i) \subseteq Snaps
      /\ At(0).index = {} /\ Listed({}) = {}
  BY <1>1, AtTyped, KnownTyped, ListedTyped DEF Gone
<1>5. GoneHead(m) \subseteq GoneAt(m) /\ GoneAt(m) \subseteq Heard(m) /\ GoneHead(m) = Gone(head[m])
  BY <1>1, <1>2, BaseEver DEF GoneInv, GoneAt
<1>6. \A s \in Listed(At(remote).index) : FilesOf(s) \subseteq At(remote).files \/ Excused(s)
  BY <1>2, <1>4 DEF CommitFiles
<1>7. \A f \in (At(b).files \ tracked[m]) \cap Foreign(m) : f \in swept[m] \cup GoneHead(m)
  BY <1>1 DEF DroppedInv
<1>8. \A f \in (At(b).files \ files[m]) \cap Foreign(m) : f \in swept[m] \cup GoneAt(m)
  BY <1>5, <1>7 DEF LostInv
<1>9. \A s : SweptElsewhere(s) => Excused(s)
  BY DEF Excused
<1>10. ASSUME NEW s \in Snaps, maker[s] = m, s \in Listed(index'[m]) \/ Publishing(m, s)
       PROVE  FilesOf(s) \subseteq Pulled(m, b, files[m]) \/ s \in swept[m] \/ SweptElsewhere(s)
  <2>1. FilesOf(s) \subseteq files[m] \/ s \in swept[m] \/ SweptElsewhere(s)
    BY <1>2, <1>3, <1>10 DEF OwnFiles, PulledEntries
  <2>2. s \notin Gone(remote)
    BY <1>2, <1>3, <1>4, <1>10, FreshFacts DEF PulledEntries, IsListed
  <2> QED BY <1>1, <1>10, <2>1, <2>2, OurFiles
<1>11. ASSUME NEW s \in Snaps, s \in Listed(index'[m])
       PROVE  FilesOf(s) \subseteq Pulled(m, b, files[m]) \/ s \in swept[m] \/ Excused(s)
  <2>1. CASE maker[s] = m
    BY <1>9, <1>10, <1>11, <2>1
  <2>2. CASE maker[s] # m
    <3>1. s \in Listed(At(remote).index) /\ s \notin GoneAt(m)
      BY <1>3, <1>11, <2>2 DEF PulledEntries
    <3>2. GoneAt(m) \in SUBSET Snaps
      BY <1>4, <1>5
    <3> QED BY <1>6, <1>8, <1>9, <2>2, <3>1, <3>2, TheirFiles
  <2> QED BY <2>1, <2>2
<1>12. ASSUME NEW s \in Listed(i)
       PROVE  FilesOf(s) \subseteq Pulled(m, b, tracked[m]) \/ Excused(s)
  <2>1. s \in Snaps
    BY <1>4
  <2>2. CASE maker[s] = m
    <3>1. s \in Listed(At(head[m]).index) /\ s \notin Gone(remote)
      BY <1>3, <2>2 DEF MergedEntries
    <3>2. head[m] \in 1..Len(commits)
      BY <1>4, <3>1
    <3>3. FilesOf(s) \subseteq tracked[m] \/ Excused(s)
      BY <1>1, <1>2, <3>1, <3>2 DEF CommitFiles, Tracks
    <3> QED BY <1>1, <1>9, <2>1, <2>2, <3>1, <3>3, OurFiles
  <2>3. CASE maker[s] # m
    <3>1. s \in Listed(At(remote).index) /\ s \notin GoneHead(m)
      BY <1>3, <1>5, <2>3 DEF MergedEntries
    <3>2. GoneHead(m) \in SUBSET Snaps
      BY <1>4, <1>5
    <3> QED BY <1>6, <1>7, <1>9, <2>1, <2>3, <3>1, <3>2, TheirFiles
  <2> QED BY <2>2, <2>3
<1> QED BY <1>10, <1>11, <1>12

\* A prune takes its own manifests, a sweep no object of what m has made and lists.
LEMMA RemovesJustly ==
    ASSUME ShapeInv, TaskInv, NEW m \in Machines, GCRemoves(m),
           NEW s \in Snaps, maker[s] = m, s \in Listed(index[m]) \/ Publishing(m, s), FilesOf(s) \subseteq files[m]
    PROVE  FilesOf(s) \subseteq files'[m] \/ s \in swept'[m]
<1>1. PICK f \in op[m].doomed :
        /\ op[m] # None /\ op[m] \in Ops
        /\ files' = [files EXCEPT ![m] = @ \ {f}] /\ swept' = [swept EXCEPT ![m] = @ \cup {f}]
  BY RemoveFacts
<1>2. files'[m] = files[m] \ {f} /\ f \in swept'[m]
  BY <1>1 DEF ShapeInv, TypeOK
<1>3. CASE f \notin FilesOf(s) \/ f = s
  BY <1>2, <1>3
<1>4. CASE f \in Content[s]
  <2>1. f \in Objects /\ f \notin Snaps
    BY <1>4, FilesTyped
  <2>2. op[m].do = "sweep"
    BY <1>1, <2>1 DEF TaskInv
  <2>3. s \in Listed(index[m])
    BY <2>2 DEF Publishing
  <2>4. s \in op[m].kept /\ \A r \in op[m].kept : op[m].doomed \cap Content[r] = {}
    BY <1>1, <2>2, <2>3 DEF TaskInv
  <2> QED BY <1>1, <1>4, <2>4
<1> QED BY <1>3, <1>4 DEF FilesOf

\* What is being listed was being published.
LEMMA PublishingStays ==
    ASSUME ShapeInv, NEW m \in Machines, Saves(m) \/ GCRemoves(m) \/ OpTurns(m)
    PROVE  /\ \A s : Publishing(m, s)' => Publishing(m, s)
           /\ \A n \in Machines \ {m} : op'[n] = op[n]
<1>1. op \in [Machines -> Ops \cup {None}]
  BY DEF ShapeInv
<1>2. CASE Saves(m)
  <2>1. op[m] # None /\ op[m] \in Ops /\ op[m].do \in {"save", "prune"}
    BY <1>2, SaveFacts
  <2>2. CASE op[m].do = "save"
    BY <1>1, <1>2, <2>2, SaveFacts DEF Publishing
  <2>3. CASE op[m].do = "prune"
    <3>1. op' = [op EXCEPT ![m] = [@ EXCEPT !.do = "mark"]]
      BY <1>2, <2>3, SaveFacts
    <3>2. op'[m].do = "mark"
      BY <1>1, <2>1, <3>1 DEF Ops
    <3> QED BY <1>1, <3>1, <3>2 DEF Publishing
  <2> QED BY <2>1, <2>2, <2>3
<1>3. CASE GCRemoves(m)
  <2>1. PICK f : /\ op[m] # None /\ op[m] \in Ops
                 /\ op' = [op EXCEPT ![m] = [op[m] EXCEPT !.doomed = op[m].doomed \ {f}]]
    BY <1>3, RemoveFacts
  <2>2. op'[m].do = op[m].do /\ op'[m].snap = op[m].snap
    BY <1>1, <2>1 DEF Ops
  <2> QED BY <1>1, <2>1, <2>2 DEF Publishing
<1>4. CASE OpTurns(m)
  <2>1. op' = [op EXCEPT ![m] = op'[m]] /\ \A s : Publishing(m, s)' => Publishing(m, s)
    BY <1>4, OpTurnFacts
  <2> QED BY <1>1, <2>1
<1> QED BY <1>2, <1>3, <1>4

LEMMA OwnFilesStep ==
    ASSUME ShapeInv, GraphInv, AloneInv, KeptInv, ListInv, TaskInv, TrackInv, RemovedInv, FileInv, [Next]_vars
    PROVE  OwnFiles'
<1>1. /\ files \in [Machines -> SUBSET Files] /\ index \in [Machines -> Indexes]
      /\ op \in [Machines -> Ops \cup {None}] /\ maker \in [Snaps -> Machines \cup {None}]
      /\ \A n \in Machines : Listed(index[n]) \subseteq Snaps /\ (index[n] # Conflict => Listed(index[n]) = index[n])
      /\ swept \in [Machines -> SUBSET Files]
  BY WorkTyped DEF ShapeInv, TypeOK
<1>2. /\ \A m \in Machines : Tracks(m)
      /\ UnmadeInv /\ LostInv /\ DroppedInv /\ FreshInv /\ OwnFiles
  BY TrackParts, ListParts, FileParts
<1>3. /\ \A n \in Machines : swept[n] \subseteq swept'[n]
      /\ \A s \in Snaps : maker[s] # None => maker'[s] = maker[s] /\ (SweptElsewhere(s) => SweptElsewhere(s)')
      /\ \A n \in Machines : \A s \in Snaps : s \in Listed(index[n]) \/ Publishing(n, s) => maker[s] # None
  BY <1>2, HistoryStep, ExcusedStep, Made
<1>4. ASSUME NEW n \in Machines,
             \A s \in Snaps : s \in Listed(index'[n]) \/ Publishing(n, s)' =>
               /\ s \in Listed(index[n]) \/ Publishing(n, s)
               /\ maker[s] = n /\ FilesOf(s) \subseteq files[n] => FilesOf(s) \subseteq files'[n] \/ s \in swept'[n] \/ SweptElsewhere(s)'
      PROVE  \A s \in Snaps : maker'[s] = n /\ (s \in Listed(index'[n]) \/ Publishing(n, s)') =>
               FilesOf(s) \subseteq files'[n] \/ s \in swept'[n] \/ SweptElsewhere(s)'
  BY <1>2, <1>3, <1>4 DEF OwnFiles
<1>5. ASSUME \A n \in Machines : /\ Listed(index'[n]) \subseteq Listed(index[n]) \/ index'[n] = index[n]
                                 /\ op'[n] = op[n] \/ op'[n] = None
                                 /\ files[n] \subseteq files'[n]
      PROVE  OwnFiles'
  <2>1. ASSUME NEW n \in Machines
        PROVE  \A s \in Snaps : maker'[s] = n /\ (s \in Listed(index'[n]) \/ Publishing(n, s)') =>
                 FilesOf(s) \subseteq files'[n] \/ s \in swept'[n] \/ SweptElsewhere(s)'
    <3>1. \A s : Publishing(n, s)' => Publishing(n, s)
      BY <1>5 DEF Publishing
    <3> QED BY <1>4, <1>5, <3>1
  <2> QED BY <2>1 DEF OwnFiles, Listed
<1>6. CASE UNCHANGED vars
  BY <1>5, <1>6 DEF vars, local
<1>7. ASSUME NEW m \in Machines,
             \/ InitRemote(m) \/ CloneRemote(m) \/ CreateStores(m) \/ Saves(m)
             \/ GCRemoves(m) \/ OpTurns(m) \/ PushLists(m) \/ PushCommits(m) \/ PushSends(m)
             \/ PullForwards(m) \/ PullMerges(m)
      PROVE  OwnFiles'
  <2>1. CASE InitRemote(m) \/ PushLists(m) \/ PushSends(m)
    <3>1. UNCHANGED <<index, op>>
      BY <2>1 DEF InitRemote, PushLists, PushSends, local
    <3>2. \A n \in Machines : files[n] \subseteq files'[n]
      BY <1>1, <2>1 DEF InitRemote, PushLists, PushSends, local
    <3> QED BY <1>5, <3>1, <3>2
  <2>2. CASE PushCommits(m)
    <3>1. UNCHANGED <<index, op, files>>
      BY <2>2, PushCases DEF local
    <3> QED BY <1>5, <3>1
  <2>3. CASE CreateStores(m)
    <3>1. PICK s \in Snaps :
            /\ maker' = [maker EXCEPT ![s] = m]
            /\ op' = [op EXCEPT ![m] = [do |-> "publish", snap |-> s, list |-> {}, kept |-> {}, doomed |-> {}]]
            /\ files' = [files EXCEPT ![m] = @ \cup {s} \cup Content[s]]
      BY <2>3 DEF CreateStores
    <3>2. UNCHANGED index
      BY <2>3 DEF CreateStores
    <3>3. \A n \in Machines : files[n] \subseteq files'[n]
      BY <1>1, <3>1
    <3>4. FilesOf(s) \subseteq files'[m]
      BY <1>1, <3>1 DEF FilesOf
    <3>5. \A r : Publishing(m, r)' => r = s
      BY <1>1, <3>1 DEF Publishing
    <3>6. \A n \in Machines \ {m} : \A r : Publishing(n, r)' => Publishing(n, r)
      BY <1>1, <3>1 DEF Publishing
    <3>7. \A r \in Snaps : maker'[r] = m /\ (r \in Listed(index'[m]) \/ Publishing(m, r)') =>
            FilesOf(r) \subseteq files'[m] \/ r \in swept'[m] \/ SweptElsewhere(r)'
      <4>1. \A r \in Snaps : maker'[r] = m /\ r \in Listed(index[m]) => FilesOf(r) \subseteq files'[m] \/ r \in swept'[m] \/ SweptElsewhere(r)'
        BY <1>2, <1>3, <3>3 DEF OwnFiles
      <4> QED BY <3>2, <3>4, <3>5, <4>1
    <3>8. ASSUME NEW n \in Machines, n # m
          PROVE  \A r \in Snaps : maker'[r] = n /\ (r \in Listed(index'[n]) \/ Publishing(n, r)') =>
                   FilesOf(r) \subseteq files'[n] \/ r \in swept'[n] \/ SweptElsewhere(r)'
      BY <1>4, <3>2, <3>3, <3>6, <3>8
    <3> QED BY <3>7, <3>8 DEF OwnFiles, Listed
  <2>4. CASE Saves(m) \/ GCRemoves(m) \/ OpTurns(m)
    <3>1. /\ \A s : Publishing(m, s)' => Publishing(m, s)
          /\ \A n \in Machines \ {m} : op'[n] = op[n]
      BY <2>4, PublishingStays
    <3>2. /\ \A n \in Machines \ {m} : index'[n] = index[n] /\ files'[n] = files[n]
          /\ \A s \in Listed(index'[m]) : s \in Listed(index[m]) \/ Publishing(m, s)
      BY <1>2, <2>4, TaskFacts, SavedEntries, RemovesOne
    <3>3. \A s \in Snaps : maker[s] = m /\ (s \in Listed(index[m]) \/ Publishing(m, s)) /\ FilesOf(s) \subseteq files[m] =>
            FilesOf(s) \subseteq files'[m] \/ s \in swept'[m]
      BY <2>4, TaskFacts, RemovesJustly
    <3>4. ASSUME NEW n \in Machines
          PROVE  \A s \in Snaps : maker'[s] = n /\ (s \in Listed(index'[n]) \/ Publishing(n, s)') =>
                   FilesOf(s) \subseteq files'[n] \/ s \in swept'[n] \/ SweptElsewhere(s)'
      <4>1. CASE n = m
        <5>1. \A s \in Snaps : s \in Listed(index'[m]) \/ Publishing(m, s)' => s \in Listed(index[m]) \/ Publishing(m, s)
          BY <3>1, <3>2
        <5>2. \A s \in Snaps : (s \in Listed(index'[m]) \/ Publishing(m, s)') /\ maker[s] = m /\ FilesOf(s) \subseteq files[m] =>
                FilesOf(s) \subseteq files'[m] \/ s \in swept'[m]
          BY <3>3, <5>1
        <5> QED BY <1>4, <4>1, <5>1, <5>2
      <4>2. CASE n # m
        <5>1. \A s : Publishing(n, s)' => Publishing(n, s)
          BY <3>1, <4>2 DEF Publishing
        <5> QED BY <1>4, <3>2, <4>2, <5>1
      <4> QED BY <4>1, <4>2
    <3> QED BY <3>4 DEF OwnFiles, Listed
  <2>7. CASE CloneRemote(m) \/ PullForwards(m) \/ PullMerges(m)
    <3>1. PICK b \in 0..Len(commits), i \in Indexes :
            Pulls(m, b, i) /\ (Follows(m, b, i) \/ CommitsMerge(m, b, i) \/ Conflicts(m, b, i))
      BY <1>2, <2>7, PullSteps DEF PullStep
    <3>2. /\ UNCHANGED <<op, maker>> /\ files'[m] = Pulled(m, b, files[m])
          /\ \A n \in Machines \ {m} : index'[n] = index[n] /\ files'[n] = files[n]
      BY <1>1, <3>1 DEF Pulls, history
    <3>3. \A n, s : Publishing(n, s)' <=> Publishing(n, s)
      BY <3>2 DEF Publishing
    <3>4. \A s \in Snaps : maker[s] = m /\ (s \in Listed(index'[m]) \/ Publishing(m, s)) =>
            FilesOf(s) \subseteq files'[m] \/ s \in swept[m] \/ SweptElsewhere(s)
      BY <1>2, <3>1, <3>2, PulledFiles
    <3>5. \A s \in Snaps : maker'[s] = m /\ (s \in Listed(index'[m]) \/ Publishing(m, s)') =>
            FilesOf(s) \subseteq files'[m] \/ s \in swept'[m] \/ SweptElsewhere(s)'
      BY <1>3, <3>2, <3>3, <3>4, FilesTyped
    <3>6. ASSUME NEW n \in Machines, n # m
          PROVE  \A s \in Snaps : maker'[s] = n /\ (s \in Listed(index'[n]) \/ Publishing(n, s)') =>
                   FilesOf(s) \subseteq files'[n] \/ s \in swept'[n] \/ SweptElsewhere(s)'
      BY <1>4, <3>2, <3>3, <3>6
    <3> QED BY <3>5, <3>6 DEF OwnFiles, Listed
  <2> QED BY <1>7, <2>1, <2>2, <2>3, <2>4, <2>7
<1> QED BY <1>6, <1>7 DEF Next, Saves, OpTurns

LEMMA LocalFilesStep ==
    ASSUME ShapeInv, GraphInv, AloneInv, KeptInv, ListInv, TaskInv, TrackInv, RemovedInv, FileInv, [Next]_vars
    PROVE  LocalFiles'
<1>1. /\ files \in [Machines -> SUBSET Files] /\ index \in [Machines -> Indexes]
      /\ swept \in [Machines -> SUBSET Files]
      /\ op \in [Machines -> Ops \cup {None}] /\ maker \in [Snaps -> Machines \cup {None}]
      /\ \A n \in Machines : Listed(index[n]) \subseteq Snaps /\ (index[n] # Conflict => Listed(index[n]) = index[n])
  BY WorkTyped DEF ShapeInv, TypeOK
<1>2. /\ \A m \in Machines : Tracks(m)
      /\ UnmadeInv /\ LostInv /\ DroppedInv /\ FreshInv /\ OwnFiles /\ LocalFiles
  BY TrackParts, ListParts, FileParts
<1>3. /\ \A n \in Machines : swept[n] \subseteq swept'[n]
      /\ \A s \in Snaps : maker[s] # None => maker'[s] = maker[s] /\ (Excused(s) => Excused(s)')
      /\ \A n \in Machines : \A s \in Listed(index[n]) : s \in Snaps /\ maker[s] # None
  BY <1>2, HistoryStep, ExcusedStep, Made
<1>4. ASSUME NEW n \in Machines,
             \A s \in Listed(index'[n]) :
               /\ s \in Listed(index[n])
               /\ FilesOf(s) \subseteq files[n] => FilesOf(s) \subseteq files'[n] \/ s \in swept'[n] \/ Excused(s)'
      PROVE  \A s \in Listed(index'[n]) : FilesOf(s) \subseteq files'[n] \/ s \in swept'[n] \/ Excused(s)'
  BY <1>2, <1>3, <1>4 DEF LocalFiles
<1>5. ASSUME index' = index, \A n \in Machines : files[n] \subseteq files'[n] PROVE LocalFiles'
  BY <1>4, <1>5 DEF LocalFiles, Listed
<1>6. CASE UNCHANGED vars
  BY <1>5, <1>6 DEF vars, local
<1>7. ASSUME NEW m \in Machines,
             \/ InitRemote(m) \/ CloneRemote(m) \/ CreateStores(m) \/ Saves(m)
             \/ GCRemoves(m) \/ OpTurns(m) \/ PushLists(m) \/ PushCommits(m) \/ PushSends(m)
             \/ PullForwards(m) \/ PullMerges(m)
      PROVE  LocalFiles'
  <2>1. CASE InitRemote(m) \/ PushLists(m) \/ PushSends(m) \/ CreateStores(m)
    <3>1. UNCHANGED index
      BY <2>1 DEF InitRemote, PushLists, PushSends, CreateStores, local
    <3>2. \A n \in Machines : files[n] \subseteq files'[n]
      BY <1>1, <2>1 DEF InitRemote, PushLists, PushSends, CreateStores, local
    <3> QED BY <1>5, <3>1, <3>2
  <2>2. CASE PushCommits(m)
    <3>1. UNCHANGED <<index, files>>
      BY <2>2, PushCases DEF local
    <3> QED BY <1>5, <3>1
  <2>3. CASE OpTurns(m)
    <3>1. UNCHANGED <<index, files>>
      BY <2>3, TaskFacts
    <3> QED BY <1>5, <3>1
  <2>4. CASE Saves(m)
    <3>1. /\ UNCHANGED files /\ \A n \in Machines \ {m} : index'[n] = index[n]
          /\ \A s \in Listed(index'[m]) :
               s \in Listed(index[m]) \/ (maker[s] = m /\ s \in Snaps /\ Publishing(m, s))
      <4>1. \A s : Publishing(m, s) => s \in Snaps
        <5>1. op[m] # None => op[m] \in Ops /\ (op[m].snap # 0 <=> op[m].do \in {"publish", "save"})
          BY <1>1 DEF ShapeInv
        <5> QED BY <5>1 DEF Publishing, Ops, Snaps
      <4> QED BY <1>2, <2>4, <4>1, TaskFacts, SavedEntries
    <3>2. ASSUME NEW s \in Listed(index'[m])
          PROVE  FilesOf(s) \subseteq files'[m] \/ s \in swept'[m] \/ Excused(s)'
      <4>1. CASE s \in Listed(index[m])
        BY <1>2, <1>3, <3>1, <4>1 DEF LocalFiles
      <4>2. CASE s \in Snaps /\ maker[s] = m /\ Publishing(m, s)
        <5>1. FilesOf(s) \subseteq files[m] \/ s \in swept[m] \/ Excused(s)
          BY <1>2, <4>2 DEF OwnFiles, Excused
        <5> QED BY <1>3, <3>1, <4>2, <5>1, FilesTyped
      <4> QED BY <3>1, <4>1, <4>2
    <3>3. ASSUME NEW n \in Machines, n # m
          PROVE  \A s \in Listed(index'[n]) : FilesOf(s) \subseteq files'[n] \/ s \in swept'[n] \/ Excused(s)'
      BY <1>4, <3>1, <3>3
    <3> QED BY <3>2, <3>3 DEF LocalFiles, Listed
  <2>5. CASE GCRemoves(m)
    <3>1. /\ UNCHANGED <<index, maker>> /\ \A n \in Machines \ {m} : files'[n] = files[n]
          /\ \A f \in files[m] : f \in files'[m] \/ f \in swept'[m]
      BY <2>5, TaskFacts, RemovesOne
    <3>2. ASSUME NEW s \in Listed(index[m]), FilesOf(s) \subseteq files[m]
          PROVE  FilesOf(s) \subseteq files'[m] \/ s \in swept'[m] \/ Excused(s)'
      <4>1. CASE maker[s] = m
        BY <1>3, <2>5, <3>2, <4>1, RemovesJustly
      <4>2. CASE maker[s] # m
        <5>1. FilesOf(s) \subseteq files'[m] \/ SweptElsewhere(s)'
          BY <3>1, <3>2, <4>2 DEF SweptElsewhere, FilesOf
        <5> QED BY <5>1 DEF Excused
      <4> QED BY <4>1, <4>2
    <3>3. \A s \in Listed(index'[m]) : FilesOf(s) \subseteq files'[m] \/ s \in swept'[m] \/ Excused(s)'
      BY <1>4, <3>1, <3>2
    <3>4. ASSUME NEW n \in Machines, n # m
          PROVE  \A s \in Listed(index'[n]) : FilesOf(s) \subseteq files'[n] \/ s \in swept'[n] \/ Excused(s)'
      BY <1>4, <3>1, <3>4
    <3> QED BY <3>3, <3>4 DEF LocalFiles, Listed
  <2>6. CASE CloneRemote(m) \/ PullForwards(m) \/ PullMerges(m)
    <3>1. PICK b \in 0..Len(commits), i \in Indexes :
            Pulls(m, b, i) /\ (Follows(m, b, i) \/ CommitsMerge(m, b, i) \/ Conflicts(m, b, i))
      BY <1>2, <2>6, PullSteps DEF PullStep
    <3>2. /\ files'[m] = Pulled(m, b, files[m]) /\ remote # 0
          /\ \A n \in Machines \ {m} : index'[n] = index[n] /\ files'[n] = files[n]
      BY <1>1, <3>1 DEF Pulls
    <3>3. remote \in 1..Len(commits)
      BY <3>2, AtTyped
    <3>4. \A s \in Listed(index'[m]) : s \in Listed(index[m]) \cup Listed(At(remote).index)
      BY <3>1, PullEntries DEF PulledEntries
    <3>5. \A s \in Listed(index'[m]) : s \in Snaps /\ maker[s] # None
      BY <1>2, <3>3, <3>4, Made
    <3>6. \A s \in Listed(index'[m]) : FilesOf(s) \subseteq files'[m] \/ s \in swept[m] \/ Excused(s)
      BY <1>2, <3>1, <3>2, <3>5, PulledFiles
    <3>7. \A s \in Listed(index'[m]) : FilesOf(s) \subseteq files'[m] \/ s \in swept'[m] \/ Excused(s)'
      BY <1>3, <3>5, <3>6
    <3>8. ASSUME NEW n \in Machines, n # m
          PROVE  \A s \in Listed(index'[n]) : FilesOf(s) \subseteq files'[n] \/ s \in swept'[n] \/ Excused(s)'
      BY <1>4, <3>2, <3>8
    <3> QED BY <3>7, <3>8 DEF LocalFiles, Listed
  <2> QED BY <1>7, <2>1, <2>2, <2>3, <2>4, <2>5, <2>6
<1> QED BY <1>6, <1>7 DEF Next, Saves, OpTurns

LEMMA CommitFilesStep ==
    ASSUME ShapeInv, GraphInv, AloneInv, KeptInv, ListInv, TaskInv, TrackInv, RemovedInv, FileInv, [Next]_vars
    PROVE  CommitFiles'
<1>1. /\ \A m \in Machines : Tracks(m)
      /\ UnmadeInv /\ LostInv /\ DroppedInv /\ FreshInv /\ LocalFiles /\ CommitFiles /\ SeenFiles
  BY TrackParts, ListParts, FileParts
<1>2. /\ \A s \in Snaps : maker[s] # None => (Excused(s) => Excused(s)')
      /\ \A n \in Machines : \A s \in Listed(index[n]) : s \in Snaps /\ maker[s] # None
      /\ \A c \in 1..Len(commits) : \A s \in Listed(At(c).index) : s \in Snaps /\ maker[s] # None
  BY <1>1, ExcusedStep, Made
<1>3. \A c \in 1..Len(commits) : c \in 0..Len(commits)
  BY AtTyped
<1>4. ASSUME NEW c \in 1..Len(commits), At(c)' = At(c)
      PROVE  \A s \in Listed(At(c)'.index) : FilesOf(s) \subseteq At(c)'.files \/ Excused(s)'
  BY <1>1, <1>2, <1>4 DEF CommitFiles
<1>5. ASSUME UNCHANGED commits PROVE CommitFiles'
  <2>1. \A c : At(c)' = At(c)
    BY <1>5 DEF At
  <2> QED BY <1>4, <1>5, <2>1 DEF CommitFiles, Listed
<1>6. CASE UNCHANGED vars
  BY <1>5, <1>6 DEF vars, shared
<1>7. ASSUME NEW m \in Machines,
             \/ InitRemote(m) \/ CloneRemote(m) \/ CreateStores(m) \/ Saves(m)
             \/ GCRemoves(m) \/ OpTurns(m) \/ PushLists(m) \/ PushCommits(m) \/ PushSends(m)
             \/ PullForwards(m) \/ PullMerges(m)
      PROVE  CommitFiles'
  <2>1. CASE \/ InitRemote(m) \/ CreateStores(m) \/ Saves(m)
             \/ GCRemoves(m) \/ OpTurns(m) \/ PushLists(m) \/ PushSends(m)
    <3>1. UNCHANGED commits
      BY <2>1, TaskFacts DEF InitRemote, CreateStores, PushLists, PushSends, shared
    <3> QED BY <1>5, <3>1
  <2>2. CASE PushCommits(m)
    <3>1. sync[m] # None /\ sync[m].do = "add" /\ remote' = remote
      BY <2>2, PushCases
    <3>2. CASE FailsToCommit(m) \/ HasNothingNew(m)
      BY <1>5, <3>2 DEF FailsToCommit, HasNothingNew
    <3>3. CASE CommitsOwn(m)
      <4>1. PICK new \in 1..Len(commits') : KnownAfterOwn(m, new)
        BY <3>1, <3>3, OwnKnown
      <4>2. /\ \A c \in 0..Len(commits) : At(c)' = At(c)
            /\ 1..Len(commits') = (1..Len(commits)) \cup {new}
            /\ At(new)'.files = Staged(m) /\ At(new)'.index = index[m]
        BY <4>1 DEF KnownAfterOwn, KnownAfterCommit
      <4>3. torn' = torn \cup (Listed(index[m]) \ sync[m].seen) \cup HalfPruned(m) /\ sync[m].new \subseteq files[m]
        BY <3>3 DEF CommitsOwn, PushesOn
      <4>4. ASSUME NEW s \in Listed(index[m]) PROVE FilesOf(s) \subseteq Staged(m) \/ Excused(s)'
        <5>1. CASE s \notin sync[m].seen \/ s \in swept[m]
          BY <4>3, <5>1 DEF Excused, HalfPruned
        <5>2. CASE s \in sync[m].seen /\ s \notin swept[m]
          <6>1. FilesOf(s) \subseteq tracked[m] \cup sync[m].new \/ Excused(s)
            BY <1>1, <3>1, <5>2 DEF SeenFiles
          <6>2. FilesOf(s) \subseteq files[m] \/ Excused(s)
            BY <1>1, <5>2 DEF LocalFiles
          <6>3. FilesOf(s) \subseteq Staged(m) \/ Excused(s)
            BY <6>1, <6>2 DEF Staged
          <6> QED BY <1>2, <6>3
        <5> QED BY <5>1, <5>2
      <4>5. \A s \in Listed(At(new)'.index) : FilesOf(s) \subseteq At(new)'.files \/ Excused(s)'
        BY <4>2, <4>4
      <4> QED BY <1>3, <1>4, <4>2, <4>5 DEF CommitFiles, Listed
    <3> QED BY <2>2, <3>2, <3>3, PushCases
  <2>3. CASE CloneRemote(m) \/ PullForwards(m) \/ PullMerges(m)
    <3>1. PICK b \in 0..Len(commits), i \in Indexes :
            Pulls(m, b, i) /\ (Follows(m, b, i) \/ CommitsMerge(m, b, i) \/ Conflicts(m, b, i))
      BY <1>1, <2>3, PullSteps DEF PullStep
    <3>2. \A c \in 0..Len(commits) : At(c)' = At(c)
      BY <3>1, PullKnown DEF KnownAfterPull
    <3>3. \A c \in 0..Len(commits') : c \notin 0..Len(commits) =>
            At(c)'.index = i /\ At(c)'.files = Pulled(m, b, tracked[m])
      BY <3>1, PullHead DEF KnownAtHead
    <3>4. \A s \in Listed(i) : FilesOf(s) \subseteq Pulled(m, b, tracked[m]) \/ Excused(s)'
      <4>1. \A s \in Listed(i) : FilesOf(s) \subseteq Pulled(m, b, tracked[m]) \/ Excused(s)
        BY <1>1, <3>1, PulledFiles
      <4>2. \A s \in Listed(i) : s \in Listed(At(head[m]).index) \cup Listed(At(remote).index)
        BY <3>1, MergeEntries DEF MergedEntries
      <4>3. /\ head[m] \in 0..Len(commits) /\ remote \in 0..Len(commits)
            /\ \A c \in 0..Len(commits) : c # 0 => c \in 1..Len(commits)
            /\ Listed(At(0).index) = {}
        BY AtTyped, ListedTyped
      <4>4. \A s \in Listed(i) : s \in Snaps /\ maker[s] # None
        BY <1>2, <4>2, <4>3
      <4> QED BY <1>2, <4>1, <4>4
    <3>5. ASSUME NEW c \in 1..Len(commits')
          PROVE  \A s \in Listed(At(c)'.index) : FilesOf(s) \subseteq At(c)'.files \/ Excused(s)'
      <4>1. CASE c \in 1..Len(commits)
        BY <1>3, <1>4, <3>2, <4>1
      <4>2. CASE c \notin 1..Len(commits)
        <5>1. c \in 0..Len(commits') /\ c \notin 0..Len(commits)
          BY <3>5, <4>2, AtTyped
        <5> QED BY <3>3, <3>4, <5>1
      <4> QED BY <4>1, <4>2
    <3> QED BY <3>5 DEF CommitFiles, Listed
  <2> QED BY <1>7, <2>1, <2>2, <2>3
<1> QED BY <1>6, <1>7 DEF Next, Saves, OpTurns

LEMMA SeenFilesStep ==
    ASSUME ShapeInv, GraphInv, AloneInv, KeptInv, ListInv, TaskInv, TrackInv, RemovedInv, FileInv, [Next]_vars
    PROVE  SeenFiles'
<1>1. /\ \A m \in Machines : Tracks(m)
      /\ UnmadeInv /\ FreshInv /\ LocalFiles /\ SeenFiles
  BY TrackParts, ListParts, FileParts
<1>2. /\ \A n \in Machines : swept[n] \subseteq swept'[n]
      /\ \A s \in Snaps : maker[s] # None => (Excused(s) => Excused(s)')
      /\ \A n \in Machines : \A s \in Listed(index[n]) : s \in Snaps /\ maker[s] # None
      /\ \A n \in Machines : sync[n] # None => \A s \in sync[n].seen : s \in Snaps /\ maker[s] # None
      /\ sync \in [Machines -> Syncs \cup {None}] /\ tracked \in [Machines -> SUBSET Files]
  BY <1>1, HistoryStep, ExcusedStep, Made DEF ShapeInv, TypeOK
<1>3. ASSUME NEW n \in Machines,
             sync'[n] # None /\ sync'[n].do = "add" => sync'[n] = sync[n] /\ tracked'[n] = tracked[n]
      PROVE  sync'[n] # None /\ sync'[n].do = "add" =>
               \A s \in sync'[n].seen : FilesOf(s) \subseteq tracked'[n] \cup sync'[n].new \/ s \in swept'[n] \/ Excused(s)'
  BY <1>1, <1>2, <1>3 DEF SeenFiles
<1>4. ASSUME UNCHANGED tracked, \A n \in Machines : sync'[n] = sync[n] \/ sync'[n] = None PROVE SeenFiles'
  BY <1>3, <1>4 DEF SeenFiles
<1>5. CASE UNCHANGED vars
  BY <1>4, <1>5 DEF vars, git
<1>6. ASSUME NEW m \in Machines,
             \/ InitRemote(m) \/ CloneRemote(m) \/ CreateStores(m) \/ Saves(m)
             \/ GCRemoves(m) \/ OpTurns(m) \/ PushLists(m) \/ PushCommits(m) \/ PushSends(m)
             \/ PullForwards(m) \/ PullMerges(m)
      PROVE  SeenFiles'
  <2>1. CASE InitRemote(m) \/ CreateStores(m) \/ Saves(m) \/ GCRemoves(m) \/ OpTurns(m)
    <3>1. UNCHANGED <<tracked, sync>>
      BY <2>1, TaskFacts DEF InitRemote, CreateStores, git
    <3> QED BY <1>4, <3>1
  <2>2. CASE PushSends(m)
    <3>1. UNCHANGED tracked /\ sync' = [sync EXCEPT ![m] = None]
      BY <2>2 DEF PushSends, git
    <3> QED BY <1>2, <1>4, <3>1
  <2>3. CASE PushLists(m)
    <3>1. /\ UNCHANGED tracked
          /\ sync' = [sync EXCEPT ![m] = [do |-> "add", new |-> (files[m] \ tracked[m]) \ Ignored(m),
                                          seen |-> Listed(index[m])]]
      BY <2>3 DEF PushLists, git
    <3>2. sync'[m].new = (files[m] \ tracked[m]) \ Ignored(m) /\ sync'[m].seen = Listed(index[m])
      BY <1>2, <3>1
    <3>3. \A s \in Snaps : FilesOf(s) \cap Ignored(m) = {}
      BY FilesTyped DEF Ignored, FilesOf
    <3>4. \A s \in Listed(index[m]) : FilesOf(s) \subseteq tracked'[m] \cup sync'[m].new \/ s \in swept'[m] \/ Excused(s)'
      <4> TAKE s \in Listed(index[m])
      <4>1. FilesOf(s) \subseteq files[m] \/ s \in swept[m] \/ Excused(s)
        BY <1>1 DEF LocalFiles
      <4>2. FilesOf(s) \subseteq files[m] => FilesOf(s) \subseteq tracked'[m] \cup sync'[m].new
        BY <1>2, <3>1, <3>2, <3>3
      <4> QED BY <1>2, <4>1, <4>2
    <3>5. \A n \in Machines \ {m} : sync'[n] = sync[n]
      BY <1>2, <3>1
    <3>6. ASSUME NEW n \in Machines
          PROVE  sync'[n] # None /\ sync'[n].do = "add" =>
                   \A s \in sync'[n].seen : FilesOf(s) \subseteq tracked'[n] \cup sync'[n].new \/ s \in swept'[n] \/ Excused(s)'
      <4>1. CASE n = m
        BY <3>2, <3>4, <4>1
      <4>2. CASE n # m
        BY <1>3, <3>1, <3>5, <4>2
      <4> QED BY <4>1, <4>2
    <3> QED BY <3>6 DEF SeenFiles
  <2>4. CASE PushCommits(m)
    <3>1. sync[m] # None
      BY <2>4, PushCases
    <3>2. CASE FailsToCommit(m)
      BY <1>2, <1>4, <3>2 DEF FailsToCommit
    <3>3. CASE PushesOn(m)
      <4>1. sync'[m].do # "add" /\ \A n \in Machines \ {m} : sync'[n] = sync[n] /\ tracked'[n] = tracked[n]
        BY <1>2, <3>1, <3>3 DEF PushesOn, Syncs
      <4>2. ASSUME NEW n \in Machines
            PROVE  sync'[n] # None /\ sync'[n].do = "add" =>
                     \A s \in sync'[n].seen : FilesOf(s) \subseteq tracked'[n] \cup sync'[n].new \/ s \in swept'[n] \/ Excused(s)'
        <5>1. CASE n = m
          BY <4>1, <5>1
        <5>2. CASE n # m
          BY <1>3, <4>1, <5>2
        <5> QED BY <5>1, <5>2
      <4> QED BY <4>2 DEF SeenFiles
    <3> QED BY <2>4, <3>2, <3>3, PushCases DEF HasNothingNew, CommitsOwn
  <2>5. CASE CloneRemote(m) \/ PullForwards(m) \/ PullMerges(m)
    <3>1. PICK b \in 0..Len(commits), i \in Indexes :
            Pulls(m, b, i) /\ (Follows(m, b, i) \/ CommitsMerge(m, b, i) \/ Conflicts(m, b, i))
      BY <1>1, <2>5, PullSteps DEF PullStep
    <3>2. UNCHANGED sync /\ sync[m] = None /\ \A n \in Machines \ {m} : tracked'[n] = tracked[n]
      BY <1>2, <3>1 DEF Pulls
    <3>3. ASSUME NEW n \in Machines
          PROVE  sync'[n] # None /\ sync'[n].do = "add" =>
                   \A s \in sync'[n].seen : FilesOf(s) \subseteq tracked'[n] \cup sync'[n].new \/ s \in swept'[n] \/ Excused(s)'
      BY <1>3, <3>2
    <3> QED BY <3>3 DEF SeenFiles
  <2> QED BY <1>6, <2>1, <2>2, <2>3, <2>4, <2>5
<1> QED BY <1>5, <1>6 DEF Next, Saves, OpTurns

LEMMA FileStep ==
    ASSUME ShapeInv, GraphInv, AloneInv, KeptInv, ListInv, TaskInv, TrackInv, RemovedInv, FileInv, [Next]_vars
    PROVE  FileInv'
BY OwnFilesStep, LocalFilesStep, CommitFilesStep, SeenFilesStep, FileParts

-----------------------------------------------------------------------------
(* The properties.                                                         *)

Inv ==
  /\ ShapeInv /\ GraphInv /\ AloneInv /\ (\A m \in Machines : Tracks(m)) /\ IgnoreInv /\ IdentityInv
  /\ ~crossed => KeptInv /\ ListInv /\ TaskInv /\ TrackInv /\ RemovedInv /\ FileInv

LEMMA InvInit == Init => Inv
BY ShapeInit, GraphInit, AloneInit, IgnoreInit, KeptInit, ListInit, TaskInit, TrackInit, RemovedInit, FileInit DEF Inv

LEMMA InvStep == Inv /\ [Next]_vars => Inv'
<1> SUFFICES ASSUME Inv, [Next]_vars PROVE Inv'
  OBVIOUS
<1>1. ShapeInv /\ GraphInv /\ AloneInv /\ (\A m \in Machines : Tracks(m)) /\ IgnoreInv /\ IdentityInv
  BY DEF Inv
<1>2. ShapeInv' /\ GraphInv' /\ AloneInv' /\ (\A m \in Machines : Tracks(m))' /\ IgnoreInv' /\ IdentityInv'
  BY <1>1, ShapeStep, GraphStep, AloneStep, TracksStep, IgnoreStep, IdentityStep
<1>3. ASSUME ~crossed' PROVE KeptInv' /\ ListInv' /\ TaskInv' /\ TrackInv' /\ RemovedInv' /\ FileInv'
  <2>1. KeptInv /\ ListInv /\ TaskInv /\ TrackInv /\ RemovedInv /\ FileInv
    BY <1>1, <1>3, CrossedStays DEF Inv
  <2>2. KeptInv' /\ ListInv' /\ TaskInv'
    BY <1>1, <1>3, <2>1, KeptStep, ListStep, TaskStep
  <2> QED BY <1>1, <2>1, <2>2, TrackStep, RemovedStep, FileStep
<1> QED BY <1>2, <1>3 DEF Inv

\* The invariant of every history that is shared.
THEOREM SharedHistoriesInv == Spec => []Inv
<1> QED BY InvInit, InvStep, PTL DEF Spec

\* What a push has published can be restored by whoever clones it, and stays
\* published (src/internal/remote/remote.go:149-178), unless it was committed in
\* the middle of being listed or pruned or another machine's GC took its files,
\* and as long as no pull has changed an index that a Create or GC, having loaded
\* it, saved afterwards.
THEOREM PublishedIsSafeAlways == Spec => []PublishedIsSafe
<1>1. Inv => PublishedIsSafe
  <2> SUFFICES ASSUME Inv PROVE PublishedIsSafe
    OBVIOUS
  <2>1. ShapeInv /\ (~crossed => KeptInv /\ CommitFiles)
    BY FileParts DEF Inv
  <2>2. ASSUME ~crossed PROVE PublishedIsComplete
    <3> SUFFICES ASSUME NEW s \in Listed(At(remote).index)
                 PROVE  Complete(s, At(remote).files) \/ s \in torn \/ SweptElsewhere(s)
      BY DEF PublishedIsComplete
    <3>1. remote # 0
      BY <2>1, AtTyped, ListedTyped
    <3>2. remote \in 1..Len(commits)
      BY <2>1, <3>1, AtTyped
    <3>3. FilesOf(s) \subseteq At(remote).files \/ Excused(s)
      BY <2>1, <2>2, <3>2 DEF CommitFiles
    <3> QED BY <3>3 DEF FilesOf, Excused, Complete
  <2> QED BY <2>1, <2>2 DEF PublishedIsSafe, ShapeInv, KeptInv
<1> QED BY <1>1, SharedHistoriesInv, PTL

\* The machine that made a snapshot keeps it, complete, whatever it pushes and
\* pulls, as long as no pull has crossed a Create or GC and unless its own GC has
\* begun to prune it, or another's took its files; and in any case identity.json
\* is in no commit but those that descend from a failed Init
\* (src/internal/remote/remote.go:112-205).
THEOREM LocalIsSafeAlways == Spec => []LocalIsSafe
<1>1. Inv => LocalIsSafe
  <2> SUFFICES ASSUME Inv PROVE LocalIsSafe
    OBVIOUS
  <2>1. ShapeInv /\ IdentityInv /\ (~crossed => KeptInv /\ OwnFiles)
    BY FileParts DEF Inv
  <2>2. ASSUME ~crossed PROVE OwnIsComplete
    <3> SUFFICES ASSUME NEW m \in Machines, NEW s \in Listed(index[m]), maker[s] = m
                 PROVE  Complete(s, files[m]) \/ s \in HalfPruned(m) \/ SweptElsewhere(s)
      BY DEF OwnIsComplete
    <3>1. s \in Snaps
      BY <2>1, ListedTyped DEF ShapeInv, TypeOK
    <3> QED BY <2>1, <2>2, <3>1 DEF OwnFiles, FilesOf, Complete, HalfPruned
  <2>3. IdentityExplained
    <3> SUFFICES ASSUME NEW c \in 1..Len(commits), Identity \in commits[c].files
                 PROVE  commits[c].past \cap early # {}
      BY DEF IdentityExplained
    <3>1. c \in 0..Len(commits) /\ At(c) = commits[c] /\ Past(c) = At(c).past
      BY <2>1, AtTyped
    <3> QED BY <2>1, <3>1 DEF IdentityInv
  <2> QED BY <2>1, <2>2, <2>3 DEF LocalIsSafe, KeptInv
<1> QED BY <1>1, SharedHistoriesInv, PTL

=============================================================================
