------------------------------ MODULE MergeDiff ------------------------------
(* The bounded-memory sort of a scan and the merge join of a diff, as         *)
(* functions: internal/snapshot/extsort.go, docrefstore.go and diff.go.       *)
(* A document reference is a record [id, hash]; identifiers are compared as   *)
(* the numbers they are here, where the code compares strings.                *)
EXTENDS Integers, Sequences, SequencesExt, FiniteSetsExt

\* sort.Slice by identifier: each reference goes to the place it has by its rank
\* (no two documents of a collection share an identifier).
Place(refs, k) == Cardinality({j \in DOMAIN refs : refs[j].id <= refs[k].id})

SortById(refs) == [i \in DOMAIN refs |-> refs[CHOOSE k \in DOMAIN refs : Place(refs, k) = i]]

(***************************************************************************)
(* extSortSpill: a buffer, the sorted run files already on disk, and       *)
(* whether the buffer holds references in no order and in no run.          *)
(***************************************************************************)
NewSpill == [buf |-> <<>>, runs |-> <<>>, dirty |-> FALSE]

SpillBuffer(s) ==
    IF s.buf = <<>> THEN s
    ELSE [buf |-> <<>>, runs |-> Append(s.runs, SortById(s.buf)), dirty |-> FALSE]

SpillIsFull(s, runSize) == Len(s.buf) >= runSize

SpillAdd(s, ref, runSize) ==
    LET grown == [s EXCEPT !.buf = Append(@, ref), !.dirty = TRUE]
    IN  IF SpillIsFull(grown, runSize) THEN SpillBuffer(grown) ELSE grown

\* Mutant of Settled: a buffer that was never spilled is not sorted.
Settled_NoSort(s) == IF s.runs # <<>> /\ s.dirty THEN SpillBuffer(s) ELSE s

\* What NewIterator leaves behind: a small buffer sorted in place, or the tail
\* flushed so that everything is in a run.
Settled(s) ==
    IF s.runs = <<>> THEN [s EXCEPT !.buf = SortById(@), !.dirty = FALSE]
    ELSE IF s.dirty THEN SpillBuffer(s)
    ELSE s

\* One list of references as the runs of a merge: an empty one is not opened.
StoredRuns(refs) == IF refs = <<>> THEN <<>> ELSE <<refs>>

\* The runs NewIterator opens on a settled spill: the buffer alone when nothing
\* was ever spilled, else one reader per run file.
OpenRuns(s) ==
    IF s.runs # <<>> THEN s.runs ELSE StoredRuns(s.buf)

(***************************************************************************)
(* mergeHeap: the run whose head has the smallest identifier comes first.  *)
(***************************************************************************)
\* Mutant of TopRun: no heap, the runs one after the other.
TopRun_First(runs) == 1

TopRun(runs) ==
    CHOOSE i \in DOMAIN runs : \A j \in DOMAIN runs : Head(runs[i]).id <= Head(runs[j]).id

TopRef(runs) == Head(runs[TopRun(runs)])

\* extSortMergeIterator.Next: advance the top run, and drop it at its end.
PopTop(runs) ==
    LET i == TopRun(runs)
    IN  IF Len(runs[i]) = 1 THEN RemoveAt(runs, i) ELSE [runs EXCEPT ![i] = Tail(@)]

(***************************************************************************)
(* One step of mergeJoin: the change the two heads stand for, if any, and  *)
(* which sides move on.                                                    *)
(***************************************************************************)
NoChange == [type |-> "none"]
Change(type, id) == [type |-> type, id |-> id]

JoinHeads(f, t) ==
    IF f.id < t.id THEN [change |-> Change("removed", f.id), from |-> TRUE, to |-> FALSE]
    ELSE IF f.id > t.id THEN [change |-> Change("added", t.id), from |-> FALSE, to |-> TRUE]
    ELSE [change |-> IF f.hash # t.hash THEN Change("modified", f.id) ELSE NoChange,
          from |-> TRUE, to |-> TRUE]

\* Once one side has ended, the other side's documents are all changes.
RestOfFrom(f) == [change |-> Change("removed", f.id), from |-> TRUE, to |-> FALSE]
RestOfTo(t) == [change |-> Change("added", t.id), from |-> FALSE, to |-> TRUE]

(***************************************************************************)
(* DiffCollectionPage: offset and limit are clamped, never refused, and    *)
(* the changes of the asked type are counted to the end.                   *)
(***************************************************************************)
ClampedOffset(offset) == IF offset < 0 THEN 0 ELSE offset

ClampedLimit(limit, pageMax) == IF limit <= 0 \/ limit > pageMax THEN pageMax ELSE limit

EmptyPage == [ids |-> <<>>, total |-> 0]

\* Mutant of AddToPage: the page starts one change late.
AddToPage_OffByOne(page, change, want, pageMax) ==
    IF change.type # want.type THEN page
    ELSE [ids |-> IF page.total > ClampedOffset(want.offset) /\ Len(page.ids) < ClampedLimit(want.limit, pageMax)
                  THEN Append(page.ids, change.id) ELSE page.ids,
          total |-> page.total + 1]

AddToPage(page, change, want, pageMax) ==
    IF change.type # want.type THEN page
    ELSE [ids |-> IF page.total >= ClampedOffset(want.offset) /\ Len(page.ids) < ClampedLimit(want.limit, pageMax)
                  THEN Append(page.ids, change.id) ELSE page.ids,
          total |-> page.total + 1]

(***************************************************************************)
(* Reference definitions, for the properties only.                         *)
(***************************************************************************)
\* A collection as a list of references: identifiers can be compared and are
\* those of one document each.
IsRefList(refs) ==
    /\ refs \in Seq(ToSet(refs)) /\ \A r \in ToSet(refs) : r.id \in Int
    /\ \A i, j \in DOMAIN refs : refs[i].id = refs[j].id => i = j

InIdOrder(refs) == \A i, j \in DOMAIN refs : i < j => refs[i].id < refs[j].id

\* What is in several runs together, and that nothing is in two places there.
HeldBy(runs) == UNION {ToSet(runs[i]) : i \in DOMAIN runs}

NoneTwice(runs) ==
    \A i, j \in DOMAIN runs : \A k \in DOMAIN runs[i], l \in DOMAIN runs[j] :
        runs[i][k].id = runs[j][l].id => i = j /\ k = l

IdsIn(refs) == {r.id : r \in refs}
IdsOf(refs) == IdsIn(ToSet(refs))

ChangesBetween(from, to) ==
       {Change("removed", i) : i \in IdsOf(from) \ IdsOf(to)}
  \cup {Change("added", i) : i \in IdsOf(to) \ IdsOf(from)}
  \cup {Change("modified", r.id) : r \in {x \in ToSet(from) :
            \E y \in ToSet(to) : y.id = x.id /\ y.hash # x.hash}}
=============================================================================
