------------------------------- MODULE LiveDiff -------------------------------
(* What a scan is for: Create writes the spilled references to the backend,    *)
(* ScanLive keeps them as one side of a diff; and the diff itself, of a stored *)
(* snapshot with another one or with the live scan, as the CLI, the terminal   *)
(* UI and the desktop bindings ask for it (snapshotter.go, diff.go,            *)
(* cmd/snapshot_diff.go, desktop/snapshots.go).                                *)
EXTENDS ScanPipeline

CONSTANTS
    StoredRefs,  \* reference lists stored snapshots may have, in identifier order
    PageMax,     \* diffPageMaxLimit
    Wants        \* pages that are asked for: records [type, offset, limit]

ASSUME DiffAssumption ==
    /\ \A refs \in StoredRefs : IsRefList(refs) /\ InIdOrder(refs)
    /\ PageMax \in Nat
    /\ Wants \subseteq [type : {"added", "removed", "modified"}, offset : Int, limit : Int]

VARIABLES
    caller,   \* "create" or "diff"; a diff becomes "cli" (StreamDiff), "tui"
              \* (Compare), "count" (the desktop's Compare) or "page" once its
              \* sides are there
    target,   \* "live" or "stored": the side the snapshot is compared with
    stage,    \* "scan", "open", "join", "write", "closing", or how it ended
    old,      \* the references of the from snapshot
    new,      \* the references of the stored to snapshot
    from, to, \* the two open iterators
    changes,  \* history: what onChange was called with, in order
    want,     \* the page that is asked for
    page,     \* what DiffCollectionPage has collected
    written   \* the references WriteDocRefs has put in the backend, in order

diffVars == <<caller, target, stage, old, new, from, to, changes, want, page, written>>
allVars == <<scanVars, diffVars>>
request == <<caller, target, old, new, want>>

Scanning == target = "live"

DiffInit ==
    /\ ScanInit
    /\ caller \in {"create", "diff"} /\ target \in {"live", "stored"}
    /\ caller = "create" <=> persist
    /\ caller = "create" => target = "live"
    /\ kind = "sql" => caller = "create"
    /\ stage = IF Scanning THEN "scan" ELSE "open"
    /\ target = "stored" => input = <<>>
    /\ old = <<>> /\ new = <<>> /\ want = [type |-> "none"]
    /\ from = <<>> /\ to = <<>> /\ changes = <<>> /\ page = EmptyPage /\ written = <<>>

ScanStep == Scanning /\ ScanNext /\ UNCHANGED diffVars

ScanDone ==
    /\ stage = "scan" /\ main \in {"ok", "error"}
    /\ stage' = IF main = "error" THEN "failed" ELSE "open"
    /\ UNCHANGED <<scanVars, request, from, to, changes, page, written>>

\* NewIterator: the spill's tail is sorted or flushed first.
OpenSpill == spill' = Settled(spill) /\ to' = OpenRuns(spill')

keepScan == <<kind, persist, input, reader, jobs, worker, results, main, tempDir,
              batch, stored, count, firstErr>>

OpenForWrite ==
    /\ stage = "open" /\ caller = "create"
    /\ OpenSpill /\ stage' = "write"
    /\ UNCHANGED <<keepScan, faults, request, from, changes, page, written>>

\* WriteDocRefs takes the references as the iterator yields them.
WriteRef ==
    /\ stage = "write" /\ to # <<>>
    /\ written' = Append(written, TopRef(to)) /\ to' = PopTop(to)
    /\ UNCHANGED <<scanVars, request, stage, from, changes, page>>

\* openDiffScope returns a nil manifest for a live target and the desktop
\* bindings read its ID: the call panics with the scope's deferred Close only.
OpenPanics ==
    /\ stage = "open" /\ caller = "diff" /\ target = "live"
    /\ caller' \in {"count", "page"}
    /\ stage' = "panicked"
    /\ UNCHANGED <<scanVars, target, old, new, want, from, to, changes, page, written>>

OpenForDiff ==
    /\ stage = "open" /\ caller = "diff"
    /\ caller' \in (IF target = "live" THEN {"cli", "tui"} ELSE {"cli", "tui", "count", "page"})
    /\ old' \in StoredRefs /\ from' = StoredRuns(old')
    /\ IF target = "live"
       THEN OpenSpill /\ UNCHANGED new
       ELSE new' \in StoredRefs /\ to' = StoredRuns(new') /\ UNCHANGED spill
    /\ IF caller' = "page" THEN want' \in Wants ELSE UNCHANGED want
    /\ stage' = "join"
    /\ UNCHANGED <<keepScan, faults, target, changes, page, written>>

\* One turn of mergeJoin's loops.
Advance(step) ==
    /\ from' = IF step.from THEN PopTop(from) ELSE from
    /\ to' = IF step.to THEN PopTop(to) ELSE to
    /\ IF step.change = NoChange
       THEN UNCHANGED <<changes, page>>
       ELSE /\ changes' = Append(changes, step.change)
            /\ page' = IF caller = "page" THEN AddToPage(page, step.change, want, PageMax) ELSE page
    /\ UNCHANGED <<scanVars, request, stage, written>>

JoinBoth == stage = "join" /\ from # <<>> /\ to # <<>> /\ Advance(JoinHeads(TopRef(from), TopRef(to)))
JoinFrom == stage = "join" /\ from # <<>> /\ to = <<>> /\ Advance(RestOfFrom(TopRef(from)))
JoinTo == stage = "join" /\ from = <<>> /\ to # <<>> /\ Advance(RestOfTo(TopRef(to)))

\* Mutant of CloseAll: the spill's directory is forgotten.
CloseAll_NoCleanup(outcome) ==
    /\ from' = <<>> /\ to' = <<>> /\ stage' = outcome
    /\ UNCHANGED <<kind, persist, input, reader, jobs, worker, results, main, spill, tempDir,
                   batch, stored, count, firstErr, request, changes, page, written>>

\* The deferred Close and Cleanup calls.
CloseAll(outcome) ==
    /\ from' = <<>> /\ to' = <<>> /\ tempDir' = FALSE /\ stage' = outcome
    /\ UNCHANGED <<kind, persist, input, reader, jobs, worker, results, main, spill,
                   batch, stored, count, firstErr, request, changes, page, written>>

\* An iterator fails, the context is cancelled, or the backend refuses a write.
UseFails ==
    /\ stage \in {"join", "write"} /\ Fault("use") /\ CloseAll("failed")

UseEnds ==
    /\ stage \in {"join", "write"} /\ from = <<>> /\ to = <<>> /\ CloseAll("done") /\ UNCHANGED faults

UseStep == ScanDone \/ OpenForWrite \/ WriteRef \/ OpenPanics \/ OpenForDiff
           \/ JoinBoth \/ JoinFrom \/ JoinTo \/ UseFails \/ UseEnds

DiffNext == ScanStep \/ UseStep

Fairness ==
    /\ WF_allVars(Scanning /\ ReaderStep /\ UNCHANGED diffVars)
    /\ WF_allVars(Scanning /\ MainStep /\ UNCHANGED diffVars)
    /\ \A w \in Workers : WF_allVars(Scanning /\ WorkerStep(w) /\ UNCHANGED diffVars)
    /\ WF_allVars(UseStep)

DiffSpec == DiffInit /\ [][DiffNext]_allVars /\ Fairness

-----------------------------------------------------------------------------
NewRefs == IF target = "live" THEN input ELSE new

\* diff.go:128-199. The changes a finished diff reports are exactly the
\* difference of the two sets of documents, each one once, in identifier order,
\* whatever order the live documents arrived in and wherever the runs were cut.
DiffIsExact ==
    stage = "done" /\ caller # "create" =>
        /\ ToSet(changes) = ChangesBetween(old, NewRefs)
        /\ InIdOrder(changes)

\* How many of the first n changes are of the type that is asked for.
Matching(n) == Cardinality({i \in 1..n : changes[i].type = want.type})

\* diff.go:250-294. A page holds the ids of its type from its offset on, at most
\* the limit, and the total counts all of them: pages laid end to end are the list.
PageIsSlice ==
    stage = "done" /\ caller = "page" =>
        LET start == ClampedOffset(want.offset)
            total == Matching(Len(changes))
        IN  /\ page.total = total
            /\ Len(page.ids) <= PageMax
            /\ \A i \in DOMAIN page.ids : \E n \in DOMAIN changes :
                   changes[n].type = want.type /\ Matching(n) = start + i /\ page.ids[i] = changes[n].id
            /\ Len(page.ids) < ClampedLimit(want.limit, PageMax) =>
                   (start >= total /\ page.ids = <<>>) \/ start + Len(page.ids) = total

\* backend.go:37-53, snapshotter.go:79-93. What Create stores for a collection is
\* every document once and in the order IterDocRefs promises to the next diff.
StoredRefsAreSorted ==
    /\ InIdOrder(written)
    /\ stage = "done" /\ caller = "create" => ToSet(written) = ToSet(input)

\* snapshotter.go:169-180. Nothing a scan spilled outlives the call that made it,
\* unless the desktop's live diff panicked before it deferred the cleanup.
SpillsAreRemoved == stage \in {"done", "failed"} => ~tempDir

\* pipeline.go:44-100. The goroutines of every scan a request starts end, with
\* the two exceptions GoroutinesEnd names.
ScanGoroutinesEnd == Scanning => GoroutinesEnd

\* pipeline.go:120-146. Every request ends, also when goroutines of its scan are stuck: the
\* drain loop reads on after an error, so the caller never waits for them.
RequestEnds == <>(stage \in {"done", "failed", "panicked"})

\* The outcome a scan reports is true and its files are gone: success means that
\* every document is in, an error that nothing is left, and no error is lost
\* between the goroutines.
ScanIsCorrect ==
    /\ ScanTypeOK
    /\ ScanIsComplete /\ NoFaultIsSwallowed
    /\ ErrorReadAfterStream
    /\ FailedScanLeavesNoFiles /\ SpillsAreRemoved

\* What is computed from sorted runs is what its definition over sets says.
DiffIsCorrect == StoredRefsAreSorted /\ DiffIsExact /\ PageIsSlice

\* Every request ends, and so do the goroutines of its scan.
ScansEnd == ScanGoroutinesEnd /\ RequestEnds
=============================================================================
