# A TLA+ model of DBHelm

This directory is a verification project for the Go program in `src/`: a database
backup and browsing tool with a command line, a terminal UI and a desktop
application over the same `internal/` packages. It holds TLA+ modules translated
from the source, TLC configurations that check them on small instances, and TLAPS
proofs of the properties that matter most, for every size.

Contents: [what the program is made of](#1-the-system) ·
[what is modelled and how](#2-the-modules) · [what the runs show](#3-the-runs) ·
[what is proved](#4-the-proofs) · [where code and documentation disagree](#5-findings) ·
[known limits of the code and of the models](#6-limits) · [what comes next](#7-plan)

Run from this directory: `tlc -config <X>.cfg <module>.tla`, `tlapm <Module>Proofs.tla`;
`PROJECT.json` names the module and the configuration of each run, the lines of the
source each definition stands for, and the hazards of the code at their lines.

## 1. The system

Paths are relative to `src/`. "Hard" names what is hard to test; "correct" the
properties that make the component right. `PROJECT.json` lists each hazard at its line.

### Snapshots (`internal/snapshot`): the core

A *scope* is a directory for one connection and database. It holds `index.json`
(the summaries of the snapshots), one manifest file per snapshot, a sorted doc-ref
list per snapshot and collection, and a content-addressed object store. The last
two are in a bolt file, which one process at a time can have open, or in plain
files (the `fs` backend), which nobody locks.

| Component | State | Operations | Hard | Correct |
|---|---|---|---|---|
| Scope lock (`scopelock*.go`) | the file `.index.lock`, the PID in it, its age | `withScopeLock`, `reclaimIfStale` | file operations of several processes interleave; holders die at any point | at most one holder; a live holder keeps the lock; a dead one's is taken over |
| Create (`snapshotter.go`, `pipeline.go`) | object store, doc-refs, manifest, index | scan and store, `WriteDocRefs`, `saveManifest`, publish under the lock | up to 30 minutes between reading and writing the index; a crash at any step | a snapshot that is listed can be restored |
| Tag (`query.go`) | manifest and index | label both under the lock, without the bolt file | runs inside a Create or GC of another process | a tagged snapshot is there for good |
| GC (`gc.go`) | all of it | recover abandoned manifests, prune, save the index, mark, sweep | deletes files while others publish; crash between two deletions | removes only what no listed snapshot needs, and in the end all of that |
| Restore (`restore.go`) | the live database | safety snapshot, drop, insert, index recreation, rollback | fails halfway through a destructive change; GC runs meanwhile | success means the snapshot's content; failure loses nothing |
| SQL snapshots (`*_sql.go`) | the same, a SQL database, a pool of connections | `CreateSQL`, `RestoreSQL` | settings of one connection of a pool, a transaction per table, an error halfway | as above, and the connections are as before |
| Scan pipeline (`pipeline*.go`) | two channels, a worker pool, a spill directory | read, hash, store, sort | an error in one goroutine while others block on channels | no document lost, no error lost, no goroutine left |
| Merge diff, external sort (`diff.go`, `extsort.go`) | runs of refs on disk | spill, k-way merge, merge join | boundaries of batches, duplicates | the set difference of two snapshots |
| Scope directory (`scope.go`, `backend.go`) | directory name, identity, backend marker | create, or take over an older version's, on first use | first users of two scopes with one old directory; a crash or error between any two files | the old history is taken over once; all users of a scope open one backend |

Processes interact through the scope's files only: each CLI command, the desktop
application and the terminal UI may work on one scope at the same time.

### Connections and the desktop application

| Component | State | Operations | Hard | Correct |
|---|---|---|---|---|
| Session manager (`internal/engine/manager.go`) | session per profile, reference counts | Acquire, release, Invalidate, Close, the reaper | connects outside its lock | never closes what is used, closes all in the end, serves the current profile |
| Job manager (`desktop/jobs.go` and what runs on it) | jobs, cancel functions, sessions, output pipes | start, run, cancel, finish, progress, AI streams | a cancel at any step of a search, query, download; output still being read when the tool has exited | every job ends once and leaves nothing, cancel finds a running job |
| SSH tunnel (`internal/engine/tunnel`, `Open` of Postgres and MySQL) | one SSH client per session, MySQL's registry of dialers | dial per driver connection, undo of a failed Open | a bastion that stalls, a dial that outlives its context | nothing stays open, Open returns |
| Webhook listener (`internal/listener`, `desktop/webhook.go`) | HTTP server, its token, a mutex | Start, restart, Stop, requests | Stop while a request is in its handler, or before the server serves | no event after Stop, no port lost |
| Engine adapters, write safeguard (`internal/engine/*`) | driver handles | queries, DDL | SQL text | out of this project's reach: I/O and parsing |
| Frontend (`desktop/frontend`) | React state | views over the bindings | presentation only | - |

### Configuration and files

| Component | State | Operations | Hard | Correct |
|---|---|---|---|---|
| Config and credentials (`internal/config`) | `config.json`, OS keychain | Load, Upsert, Remove, Save, MigrateCredentials | load-modify-save by several processes; the keychain is written beside the file | no credential lost, none left in plain text |
| Scheduler (`internal/scheduler`, `cmd/scheduler.go`) | `schedules.json` | Add, Remove, MarkRan, the daemon's loop | no lock between the daemon and the CLI; crash between run and mark | a schedule runs when due, a removed one no more |
| Classic backups (`internal/store`, `desktop/backups.go`, `cmd/`) | `index.json`, archives | add, delete, list | index and archive change in two steps | each entry has its archive |
| Dashboard, query history | small JSON files | append, trim | load-modify-save | the newest entries are kept |
| Remote sync (`internal/remote`) | a Git repository over the snapshots | add, commit, push, pull | Create and GC run meanwhile | what is pushed can be restored |
| Terminal UI (`internal/tui`) | screen models | messages of asynchronous commands | late results | a result reaches the screen that asked |
| Schema diff, code generation, AI, tool installers, path safety, size formatting | none, or an external service's | pure text or I/O | - | - |

## 2. The modules

```
ScopeMutex  <--implements--  ScopeLock  <--+
    ^ uses                                 +--  ScopeEntry
    |                   ScopeDirectory  <--+
SnapshotScope  --implements-->  SnapshotHistory  <--uses--  SafeRestore
MergeDiff  <--  ScanPipeline  <--  LiveDiff        SqlSnapshots
DesktopJobs, SessionManager, WebhookListener, TunneledSession  <--  DesktopApp
ConfigStore    Automation    RemoteSync    TerminalUI
```

`MC*` modules give constants their values; `*Proofs` modules hold the theorems. An action
is the code between two points at which another actor may see a difference: one file
operation, one critical section, one message, one statement.

**ScopeMutex**: what `withScopeLock` promises. `holder` is whom the lock file
belongs to, `alive` the processes that have not exited. Acquire, Release, Reclaim
of a dead holder's lock, Die.

**ScopeLock**: how it is kept. The state is the file at the path: who created it
(`file`), whether the PID is in it yet, whether it is older than
`scopeLockStaleAge`, whether a release could not remove it (`left`). One action per system
call of `withScopeLock` and of `reclaimIfStale`, each with its failure: any error of the open but
"exists" ends the attempt (`OpenFails`), an error of either removal is dropped, as in the code
(`ReleaseFails`, `RemoveFails`). Removal is by path: it hits whatever file is there by
then. A process can die anywhere and leave its file; a file may pass the age threshold at any time,
its holder still at work or not. Two history variables: `seen[p]` says which of `p`'s two looks, the `Stat` and the read of the
PID, were at the file that is there now; `mishaps` collects a removal none of whose grounds was seen on the
file it hit ("overtaken"), and a file that grew old under its holder ("slow").

**ScopeDirectory**: `scopeDir`, `writeIdentityIfMissing`, `OpenBackend` and
`OpenBackendForRemote`, one file operation per step, by operations of several processes on
scopes whose sanitized names, and hence whose old directories, are the same. `Fails` is the
error return of any of the calls, with the file it had opened left empty; `Die` a crash.
`saved` says what each directory holds and in which backend.

**ScopeEntry** composes the two: entering a scope. They meet in nothing but the
directory's path, which does not change any more when the lock is used, so a behaviour of the
composition is about one part (`part`), and the interleavings of different parts, which
could show nothing, are left out.

**SnapshotScope**: one scope with its disk state and the operations of any number of
processes. `index`, `manifests`, `labelled` (manifests with a tag in them), `docrefs`,
`objects` are what is on disk; `scanned` is what a Create read, hence what its doc-ref
lists name. `storeLock` is the bolt file's lock, `holder` the scope lock (the actions
of ScopeMutex), `job[p]` the local variables of the running operation, with `view`
its copy of the index. `Fail` is every error return (it undoes nothing, as in the code),
`Die` the death of a process. Tags are abstracted to "has one"; creation times are the
second-resolution stamps GC sorts by.

**SnapshotHistory**: the abstract specification: a function from the ids of
restorable snapshots to their content, and the pinned ones. Publish, Pin, Prune.
SnapshotScope implements it with `history` = the listed snapshots with a manifest,
each with the documents that can actually be read, `pinned` = the tagged ones.

**SafeRestore**: Restore and RestoreWithSafety on top of that history. `live` is the
database, a set of documents per collection, none sharing an `_id`; `before` and
`wanted` remember the database at the start and the snapshot's content. The two calls
of `Restore` are one set of actions, told apart by `phase`. `InsertDoc` stores a document
unless its `_id` exists, since `InsertMany` is ordered and stops at the first error, with the
earlier documents of the batch stored. Every
step may fail, the process may die, and another process may prune untagged snapshots
whenever this one does not have the bolt file open.

**MergeDiff**: the pure part of scans and diffs as operators: the bounded spill
(`SpillAdd`, `Settled`), the k-way merge (`TopRun`, `PopTop`), the merge join
(`JoinHeads`), the clamped page, and the reference definition `ChangesBetween` over sets.

**ScanPipeline**: the scan of one collection or table, both copies of it
(`pipeline.go`, `pipeline_sql.go`): reader, workers and the calling goroutine over two
bounded channels, with the faults each can meet. It spills by MergeDiff.

**LiveDiff** uses that scan: Create writes the sorted references to the store; StreamDiff,
Compare and DiffCollectionPage join a stored snapshot with another or with the scan,
including what the desktop bindings do around them.

**SqlSnapshots**: RestoreSQL with its safety snapshot and rollback, over a `database/sql` pool
whose connections each have their own foreign-key setting and tenant variable, while another
user of the session takes connections. Two tables, one referring to the other; none, one or both
lost their primary key since the snapshot; a binary column, if there is one, is declared with the upper-case name
`isBinaryDataType` knows or otherwise. Other clients delete and insert rows at any time (`written` keeps their keys), and another
process's GC may delete a snapshot until `RestoreSQL` has opened the store, the read of the manifest and the
opening being steps of their own (`deleted`).

**SessionManager**: the session cache. Every critical section of `m.mu` is one
action; `resolve`, `Open` and each `Close` of a session are actions of their own,
because they run without the lock. `Edit` is `config.Save`, `InvalidateEdited` the
`Invalidate` after it, `PingFails` the one of `TestConnection`. Time is not
modelled: the reaper may find any session that nobody holds idle for long enough.

**TunneledSession**: `Open` and `Close` of the Postgres and MySQL engines with the SSH tunnel
they own: the steps of `tunnel.Open`, the driver's pool, its dials with contexts that may end
first, the places in which a failing Open undoes what it made, MySQL's registry of dialers.

**DesktopJobs**: `jobManager` with everything that runs on it, from the binding's call to the
frontend's view of the last event: snapshot and backup jobs, cancelable queries, the
cross-database search with its loops and what a canceled context makes them skip, the installers with the goroutine that reads the tool's
output, model downloads, and the AI streams with producer, consumer and timeout.

**WebhookListener**: start, restart, stop and query of the listener under `webhookM`, the
application's shutdown, `http.Server` as far as the code relies on it, and devices' requests
step by step.

**DesktopApp** composes these four as ScopeEntry does: a job sees of the manager only that Acquire returns
or fails, the others share no state, and a behaviour uses one.

**ConfigStore**: `config.json` and the system keyring, loaded, edited, and written by tasks of
several processes without a lock; the cache of each process in front of the keyring; the move
of the old product's directory; `MigrateCredentials`. Faults: a keyring that is away, refuses or
silently drops a write, or refuses a delete, a write cut short, a crash.

**Automation**: `schedules.json`, the daemon's pass over it, backup archives and their
`index.json`, by the daemon and by commands beside it; names of archives are seconds.

**RemoteSync**: machines that share a scope through git: Init, Clone, Push in its steps (git lists
new files, then reads tracked ones), Pull by fast-forward or by merge, none of which takes the scope lock. Beside them
Create (store, load the index, save it) and GC (load, list the abandoned, remove file by file, save the index, mark, sweep
object by object) go on step by step and may fail or die between two steps. One Create or GC at a
time is at work, since what these do to each other is SnapshotScope's subject. Git is external, modelled from how `remote.go` calls it.

**TerminalUI**: the bubbletea model: the screen, the lists and what they belong to, the commands
in flight (a bag), every key handler and every reply's handler. The list of backups is, as in the code, that of
all connections, each item with the connection and database it was made of. A reply is applied whatever
screen is shown by then; `astray` remembers that one was applied where it did not belong.

## 3. The runs

All bounds are constants in the `.cfg`. Most properties are conjunctions of named parts,
each with a comment of its own in the module and each broken by a mutant given there.

| Run | Instance | Shows |
|---|---|---|
| `lock` | 3 processes, 1 death, any removal or open may fail, any holder slow, fair; 2 first users, 2 scopes with one old directory, 1 death | `ExclusiveUntilMishap`: exclusion is lost, and a holder's file taken away, by one of the two mishaps only; `ImplementsMutex`: up to then every file operation is a step of ScopeMutex; `LockIsAvailable`: a dead holder's lock is taken over in one attempt, and attempts end; `DirectoryIsSound`: the old history is taken over once, and what is saved is in the backend that later users open |
| `lock_takeover` | 3 processes, 1 death | violated: section 5 |
| `scope` | bolt, 2 processes, 2 snapshots, 2 documents, keep-last 0 or 1, 1 death | `TaggedIsKept`, `NoLostUpdate`, `ListedIsComplete`, `CreatedIsComplete`, `GCLeavesNoGarbage` with every failure and crash; `ImplementsHistory` |
| `scope_fs_create_gc` | fs, 2 snapshots, no deaths | violated: section 5 |
| `restore` | 2 collections, 2 `_id`s, 2 values, GC at any time bolt allows | `KeptIsRestoredExactly`: a snapshot that is not pruned is restored exactly; `NonDestructive`: without `--drop` documents are added, none changed or lost, and success has left none out; `PriorStateKept`: with `--drop` all that was overwritten is in the safety snapshot, unless that is pruned; `RolledBackCollections`; `FailedUntouched`: a failure without rollback changed nothing |
| `scan` | 2 workers, scans of up to 5 documents, runs of 3, batches of 2, 1 kind of fault | `ScanIsCorrect`: success means every document and no swallowed error, failure leaves no files; `DiffIsCorrect`: diffs and pages are what the definitions over sets say; `ScansEnd` |
| `sql` | 3 engines, 2 target databases, 1 kind of failure, 1 interference (a connection taken or lost, a row inserted or deleted), GC | `RowsAreRestored`: rows, rollback, indexes, references; `ConnectionsAreClean`: checks on again, tenant set; `RestoreEnds` |
| `jobs` | 1 job of any kind, 2 connections with 2 databases, 2 lines; 2 callers, 1 profile, 2 sessions, 1 edit; 3 listener calls, 2 servers, 1 request; 2 tunneled sessions with 2 dials each | `JobsEndCleanly`: one terminal event, nothing after it, nothing left, no missed cancel of running work, no search reported as done that a cancel made skip something with more to follow; `JobsEnd`; `RefsCountHolders`, `ClosedRightly` (never in use, never twice), `NothingLeaks`, `OneLiveSession`, `ClosedInTheEnd` of sessions; `ListenerIsSound`: no event after a stop, no lost port; `TunnelsAreClosed`; `ServicesAnswer`: the listener's bindings and `Open` return |
| `config` | a desktop and a command-line process, 1 connection, 3 operations, 1 fault | `EditsSurvive`: file and keyring are what the edits add up to; `SecretsAreAccounted`: a lost, an orphaned or a plaintext secret and a torn file have one of the named causes |
| `automation` | the daemon and one command, 2 schedules, 2 backups, 3 instants, 1 fault, fair | `SchedulesAreKept`, `ArchivesAreKept`; `DueFires` |
| `remote` | 2 machines, 2 snapshots that share an object, 4 commits, 1 GC, 1 Create or GC and 1 Push at work at a time | `PublishedIsSafe`: what is published can be restored and stays; `LocalIsSafe`: a machine keeps what it made, and its identity is not pushed; exceptions are named below |
| `tui` | 2 connections, 1 database, lists of 2, 2 commands in flight, 3 keys after a stray reply | `ScreensAreConsistent`: what is started works on the chosen connection and, but for restored backups, database, one operation at a time, no dead end, unless a reply went astray; `ProgressEnds`: an operation's progress screen is left |

**Exceptions.** This code keeps JSON files without locks and applies replies late, so that
many natural properties fail in the code, as it knows or not. Where a property is checked
with an exception, a history variable records exactly the cause (`mishaps`, `troubles`, `abandoned`, `astray`, `overlaps`,
`torn`, `crossed`, `pruned`, `deleted`, `written`), the property shows that there is no other, and section 6 names the limit.
Two causes are visible in the state itself: in RemoteSync a snapshot that a machine lists although its GC has removed
the manifest (`HalfPruned`), and one whose files GC removed on another machine (`SweptElsewhere`).

**Why the bounds are enough.** *Lock*: a takeover needs a holder that dies, a
process that judges its file, and a third one for the race over the file that comes next, which is what `lock_takeover`
finds; the proofs cover any number of processes and deaths. *Directory*: the race over an old
directory and the one over the marker each take two users; a third finds what two have left.
*Scope*: two processes give every pair of operations, two snapshots a tagged or kept one beside a
pruned one, two documents let them share one and differ in the other, which is what marking and
sweeping are about; the proofs cover any number. *Restore*: two collections make a "partway" failure; two `_id`s with two
values make a batch that is half inserted when it is refused, and distinguish kept, replaced and conflicting documents, and every database and every
snapshot over them is an initial state. *Scan*: 5 documents with runs of 3 give an empty spill, a
buffer only, one full run, and a run with a tail; two workers reorder; channels of 4 fill up.
*SQL*: two tables are a reference in either order; an interference takes the connection that
has the checks off, loses it, or writes a row before or after the scan of its table; what several add up to is proved. *Sessions*: two callers race to resolve, open and insert. *Jobs*: jobs share only the manager's
maps, each under its own id, which `DesktopAppProofs` shows for any number; two connections with
two databases each put a cancel before, in and after an inner loop that has a successor; two lines
let one be printed while the other is read. *Listener*: a start, a restart and a stop, with a
request that may carry the old server's token. *Tunnels*: two sessions for the registry's names,
two dials for one that is late while another is used. *Config*: two tasks in two processes for every
interleaving of two operations, a third to see the result with a stale cache. *Automation*: two backups in
one second or in different ones, an interval of one instant. *Remote*: two snapshots on one or two
machines, with one GC on either, and git between any two steps of a Create or of the GC; any numbers are proved. *TUI*: two commands in flight are answered in either order; three keys
reach every screen's exit after a stray reply.

**Symmetry** is declared over processes, documents and collections, only in runs without
liveness properties; no property names one of these values.

**Fairness.** `lock`, of one process: weak fairness of its steps in `withScopeLock`, whose loop sleeps 20 ms and goes on; strong
fairness of `GiveUp`, since a deadline that is looked at again and again passes, of `CreateFile`, since others cannot be the first to create the
file every time, and of `RemoveStale`: without the last the attempt need not end (section 6). Nothing is assumed of the
holder. `jobs`: of sessions, a
driver's `Open` returns, a caller releases what it acquired (mostly by `defer`), and a goroutine
that decided to close a session goes on; nobody need call `Close` or `Invalidate`.
Jobs: goroutines run, connecting returns (it has timeouts), tools exit, `aiRequestTimeout` expires; strong
fairness of `GiveUp`, since Go's `select` picks among ready cases at random; a query or a download
need never end by itself. Listener: goroutines run and devices end their requests. Tunnels: only
the steps of the program and what a deadline or context forces. `scan`: goroutines that are not blocked run, the
database answers. `sql`: the steps of `RestoreSQL`, whose
statements have a 30-second context; not the scan of the safety snapshot, which runs on the caller's context. `automation`: the daemon's ticker fires, a
dump ends. `tui`: an operation returns, once its server and its tools answer, and bubbletea applies the reply; nothing is assumed of the
commands that run a package manager.

**Deadlock** is checked where operations can always begin or the end is a state of its own (`scope`,
`scope_fs_create_gc`, `restore`). Elsewhere the system really stops: when jobs, calls and requests are over, after Close,
when bounds on operations are used up. What must not wait for ever is stated as liveness there.

**Mutants.** Each property is broken by a plausible bug, given in the module beside the
definition it would replace (`CreateFile_NoExcl`, `Rename_Copies`, `Drained_Close`,
`HandshakeFails_NoDeadline`, ...).

## 4. The proofs

Checked by `tlapm` for arbitrary constants that satisfy the named assumptions.

**ScopeEntryProofs**, for the lock, any number of processes and deaths, any opens and removals failing: `TypeCorrect`,
`ExclusiveUntilMishapAlways`, and `FilesImplementMutex`, the refinement of ScopeMutex. Nothing is assumed but that "nobody" is no
process (`LockAssumption`); what the lock cannot give is in the conclusion, as the two mishaps. The invariant, `LockInv`, has
three parts. `Living`: who is in the program is alive. `FileInv`, of the file now at the path: its creator is in its critical
section unless it died or left the file behind, and the file has not grown old under it. `LookInv`, of what a waiter has learnt in a look that was at
this very file: it still holds, since a PID is written once and age does not come back. So a removal on such grounds hits the
file of a dead holder or an abandoned one (`RemovalIsJust`), and any other removal is the mishap "overtaken".
For the refinement, the abstract holder is whoever is in its critical section, else the creator of the file (`HolderIsCreator`).

For the directory, `DirectoryIsSoundAlways`, for any number of first users that fail or die
anywhere, and any finite set of scopes that share one old name (`DirectoryAssumption`; an old directory
is not itself a scope, and the old version not one of the users). `HistoryInv` counts the places that
hold the old history against the takeovers, with the library's lemmas on cardinality; `PlaceInv` says why
nobody makes an empty directory beside an old one: who gets as far as `mkdir` finds either his directory
there or the old one gone. `KindInv` is the argument for the backend: in a scope where no
`remote init` overlapped another first user, nothing speaks for bolt and for fs at once, where
"speaks" (`Claims`) counts what is saved, the marker, and what users at work have read or chosen and not yet written.

**SnapshotScopeProofs.** `TypeCorrect`; `IndexUpdatesAreKept` (both backends);
`ListedSnapshotsAreComplete`, `TaggedSnapshotsAreKept` and `CreatedSnapshotsAreComplete` for
bolt (`Backend = "bolt"` is a hypothesis; section 5 shows that the last fails for
fs). None of the properties is inductive. The strengthening is a chain, each
link proved from the ones before:
 - `LockInv`: whoever is past `lock` in its program holds the scope lock, and its view of the
   index is still the index, until its own save; this alone gives `IndexUpdatesAreKept`.
 - `StoreInv`: on bolt a Create or GC has the store open, so at most one of them runs.
 - `CreateInv`: a Create's doc-ref lists and objects are there up to the collection it scans.
 - `GCInv`: what GC is deleting is neither tagged nor in its view, and what it sweeps is
   referenced by no snapshot in the view.
 - `TagInv`, `TagsKept`: the snapshot a Tag is labelling keeps its manifest and is not being pruned.

`FinishedGCLeavesNoGarbage`, also for bolt, adds `GarbageInv`: at each step of a GC, what it has still to delete
accounts for all the garbage there is. `GCIsAlone` is why that is stable: with both locks
held, no other process changes what the GC works on.

`ScopeImplementsHistory`: on bolt, every behaviour of SnapshotScope is
one of SnapshotHistory. Saving the index publishes or pins, removing a manifest
prunes, everything else, crashes and failures included, is a stutter.

The same module proves what a scan and a diff promise (LiveDiff), `ScanIsCorrectAlways` and `DiffIsCorrectAlways`, for every
non-empty finite set of workers, size of run and batch, and set of collections, whatever the order the
workers send in and whatever fails. `ScanAssumption` and `DiffAssumption` are all they assume: the documents of a
collection have distinct, comparable identifiers, stored lists are in their order (which `StoredRefsAreSorted` shows of
Create), and a page's offset and limit are integers of any sign. `ResultInv` is the inductive invariant:
 - `GoroutineInv`, `MainInv`: types, the channels' bounds, and that a scan is over only when reader, workers and channels are.
 - `FaultInv`: each failure is on its way, in a channel, with a worker or with the reader, or has arrived at the caller.
   This is why no failure is swallowed, though the first error alone is kept.
 - `PlaceInv`, `SpillInv`, `BatchInv`: without a failure a document that was read is in exactly one place (a channel, a worker, the
   buffer, a run), the runs are in order, and what was taken is stored or in the batch still to be flushed.
 - `JoinInv`: the changes found so far are those of the identifiers both sides have passed. `PageInv`: the page is the
   slice of the changes so far, for the clamped bounds. `WriteInv`: what Create has written precedes what is left to write.

The lemmas say what the algorithms do at one step: the place a reference has in a sorted run is its rank (`SortById`),
a spill cuts the references into ordered runs and loses none, and the top of a merge is the least that any run holds, so that
popping it takes that reference and no other (`PoppedRuns`). No induction over the data is needed: it is in the steps.

**SafeRestoreProofs.** `TypeCorrect`; `NonDestructiveAlways`, whatever fails and whatever GC does: `KeepInv` says that a restore without
`--drop` has only added documents of the snapshot (`AddsOnly`), and, while GC has not pruned the snapshot, that of each collection
that is done none is missing (`AddsAll`); `FailedUntouchedAlways`; `PriorStateKeptAlways`: unless a GC prunes the safety
snapshot, all that a dropping restore has overwritten is in it at each moment;
`KeptIsRestoredExactlyAlways`: unless a GC prunes the restored snapshot, success of a
dropping restore means exactly its content. `TouchInv` is the argument of the comment
at `restore.go:104-108`: nothing has changed until `Touched` names a collection, and
once it does the first `Restore` cannot just fail. `ExactInv` follows the loop: each
collection is still as it was, done and equal to the snapshot's, or the current one,
dropped and filled up to what has been inserted. `RolledBackCollectionsAlways`: after a rollback that
reports success all collections the safety snapshot holds are as before. `RollbackInv` is the same argument
over the safety snapshot, with `SafetyInv` for what that snapshot holds.

`RowsAreRestoredAlways` and `ConnectionsAreCleanAlways`, for SQL restores with any number of faults, of
interferences by other users of the session, and of rows that other clients write; the engines and target databases are the ones
`SqlAssumption` names, the two tables and their rows the model's. The invariant is `SqlInv`. `TableInv` says what each table holds at
each step, but for the rows whose keys are in `written` (`Same`): the rows of before, or none once it was cleared, plus the rows of the snapshot
that are no longer in `refs`; the tables that are done hold all of them, those to come are as they were. A snapshot that GC deleted before
the store was opened counts as empty there (`From`), which is what the code makes of it. `SavedInv` follows
the safety snapshot from the first scanned table to the rollback that reads it: it has
each table that has a primary key, with the rows nobody else wrote. `PoolInv` says that the
pool is one connection with the tenant set, whose checks are off from `disable` to `enable` only, until somebody else uses the session or writes;
from it follows `CalmInv`: without faults and interference no statement of a clearing restore is refused, which is why the order of the tables
does not matter. `IndexInv` keeps the index until `parent` has been done, `StageInv` which
positions go together. The invariant was checked by TLC with two kinds of failure and two
interferences before it was proved. `RestoreEnds` stays with TLC.

**DesktopAppProofs.** `JobsEndCleanlyAlways`: the invariant of the `jobs` run for any set of jobs,
any bindings, any numbers of connections, databases and lines of output. `JobInv` says where each
party of a job can be: the binding's call against the goroutine (`CallInv`), the reader of a tool's output
against the tool (`ReaderInv`), the events sent against the program position (`EventInv`), the
registry (`RegistryInv`), the session (`SessionInv`). `CutInv` is the reason why a search that
a cancel made skip something with more to follow is never reported as done: its context is done, and
the check before the next database or connection is still to come, or has failed the search. For the last
thing a search looks at there is no such check, and none is claimed (section 6).

`ListenerIsSoundAlways`, for any calls, servers and requests: `HolderInv` ties `webhookM` to the step its
holder is at and to what it knows there (`webhookL` is set when it stops a server, nil when it starts one);
`PortsInv` follows the one port, also while `Serve` has not run yet; `RequestsInv` says that a
request in a handler is at the running server, or at one that is about to be the
running one, in which case its token cannot match.

`TunnelsAreClosedAlways`, for any sessions and dials, both engines: `OwnerInv` names, for each thing that is open, the
step of `Open` or `Close` that will still close it; `NamesInv` keeps each session's dialer name for its own tunnel.

For SessionManager, whose sessions the bindings share, the module proves `ManagerTypeCorrect` and every safety
property of sessions in the `jobs` run: `RefsCountHoldersAlways`, `ClosedRightlyAlways` (never in use, never twice),
`NeverLost`, `SessionsAreShared`. They are proved together, by the invariant `LifeInv`, since none
holds without the others: a session in a caller's hands was opened
(`HandsInv`), the count in an entry is the number of its holders (`RefsCountHolders`, with the
library's lemmas on cardinalities), an entry of the cache is for one profile and not being closed (`CacheInv`), what a
connecting caller opened is known to nobody else (`FreshInv`), a doomed entry still has holders or is
closed once (`DoomedInv`), and nothing is closed twice or before it was opened (`CloseInv`).

**AutomationProofs.** `SchedulesAreKeptAlways` and `ArchivesAreKeptAlways`, for any users, schedules, backups, interval
and horizon (`AutomationAssumption`). `EditInv` is what the missing lock leaves: a file without trouble has at most
one editor, whose copy is the file. `SchedInv` adds that what the daemon has fired and not yet marked is with its
one job, which marks it an interval on, and that an id is added once. `ArchInv` follows
the claims on an id and on a name, by entries, copies of the index that are being edited, running dumps and archives (`ClaimInv`),
and the place of an archive in the order of dump, append, unlink and rewrite (`AppendInv`, `ArchiveInv`); where two
backups began in one second it claims nothing about their archive, like the properties.

**ConfigStoreProofs.** `EditsSurviveAlways` and `SecretsAreAccountedAlways`, for any processes, tasks, connections, kinds
of secret, passwords, operations and faults. Assumed are only that every task belongs to a process, that users and the old
directory bring profiles of the right shape, and that "no connection" is none (`ProcsAssumption`, `ConnAssumption`). Neither
property is inductive: what reaches the file is decided steps earlier in a task's private copy, so every part of the
invariant speaks of the copies. `PlainInv` lets a secret in clear be in a copy only while it is still to be stored or was refused. `LostInv`
allows a reference to nothing only for entries a removal deleted, and in a calm history only in that removal's own copy
before it saves. `OrphanInv` follows each entry's reference through load, edit and rewrite, except for the entries in `abandoned`: those a keyring refused to
delete, and those of processes without one. `EditInv` says
that the file before an edit, and the copy after it, together with the keyring are what the user wants; it needs
`Fresh` (a secret about to be stored over an entry equals it, or a stale one would win) and `Pending` (until the old
directory is copied its content is the truth). `PlaceInv` holds them together: without an overlap one task edits, and it opened
the directory first. Each action is first reduced to what it does to one task and the store (`StepIsKnown`).

**TerminalUIProofs.** `ScreensAreConsistentAlways`, for any connections, lists, commands in flight and keys (of the
constants only that the tables hold connections and that "nothing chosen" is no database, `ListsAssumption`). All
its parts hang together, in `UIInv`. `SoloInv` is the central one: without a reply that moved the screen, at most one of the
operations and the desktop start (`Jobs`, both keep "progress" waiting) is in flight, and as long as it is the screen is "progress", so no key can
start another, change what is chosen or quit. `ScopeInv` follows the chosen database to its connection
and the open list to its scope, which a list that is left must not outlive, and shows of every operation but a backup's restore that it works there (`Suits`); `CursorInv` holds because every step that
shortens a list moves its cursor. A few lemmas say what sending and answering a command does to the bag of commands.

**RemoteSyncProofs.** `PublishedIsSafeAlways` and `LocalIsSafeAlways`, for any machines, founders, snapshots, objects
that snapshots share in any way, and number of commits, with git's merges on or off. Assumed are that a snapshot's
content is a set of objects (`RemoteAssumption`) and that a snapshot, an object, `identity.json`, `.gitignore`, a
conflicted index and "nothing" are different things (`NamesAssumption`). What the remote lists says nothing of how it came
to be listed, so the invariant, `Inv`, is about histories. Types, the graph, the ignored files and `identity.json` are invariant
whatever happens; the other parts as long as no pull has changed an index that a Create or GC had loaded and not saved (`~crossed`):
 - `GraphInv`: what the remote has is one line of commits, and two machines have nothing in common but a part of
   it. So the base that git merges from is the last published commit that a machine knows (`IsBase`).
 - `KeptInv`: what a commit lists its descendants list, unless GC pruned it or they are in conflict.
 - `IgnoreInv`, `IdentityInv`: who has a commit of a ready repository has its `.gitignore`, so `identity.json` is in
   no history that does not go back to an Init that failed. `AloneInv` is for machines that have no repository yet.
 - `TaskInv`: what a Create or GC at work holds of the index is still the index, what GC is about to remove nobody kept needs, and before it
   saves the index whatever it will drop is pruned or about to be. Without a crossing pull only their own step changes this.
 - `ListInv`: a snapshot is listed first by its maker and reaches others by way of the remote only, and what a
   history once listed and lists no more (`Gone`) does not come back in its descendants.
 - `TrackInv`, `RemovedInv`: when a file is missing that a machine's git tracks, or that the merge base held, GC
   swept it on that machine, or it belonged to a snapshot that is gone. This is what decides, file by file, whether
   a pull that removes something removes what another snapshot needs.
 - `FileInv`: a listed snapshot has its files in the scope directory, in the commit and in a push under way, but for
   the causes the properties name: the push in the middle of a listing or pruning (`torn`), the machine's own GC that has begun to prune it, the
   sweep of another machine. For the maker the push is no excuse.

`Inv` was checked by TLC on the instance of the `remote` run before it was proved. Each part has one lemma per step
that can disturb it; `NewCommit` and `KnownAfterCommit` say once what a commit changes.

**Model-checked only.** Liveness, which is out of the prover's reach, with `AbandonedReclaimed`, `ClosedInTheEnd`, `JobsEnd`,
`ServicesAnswer`, `ScansEnd`, `RestoreEnds`, `DueFires` and `ProgressEnds`. Every safety invariant of a
passing run, and both refinements, are the subject of a theorem; those of the lock up to the mishaps, after which they are
false (section 5).

## 5. Findings

`scope_fs_create_gc` ends with a counterexample to what the code's comments say. On the fs backend a Create writes manifest,
doc-refs and objects before it takes the scope lock; a GC in that window deletes them as
abandoned (`gc.go:55`), and the Create reports success for a snapshot that cannot be
restored. `gc.go:23-29` calls an unindexed manifest the signature of an interrupted Create.

`lock_takeover` ends with two processes in the critical section that the comment on `withScopeLock` promises to exclude, without
any slow holder. A waiter stats the lock file and reads the PID of a live holder; the holder releases the lock and exits; a third process creates the
file anew; the waiter now asks whether the PID lives, learns that it does not, and removes the third one's file
(`scopelock.go:97-104`), although `scopelock.go:92-94` says that "a live PID and an age still under the threshold is left alone".

Other disagreements between code and comments that the models show are in the next section.

## 6. Limits

### Of the code, as the models show them

Snapshots:
 - A waiter that has judged a lock file removes whatever file is at the path when it gets to it (`scopelock.go:102`; section 5), also when
   two waiters judge one dead holder's file. A live holder loses its lock after two minutes, as intended, and its own release then
   removes the next holder's file.
 - An abandoned lock file that cannot be removed (a directory that has become read-only) is reported as reclaimed (`scopelock.go:101-108`), and the
   loop goes on without a sleep and without a look at its deadline (`scopelock.go:62-63`): for ever, against "never unboundedly stuck"
   (`scopelock.go:88`). `AttemptEnds` fails without the fairness of `RemoveStale`.
 - Two first users of a scope of whom one runs `remote init`: both find no marker, and the second marker hides what the
   first has saved (`backend.go:78`). A marker left empty by a crash makes every operation on the scope
   fail; an `identity.json` left empty stays so. Of two scopes that shared an old directory, the first to
   come takes it, whoever's it was.
 - A snapshot that GC prunes between the read of its manifest and the opening of the store is
   restored as empty collections, with success (`restore.go:56`).
 - GC of another process may prune the safety snapshot, which has no tag, during the restore (`restore.go:157`).
 - A GC interrupted between manifest and index leaves an entry that makes later GCs fail
   before they sweep (`gc.go:154`), and until the next GC a listed snapshot that cannot be restored. The doc-refs of a Create that died before `saveManifest` are
   collected by no GC, so `GCLeavesNoGarbage` speaks of manifests and objects.
 - A restore without `--drop` "only adds/overwrites documents" says the comment (`restore.go:136-138`). It overwrites nothing: `InsertMany` refuses
   an `_id` that exists, whatever its document, and the restore fails there, with the earlier documents of the batch and the earlier collections inserted. There is
   no rollback then. So a restore into a database that still holds one document of the snapshot never succeeds.
 - The rollback leaves collections that the failed restore created (`restore.go:184`).
 - A scan whose temporary directory or codecs cannot be made leaves goroutines blocked on channels.
 - A live diff from the desktop reads the ID of a manifest that is nil (`OpenPanics` of LiveDiff).
 - `snapshot restore --target-db x --drop` of a SQL snapshot looks at `x` and writes the session's own
   database (`restore_sql.go:102`; `OnlyTargetChanges` of SqlSnapshots fails). Binary columns
   come back as base64 text on Postgres and MySQL, and on SQLite unless their type was declared as one of the bare upper-case names
   (`restore_sql.go:404-409`, `sqlite.go:166-172`): `blob` is not. Foreign-key checks and the tenant variable are set on one
   connection of a pool. A duplicate of any kind passes for an index that exists on MySQL.
 - A SQL snapshot that GC deletes between the read of its manifest and the opening of the store empties the tables, with success
   (`restore_sql.go:49-58`), and so does a rollback from a safety snapshot GC has deleted; on the fs backend, which nobody locks, the window is the whole restore.
   Rows that other clients insert between the safety scan of a table and its DELETE are lost. The safety scan runs on the caller's
   context, for `snapshot restore` one without a deadline (`cmd/snapshot_restore.go:59`, `sqlite.go:252-266`): a server that stops answering stops the restore for ever, before it has changed anything.
 - Push takes no scope lock: it may publish an index that lists a snapshot whose files it did not add, or, in the middle of a GC, one whose manifest
   is gone (`gc.go:134-145`); `.index.lock` can be published too. A pull between a Create's or GC's load and save of the index
   (`snapshotter.go:133-138`, `gc.go:99-143`) is overwritten by the save, and the next Push takes what it had brought off the remote, without a
   conflict. git merges the GC of one machine into what another one's snapshot shares with it. A conflicted
   `index.json` is committed with its markers by the next Push. A push after an Init that failed
   commits `identity.json`. Without git-lfs, pointer files stand for objects.

Connections and desktop:
 - A session that is being opened during an Invalidate is cached with the old profile (`manager.go:63`;
   `FreshAfterInvalidate` of SessionManager fails).
 - A line of tool output longer than the scanner's buffer hangs the installer's job (`install.go:89`).
 - A cross-database search that is canceled at the last thing it looks at, while it opens or lists the last connection or is inside its last database, ends
   "done" with part of the matches (`crossdbsearch.go:70-78, 86-89, 97-100`).
 - A job's terminal event may come before the call that started it has returned the id.
 - Stop of the webhook listener waits, with the mutex held, for a device that never ends its request;
   so do the other listener bindings and the application's shutdown. A restart may find the port taken while
   the old server's Serve has not run.
 - A dial that outlives its context leaves a connection open until the tunnel closes.

Files:
 - Every Save of a connection drops the AI and launcher settings (`credentials.go:91`; `SettingsSurvive`
   of ConfigStore fails).
 - The read-back that should expose a keyring which drops writes is answered by the process's cache; a stale cache
   writes a replaced secret back. Keyring entries go before the file is saved. When the keyring refuses to delete one, the error is dropped (`credentials.go:139-149`) and the entry stays, orphaned. A copy of the old
   product's directory that is cut short is taken for complete.
 - `schedules.json`, `index.json` and `config.json` are edited without a lock and rewritten in place: overlapping edits lose
   one, a crash leaves a file that does not parse. A schedule is marked after it has been fired. Two backups of one second share a file.
 - The terminal UI lists the backups of all connections, whichever is chosen (`messages.go:184-194`), and a restore drops and writes on the chosen
   server the database the backup was made of, not the chosen one (`keys.go:437-443`, `actions_backup.go:68-88`); the question before it names no database.
   Starting the desktop application installs through `runStreamed`, which may hang (`install.go:80-108`, `desktopapp.go:85, 93`), on a screen that
   takes no key but Ctrl+C; operations have no deadline either.
 - Late replies change the terminal UI's screen or list, also in the middle of a restore;
   the dependency screen starts a second installation while one runs.

### Of the models

 - *ScopeLock*: PIDs are not reused, and `processAlive` knows (the outcome "unknown" of other
   platforms behaves like an unreadable PID). Clocks do not jump.
 - *SnapshotScope* uses the abstract mutex: its results hold as long as the lock has had none of its two mishaps (section 5). `ParentID`, messages and statistics are left out, and
   a Tag adds the one tag there is. File renames are atomic and durable.
 - *SafeRestore* restores into the database the snapshot came from; nobody else writes that
   database; an index is rebuilt or the step fails; an empty collection counts as absent.
   Collections are restored in any order, where the code sorts names.
   That the history changes atomically under it is what `ScopeImplementsHistory` shows, for bolt.
 - *SessionManager*: one call of the release function per Acquire changes anything (`Forget` stands
   for further ones).
 - *ScanPipeline* compares identifiers as numbers. *SqlSnapshots* has two tables and small fixed rows; SQL text is
   not modelled beyond which statements run where.
 - *DesktopJobs*: an outside step (a query, a download) is one step that may be slow for ever.
   *DesktopApp*, *ScopeEntry*: one part per behaviour, since the parts share no state.
 - *RemoteSync*: one Create or GC and one Push at work at a time on the checked instance; on each machine, one, also in the proofs. git itself is not
   killed between its `add` and its `commit`.
 - *TunneledSession*: sessions are all Postgres or all MySQL in one behaviour, which share nothing with each
   other; `Close` is not called while an operation is running, which SessionManager shows.
 - *ConfigStore*: a connection string is the secrets in it. *TerminalUI*: cursors of fixed menus are left out.

### Not modelled

SQL text and the safeguard that classifies it, browsing queries, exports and imports, schema diff and
code generation (pure functions over text); drivers, MongoDB tools, prompts (I/O); React views. The dashboard's and the query
history's JSON files follow the pattern of Automation's: load, edit, rewrite, no lock.

## 7. Plan

Done so far: everything in section 2. Next, in order of importance:

1. An abstract record store that ConfigStore and Automation would implement if they locked.
2. A restore into another database or server; writers of the live database during a restore.
3. Schema diff as operators over small schemas, against a reference definition.
