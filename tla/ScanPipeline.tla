----------------------------- MODULE ScanPipeline -----------------------------
(* The scan of one collection or table (internal/snapshot/pipeline.go,        *)
(* pipeline_sql.go): a reader goroutine feeds the jobs channel, a pool of      *)
(* workers encodes and hashes, and the calling goroutine drains the results   *)
(* channel into the bounded spill of MergeDiff and batches of objects for the  *)
(* store. Any step may fail; at most MaxFaults of them do.                     *)
EXTENDS MergeDiff, FiniteSets

CONSTANTS
    Workers,       \* GOMAXPROCS worker goroutines
    Inputs,        \* what the database may hold: sequences of references in cursor order
    RunSize,       \* extSortRunSize
    BatchSize,     \* writeBatchSize
    MaxFaults      \* bound: kinds of fault in one behaviour

ASSUME ScanAssumption ==
    /\ IsFiniteSet(Workers) /\ Workers # {}
    /\ RunSize \in Nat \ {0} /\ BatchSize \in Nat \ {0} /\ MaxFaults \in Nat
    /\ \A refs \in Inputs : IsRefList(refs)

\* make(chan job, workers*2) and make(chan result, workers*2)
ChannelSize == 2 * Cardinality(Workers)

VARIABLES
    kind,     \* "mongo" or "sql": which of the two copies of the pipeline runs
    persist,  \* whether there is a store to write objects to
    input,    \* the documents the cursor returns
    reader,   \* [pos, pc, err]: the producing goroutine; err is cur.Err() or scanErr
    jobs,     \* the jobs channel
    worker,   \* each worker's state and the result it holds
    results,  \* the results channel
    main,     \* where the calling goroutine is: "spill", "drain", "ok" or "error"
    spill,    \* the spill (MergeDiff)
    tempDir,  \* whether the spill's directory is on disk
    batch,    \* hashes waiting for PutMany
    stored,   \* hashes in the store
    count,    \* docCount
    firstErr, \* whether the drain loop has met an error
    faults    \* history: what went wrong

scanVars == <<kind, persist, input, reader, jobs, worker, results, main, spill,
              tempDir, batch, stored, count, firstErr, faults>>

Fault(f) == (f \in faults \/ Cardinality(faults) < MaxFaults) /\ faults' = faults \cup {f}

Failed == [err |-> TRUE]
Encoded(ref) == [err |-> FALSE, ref |-> ref]

ScanInit ==
    /\ kind \in {"mongo", "sql"} /\ persist \in BOOLEAN /\ input \in Inputs
    /\ kind = "sql" => persist
    /\ reader = [pos |-> 1, pc |-> "reading", err |-> FALSE]
    /\ jobs = <<>> /\ results = <<>>
    /\ worker = [w \in Workers |-> [pc |-> "start"]]
    /\ main = "spill"
    /\ spill = NewSpill /\ tempDir = FALSE
    /\ batch = <<>> /\ stored = {} /\ count = 0
    /\ firstErr = FALSE /\ faults = {}

fixed == <<kind, persist, input>>
mainVars == <<main, spill, tempDir, batch, stored, count, firstErr>>

-----------------------------------------------------------------------------
(* The reader. The jobs channel is closed when it returns, however it does.    *)

SendJob ==
    /\ reader.pc = "reading" /\ reader.pos <= Len(input) /\ Len(jobs) < ChannelSize
    /\ jobs' = Append(jobs, Encoded(input[reader.pos]))
    /\ reader' = [reader EXCEPT !.pos = @ + 1]
    /\ UNCHANGED <<fixed, worker, results, mainVars, faults>>

\* Mongo: a document that does not decode is sent on as an error and ends the loop.
SendBadJob ==
    /\ reader.pc = "reading" /\ reader.pos <= Len(input) /\ Len(jobs) < ChannelSize
    /\ kind = "mongo" /\ Fault("decode")
    /\ jobs' = Append(jobs, Failed)
    /\ reader' = [reader EXCEPT !.pc = "done"]
    /\ UNCHANGED <<fixed, worker, results, mainVars>>

ReadEnds ==
    /\ reader.pc = "reading" /\ reader.pos > Len(input)
    /\ reader' = [reader EXCEPT !.pc = "done"]
    /\ UNCHANGED <<fixed, jobs, worker, results, mainVars, faults>>

\* Mutant of ReadFails: the error path leaves without closing the channel.
ReadFails_NoClose ==
    /\ reader.pc = "reading" /\ Fault("cursor")
    /\ reader' = [reader EXCEPT !.pc = "gone", !.err = TRUE]
    /\ UNCHANGED <<fixed, jobs, worker, results, mainVars>>

\* The cursor or the row stream fails: cur.Err() for Mongo, scanErr for SQL.
ReadFails ==
    /\ reader.pc = "reading" /\ Fault("cursor")
    /\ reader' = [reader EXCEPT !.pc = "done", !.err = TRUE]
    /\ UNCHANGED <<fixed, jobs, worker, results, mainVars>>

-----------------------------------------------------------------------------
(* The workers.                                                               *)

Become(w, state) ==
    /\ worker' = [worker EXCEPT ![w] = state]
    /\ UNCHANGED <<fixed, reader, mainVars>>

\* Without a codec the worker reports the error and leaves. (A codec that opens
\* shows in nothing but the first job the worker takes.)
CodecFails(w) ==
    /\ worker[w].pc = "start" /\ Len(results) < ChannelSize /\ Fault("codec")
    /\ results' = Append(results, Failed)
    /\ Become(w, [pc |-> "done"])
    /\ UNCHANGED jobs

Encode(w) ==
    /\ worker[w].pc \in {"start", "idle"} /\ jobs # <<>>
    /\ jobs' = Tail(jobs)
    /\ \/ Become(w, [pc |-> "sending", result |-> Head(jobs)]) /\ UNCHANGED faults
       \/ /\ ~Head(jobs).err /\ Fault("encode")
          /\ Become(w, [pc |-> "sending", result |-> Failed])
    /\ UNCHANGED results

\* Mutant of SendResult: an unbuffered write into the channel's slice.
SendResult_NoLimit(w) ==
    /\ worker[w].pc = "sending"
    /\ results' = Append(results, worker[w].result)
    /\ Become(w, [pc |-> "idle"])
    /\ UNCHANGED <<jobs, faults>>

SendResult(w) ==
    /\ worker[w].pc = "sending" /\ Len(results) < ChannelSize
    /\ results' = Append(results, worker[w].result)
    /\ Become(w, [pc |-> "idle"])
    /\ UNCHANGED <<jobs, faults>>

\* Mutant of WorkerEnds: a worker leaves as soon as there is no job for it.
WorkerEnds_Early(w) ==
    /\ worker[w].pc = "idle" /\ jobs = <<>>
    /\ Become(w, [pc |-> "done"])
    /\ UNCHANGED <<jobs, results, faults>>

WorkerEnds(w) ==
    /\ worker[w].pc \in {"start", "idle"} /\ jobs = <<>> /\ reader.pc = "done"
    /\ Become(w, [pc |-> "done"])
    /\ UNCHANGED <<jobs, results, faults>>

WorkersDone == \A w \in Workers : worker[w].pc = "done"

-----------------------------------------------------------------------------
(* The calling goroutine.                                                     *)

goroutines == <<reader, jobs, worker>>

MakeSpill ==
    /\ main = "spill"
    /\ main' = "drain" /\ tempDir' = TRUE
    /\ UNCHANGED <<fixed, goroutines, results, spill, batch, stored, count, firstErr, faults>>

\* The caller returns with its goroutines still running.
MakeSpillFails ==
    /\ main = "spill" /\ Fault("tempdir")
    /\ main' = "error"
    /\ UNCHANGED <<fixed, goroutines, results, spill, tempDir, batch, stored, count, firstErr>>

\* flush: PutMany stores the whole batch or fails; the batch is emptied either way.
Flush(pending) ==
    /\ batch' = <<>>
    /\ IF pending = <<>>
       THEN UNCHANGED <<stored, firstErr, faults>>
       ELSE \/ stored' = stored \cup ToSet(pending) /\ UNCHANGED <<firstErr, faults>>
            \/ Fault("put") /\ firstErr' = TRUE /\ UNCHANGED stored

\* Mutant of DrainError: an error in the channel is read and forgotten.
DrainError_Forgets ==
    /\ main = "drain" /\ results # <<>> /\ (Head(results).err \/ firstErr)
    /\ results' = Tail(results)
    /\ UNCHANGED <<fixed, goroutines, main, spill, tempDir, batch, stored, count, firstErr, faults>>

\* A result that is an error, or that follows one, is read and dropped.
DrainError ==
    /\ main = "drain" /\ results # <<>> /\ (Head(results).err \/ firstErr)
    /\ results' = Tail(results)
    /\ firstErr' = TRUE
    /\ UNCHANGED <<fixed, goroutines, main, spill, tempDir, batch, stored, count, faults>>

DrainRef ==
    /\ main = "drain" /\ results # <<>> /\ ~Head(results).err /\ ~firstErr
    /\ LET ref == Head(results).ref
           pending == IF persist THEN Append(batch, ref.hash) ELSE batch
       IN  /\ spill' = SpillAdd(spill, ref, RunSize)
           /\ count' = count + 1
           /\ IF Len(pending) >= BatchSize
              THEN Flush(pending)
              ELSE batch' = pending /\ UNCHANGED <<stored, firstErr, faults>>
    /\ results' = Tail(results)
    /\ UNCHANGED <<fixed, goroutines, main, tempDir>>

\* spill.Add fails while it writes a run: the buffer stays as it was grown.
DrainSpillFails ==
    /\ main = "drain" /\ results # <<>> /\ ~Head(results).err /\ ~firstErr
    /\ LET grown == [spill EXCEPT !.buf = Append(@, Head(results).ref), !.dirty = TRUE]
       IN  SpillIsFull(grown, RunSize) /\ spill' = grown
    /\ Fault("spill") /\ firstErr' = TRUE
    /\ results' = Tail(results)
    /\ UNCHANGED <<fixed, goroutines, main, tempDir, batch, stored, count>>

ResultsClosed == WorkersDone /\ results = <<>>

\* Mutant of FinishDrain: the last batch is not flushed.
FinishDrain_NoFlush ==
    /\ main = "drain" /\ ResultsClosed
    /\ IF firstErr \/ reader.err
       THEN main' = "error" /\ tempDir' = FALSE
       ELSE main' = "ok" /\ UNCHANGED tempDir
    /\ UNCHANGED <<fixed, goroutines, results, spill, count, batch, stored, firstErr, faults>>

\* Mutant of FinishDrain: an error returns without Cleanup.
FinishDrain_NoCleanup ==
    /\ main = "drain" /\ ResultsClosed
    /\ Flush(batch)
    /\ main' = IF firstErr' \/ reader.err THEN "error" ELSE "ok"
    /\ UNCHANGED <<fixed, goroutines, results, spill, tempDir, count>>

\* The last flush runs even after an error; any error removes the spill.
FinishDrain ==
    /\ main = "drain" /\ ResultsClosed
    /\ Flush(batch)
    /\ IF firstErr' \/ reader.err
       THEN main' = "error" /\ tempDir' = FALSE
       ELSE main' = "ok" /\ UNCHANGED tempDir
    /\ UNCHANGED <<fixed, goroutines, results, spill, count>>

ReaderStep == SendJob \/ SendBadJob \/ ReadEnds \/ ReadFails
WorkerStep(w) == CodecFails(w) \/ Encode(w) \/ SendResult(w) \/ WorkerEnds(w)
DrainStep == DrainError \/ DrainRef \/ DrainSpillFails \/ FinishDrain
MainStep == MakeSpill \/ MakeSpillFails \/ DrainStep

ScanNext == ReaderStep \/ (\E w \in Workers : WorkerStep(w)) \/ MainStep

-----------------------------------------------------------------------------
\* Everything the spill has taken: its runs and the buffer.
SpilledRuns == Append(spill.runs, spill.buf)

ScanTypeOK ==
    /\ reader \in [pos : Nat \ {0}, pc : {"reading", "done"}, err : BOOLEAN]
    /\ Len(jobs) <= ChannelSize /\ Len(results) <= ChannelSize
    /\ main \in {"spill", "drain", "ok", "error"}
    /\ {tempDir, firstErr} \subseteq BOOLEAN /\ count \in Nat

\* pipeline.go:102-163, pipeline_sql.go:94-152. A scan that reports success took
\* every document of the cursor exactly once into the spill, counted it, and had
\* its content stored, whatever order the workers finished in.
ScanIsComplete ==
    main = "ok" =>
        /\ HeldBy(SpilledRuns) = ToSet(input) /\ NoneTwice(SpilledRuns)
        /\ count = Len(input)
        /\ persist => {r.hash : r \in ToSet(input)} \subseteq stored

\* pipeline_sql.go:72-77. Success means that nothing failed in any goroutine: a
\* stream that broke off, a document that did not decode or encode and a batch
\* the store refused all reach the caller, even through the drained channel.
\* ("use" is what may go wrong later, with a scan that succeeded.)
NoFaultIsSwallowed == main = "ok" => faults \subseteq {"use"}

\* pipeline_sql.go:72-77. "Only read after results is drained": the stream's
\* error is looked at only when the reader has returned, except on the paths on
\* which no worker is left and an error has already been recorded.
ErrorReadAfterStream ==
    main = "ok" \/ (main = "error" /\ "tempdir" \notin faults /\ ~firstErr) => reader.pc = "done"

\* extsort.go:191-194, pipeline.go:152-160. Whenever the caller has given up on a
\* scan the spill's directory is gone.
FailedScanLeavesNoFiles == main = "error" => ~tempDir

\* pipeline.go:44-100. The goroutines of a scan end, unless the temporary
\* directory could not be made or no worker got a codec: in those two cases they
\* may stay blocked on a channel nobody reads.
GoroutinesEnd ==
    <>[](\/ reader.pc = "done" /\ WorkersDone
         \/ "tempdir" \in faults
         \/ "codec" \in faults /\ WorkersDone)
=============================================================================
