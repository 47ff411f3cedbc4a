---------------------------- MODULE DesktopJobs ----------------------------
\* The background jobs of the desktop application: jobManager (desktop/jobs.go)
\* and everything that runs on it - snapshot and backup jobs, cancelable SQL
\* queries, the cross-database search, tool installers, model downloads - and
\* the AI streams, which share only its registry of cancel functions.
EXTENDS Naturals, FiniteSets

CONSTANTS Jobs,      \* identities of jobs and streams
          Kinds,     \* the bindings that are called, a subset of AllKinds
          MaxConns,  \* saved connections a search goes through
          MaxDbs,    \* databases of one connection
          MaxLines   \* lines a tool can be ahead of their reader

Streams    == {"ollama", "anthropic", "openai"}
Installs   == {"ollama-install", "deps-install"}
Cancelable == {"sql-query", "cross-db-search", "ollama-pull"} \cup Streams
AllKinds   == Cancelable \cup Installs \cup {"mongo-work", "sql-work"}

ASSUME JobsAssumption == /\ Kinds \subseteq AllKinds
                         /\ MaxConns \in Nat /\ MaxDbs \in Nat /\ MaxLines \in Nat

VARIABLES
    kind,      \* what each job runs, "none" before it is started
    call,      \* the binding call of the frontend: where it is before its return
    pc,        \* the goroutine that does the work
    status,    \* jobs[id].Status
    result,    \* what the work function is going to return
    cancels,   \* the registry of cancel functions
    canceled,  \* jobs whose context is done
    missed,    \* jobs for which a CancelJob found nothing
    todo,      \* connections, or installer commands, that are left
    dbs,       \* databases left in the connection being searched
    cut,       \* whether a cancel made a search skip something, with "more" to
               \* follow or as the "last" thing
    sessions,  \* jobs that hold an engine session
    chunk,     \* a provider goroutine: reading, offering a chunk, or closed
    lines,     \* tool output that its reader has not reported
    reader,    \* the goroutine that reads a tool's output
    ends,      \* terminal events each job has sent to the frontend
    late,      \* jobs with an event after a terminal one
    settled    \* jobs whose view has handled the terminal event

ctxVars  == <<cancels, canceled, missed>>
workVars == <<todo, dbs, cut, sessions>>
peerVars == <<chunk, lines, reader>>
uiVars   == <<ends, late, settled>>
vars == <<kind, call, pc, status, result, ctxVars, workVars, peerVars, uiVars>>

Offers == {"delta", "done", "err"}

TypeOK ==
    /\ kind \in [Jobs -> Kinds \cup {"none"}]
    /\ call \in [Jobs -> {"none", "announce", "register", "return", "returned", "refused"}]
    /\ pc \in [Jobs -> {"none", "acquire", "work", "query", "running", "load",
                        "check", "databases", "db", "namespaces", "search", "connect", "pulling", "tool",
                        "drain", "range", "deregister", "finish", "over"}]
    /\ status \in [Jobs -> {"none", "running", "done", "failed"}]
    /\ result \in [Jobs -> {"done", "failed"}]
    /\ cancels \subseteq Jobs /\ canceled \subseteq Jobs /\ missed \subseteq Jobs
    /\ todo \in [Jobs -> 0..MaxConns + 3]
    /\ dbs \in [Jobs -> 0..MaxDbs]
    /\ cut \in [Jobs -> {"no", "more", "last"}] /\ sessions \subseteq Jobs
    /\ chunk \in [Jobs -> Offers \cup {"none", "reading", "closed"}]
    /\ lines \in [Jobs -> 0..MaxLines]
    /\ reader \in [Jobs -> {"none", "on", "dead"}]
    /\ ends \in [Jobs -> 0..2]
    /\ late \subseteq Jobs /\ settled \subseteq Jobs

Init ==
    /\ kind = [j \in Jobs |-> "none"]
    /\ call = [j \in Jobs |-> "none"]
    /\ pc = [j \in Jobs |-> "none"]
    /\ status = [j \in Jobs |-> "none"]
    /\ result = [j \in Jobs |-> "failed"]
    /\ cancels = {} /\ canceled = {} /\ missed = {}
    /\ todo = [j \in Jobs |-> 0]
    /\ dbs = [j \in Jobs |-> 0]
    /\ cut = [j \in Jobs |-> "no"] /\ sessions = {}
    /\ chunk = [j \in Jobs |-> "none"]
    /\ lines = [j \in Jobs |-> 0]
    /\ reader = [j \in Jobs |-> "none"]
    /\ ends = [j \in Jobs |-> 0]
    /\ late = {} /\ settled = {}

-----------------------------------------------------------------------------
\* Events to the frontend. A view follows one job: it ignores the events of any
\* id but the one its call returned.

Update(j, terminal) ==
    /\ ends' = IF terminal THEN [ends EXCEPT ![j] = @ + 1] ELSE ends
    /\ late' = IF ends[j] > 0 THEN late \cup {j} ELSE late
    /\ settled' = IF terminal /\ call[j] = "returned" THEN settled \cup {j} ELSE settled

GoTo(j, l) == pc' = [pc EXCEPT ![j] = l]

\* The work function of j is about to return r; its deferred release() runs.
Return(j, r) ==
    /\ result' = [result EXCEPT ![j] = r]
    /\ sessions' = sessions \ {j}
    /\ GoTo(j, IF kind[j] \in Cancelable THEN "deregister" ELSE "finish")

-----------------------------------------------------------------------------
\* The binding: start, registration of the cancel function, return of the id.

\* CreateSnapshot and its like fail before there is a job: unknown connection,
\* unknown engine; runAIStream when its provider refuses the request.
Refuse(j, k) ==
    /\ call[j] = "none" /\ k \in {"mongo-work", "sql-work"} \cup Streams
    /\ kind' = [kind EXCEPT ![j] = k]
    /\ call' = [call EXCEPT ![j] = "refused"]
    /\ UNCHANGED <<pc, status, result, ctxVars, workVars, peerVars, uiVars>>

\* How many commands an installer runs: Homebrew needs three for the tools.
Commands(k) == IF k = "deps-install" THEN {1, 3} ELSE {1}

\* jobManager.start, up to the unlock.
Start(j, k) ==
    /\ call[j] = "none" /\ k \notin Streams
    /\ kind' = [kind EXCEPT ![j] = k]
    /\ call' = [call EXCEPT ![j] = "announce"]
    /\ status' = [status EXCEPT ![j] = "running"]
    /\ \E n \in Commands(k) : todo' = [todo EXCEPT ![j] = n]
    /\ UNCHANGED <<pc, result, ctxVars, dbs, cut, sessions, peerVars, uiVars>>

FirstStep(k) == CASE k \in {"sql-query", "sql-work"} -> "acquire"
                  [] k = "mongo-work" -> "work"
                  [] k = "cross-db-search" -> "load"
                  [] k = "ollama-pull" -> "connect"
                  [] k \in Installs -> "tool"
                  [] k \in Streams -> "range"

\* The running event of start; run then starts the goroutine.
Announce(j) ==
    /\ call[j] = "announce"
    /\ Update(j, FALSE)
    /\ IF kind[j] \in Cancelable
       THEN call' = [call EXCEPT ![j] = "register"] /\ UNCHANGED <<pc, reader>>
       ELSE /\ call' = [call EXCEPT ![j] = "return"]
            /\ GoTo(j, FirstStep(kind[j]))
            /\ reader' = IF kind[j] \in Installs THEN [reader EXCEPT ![j] = "on"] ELSE reader
    /\ UNCHANGED <<kind, status, result, ctxVars, workVars, chunk, lines>>

\* runCancelable, PullOllamaModel, RunCrossDatabaseSearch and runAIStream put the
\* cancel function into the registry, and then start the goroutine.
Register(j) ==
    /\ call[j] = "register"
    /\ cancels' = cancels \cup {j}
    /\ call' = [call EXCEPT ![j] = "return"]
    /\ GoTo(j, FirstStep(kind[j]))
    /\ UNCHANGED <<kind, status, result, canceled, missed, workVars, peerVars, uiVars>>

\* The call returns: from here on the view knows the id.
ReturnId(j) ==
    /\ call[j] = "return"
    /\ call' = [call EXCEPT ![j] = "returned"]
    /\ UNCHANGED <<kind, pc, status, result, ctxVars, workVars, peerVars, uiVars>>

\* jobManager.cancel, offered by the view while it waits.
Cancel(j) ==
    /\ call[j] = "returned" /\ kind[j] \in Cancelable /\ j \notin settled
    /\ IF j \in cancels
       THEN canceled' = canceled \cup {j} /\ UNCHANGED missed
       ELSE missed' = missed \cup {j} /\ UNCHANGED canceled
    /\ UNCHANGED <<kind, call, pc, status, result, cancels, workVars, peerVars, uiVars>>

\* delete(m.cancels, id); an AI stream's context is canceled as well, and there
\* is no job to finish.
Deregister(j) ==
    /\ pc[j] = "deregister"
    /\ cancels' = cancels \ {j}
    /\ canceled' = IF kind[j] \in Streams THEN canceled \cup {j} ELSE canceled
    /\ GoTo(j, IF kind[j] \in Streams THEN "over" ELSE "finish")
    /\ UNCHANGED <<kind, call, status, result, missed, workVars, peerVars, uiVars>>

\* jobManager.finish and its event.
Finish(j) ==
    /\ pc[j] = "finish"
    /\ status' = [status EXCEPT ![j] = result[j]]
    /\ Update(j, TRUE)
    /\ GoTo(j, "over")
    /\ UNCHANGED <<kind, call, result, ctxVars, workVars, peerVars>>

-----------------------------------------------------------------------------
\* Snapshot and backup jobs, and SQL queries.

\* a.sqlSession: Acquire without the job's context.
AcquireSession(j) ==
    /\ pc[j] = "acquire" /\ kind[j] # "cross-db-search"
    /\ \/ /\ sessions' = sessions \cup {j}
          /\ GoTo(j, IF kind[j] = "sql-query" THEN "query" ELSE "work")
          /\ UNCHANGED result
       \/ Return(j, "failed")
    /\ UNCHANGED <<kind, call, status, ctxVars, todo, dbs, cut, peerVars, uiVars>>

Work(j) ==
    /\ pc[j] = "work"
    /\ \E r \in {"done", "failed"} : Return(j, r)
    /\ UNCHANGED <<kind, call, status, ctxVars, todo, dbs, cut, peerVars, uiVars>>

\* Mutant of BeginQuery: the registry entry is deleted before the query.
BeginQuery_Unregisters(j) ==
    /\ pc[j] = "query"
    /\ cancels' = cancels \ {j}
    /\ GoTo(j, "running")
    /\ UNCHANGED <<kind, call, status, result, canceled, missed, workVars, peerVars, uiVars>>

\* The driver refuses to start under a context that is done.
BeginQuery(j) ==
    /\ pc[j] = "query"
    /\ IF j \in canceled THEN Return(j, "failed")
       ELSE GoTo(j, "running") /\ UNCHANGED <<result, sessions>>
    /\ UNCHANGED <<kind, call, status, ctxVars, todo, dbs, cut, peerVars, uiVars>>

EndQuery(j) ==
    /\ pc[j] = "running"
    /\ \E r \in {"done", "failed"} : Return(j, r)
    /\ UNCHANGED <<kind, call, status, ctxVars, todo, dbs, cut, peerVars, uiVars>>

\* Mutant of AbortQuery: the query runs under context.Background().
AbortQuery_Background(j) == FALSE

AbortQuery(j) ==
    /\ pc[j] = "running" /\ j \in canceled
    /\ Return(j, "failed")
    /\ UNCHANGED <<kind, call, status, ctxVars, todo, dbs, cut, peerVars, uiVars>>

-----------------------------------------------------------------------------
\* RunCrossDatabaseSearch.

\* config.Load.
LoadConnections(j) ==
    /\ pc[j] = "load"
    /\ \/ Return(j, "failed") /\ UNCHANGED todo
       \/ /\ \E n \in 0..MaxConns : todo' = [todo EXCEPT ![j] = n]
          /\ GoTo(j, "check") /\ UNCHANGED <<result, sessions>>
    /\ UNCHANGED <<kind, call, status, ctxVars, dbs, cut, peerVars, uiVars>>

\* Mutant of NextConnection: one connection too many.
NextConnection_OffByOne(j) ==
    /\ pc[j] = "check" /\ todo' = [todo EXCEPT ![j] = @ - 1]
    /\ IF j \in canceled THEN Return(j, "failed") ELSE GoTo(j, "acquire") /\ UNCHANGED <<result, sessions>>
    /\ UNCHANGED <<kind, call, status, ctxVars, dbs, cut, peerVars, uiVars>>

\* The head of the loop over the connections, with its progress event.
NextConnection(j) ==
    /\ pc[j] = "check"
    /\ \/ /\ todo[j] > 0 /\ j \in canceled
          /\ Return(j, "failed")
          /\ UNCHANGED <<todo, uiVars>>
       \/ /\ todo[j] > 0 /\ j \notin canceled
          /\ Update(j, FALSE)
          /\ todo' = [todo EXCEPT ![j] = @ - 1]
          /\ GoTo(j, "acquire")
          /\ UNCHANGED <<result, sessions>>
       \/ /\ todo[j] = 0
          /\ Update(j, FALSE)
          /\ Return(j, "done")
          /\ UNCHANGED todo
    /\ UNCHANGED <<kind, call, status, ctxVars, dbs, cut, peerVars>>

\* Under a context that is done what fails now, or ends early, is cut.
CutShort(j) ==
    cut' = [cut EXCEPT ![j] = IF j \notin canceled THEN @
                              ELSE IF dbs[j] + todo[j] > 0 THEN "more" ELSE "last"]

\* Acquire fails, as it does for a connection that was canceled: on to the next one.
OpenConnection(j) ==
    /\ pc[j] = "acquire" /\ kind[j] = "cross-db-search"
    /\ \/ sessions' = sessions \cup {j} /\ GoTo(j, "databases") /\ UNCHANGED cut
       \/ UNCHANGED sessions /\ GoTo(j, "check") /\ CutShort(j)
    /\ UNCHANGED <<kind, call, status, result, ctxVars, todo, dbs, peerVars, uiVars>>

\* ListDatabases fails under a context that is done, and may fail without: on to the
\* next connection as well.
ListDatabases(j) ==
    /\ pc[j] = "databases"
    /\ \/ sessions' = sessions \ {j} /\ GoTo(j, "check") /\ CutShort(j) /\ UNCHANGED dbs
       \/ /\ j \notin canceled
          /\ \E n \in 0..MaxDbs : dbs' = [dbs EXCEPT ![j] = n]
          /\ GoTo(j, "db") /\ UNCHANGED <<sessions, cut>>
    /\ UNCHANGED <<kind, call, status, result, ctxVars, todo, peerVars, uiVars>>

\* Mutant of NextDatabase: the context is looked at per connection only.
NextDatabase_NoCheck(j) ==
    /\ pc[j] = "db"
    /\ IF dbs[j] = 0 THEN sessions' = sessions \ {j} /\ GoTo(j, "check") /\ UNCHANGED dbs
       ELSE dbs' = [dbs EXCEPT ![j] = @ - 1] /\ GoTo(j, "namespaces") /\ UNCHANGED sessions
    /\ UNCHANGED <<kind, call, status, result, ctxVars, todo, cut, peerVars, uiVars>>

\* Mutant of NextDatabase: no release() before the return of a canceled search.
NextDatabase_Leaks(j) ==
    /\ pc[j] = "db"
    /\ IF dbs[j] > 0 /\ j \in canceled
       THEN GoTo(j, "deregister") /\ UNCHANGED <<dbs, sessions>>
       ELSE sessions' = sessions \ {j} /\ dbs' = [dbs EXCEPT ![j] = 0] /\ GoTo(j, "check")
    /\ UNCHANGED <<kind, call, status, result, ctxVars, todo, cut, peerVars, uiVars>>

NextDatabase(j) ==
    /\ pc[j] = "db"
    /\ \/ /\ dbs[j] = 0
          /\ sessions' = sessions \ {j} /\ GoTo(j, "check")
          /\ UNCHANGED <<dbs, result>>
       \/ /\ dbs[j] > 0 /\ j \in canceled
          /\ Return(j, "failed")
          /\ UNCHANGED dbs
       \/ /\ dbs[j] > 0 /\ j \notin canceled
          /\ dbs' = [dbs EXCEPT ![j] = @ - 1]
          /\ GoTo(j, "namespaces")
          /\ UNCHANGED <<result, sessions>>
    /\ UNCHANGED <<kind, call, status, ctxVars, todo, cut, peerVars, uiVars>>

\* A database whose ListNamespaces fails is skipped.
ListNamespaces(j) ==
    /\ pc[j] = "namespaces"
    /\ \/ GoTo(j, "db") /\ CutShort(j)
       \/ j \notin canceled /\ GoTo(j, "search") /\ UNCHANGED cut
    /\ UNCHANGED <<kind, call, status, result, ctxVars, todo, dbs, sessions, peerVars, uiVars>>

\* Both searches go through the tables or collections of a database and, when
\* the context is done, return what they have without an error.
Search(j) ==
    /\ pc[j] = "search"
    /\ UNCHANGED cut \/ CutShort(j)
    /\ GoTo(j, "db")
    /\ UNCHANGED <<kind, call, status, result, ctxVars, todo, dbs, sessions, peerVars, uiVars>>

SearchSQLNamespaces(j) == Search(j)

SearchDocumentNamespaces(j) == Search(j)

-----------------------------------------------------------------------------
\* PullOllamaModel.

PullConnect(j) ==
    /\ pc[j] = "connect"
    /\ \/ j \notin canceled /\ GoTo(j, "pulling") /\ UNCHANGED <<result, sessions>>
       \/ Return(j, "failed")
    /\ UNCHANGED <<kind, call, status, ctxVars, todo, dbs, cut, peerVars, uiVars>>

\* One line of the answer: an error ends the download; progress is reported and
\* then the context is looked at.
PullLine(j) ==
    /\ pc[j] = "pulling"
    /\ \/ Return(j, "failed") /\ UNCHANGED uiVars
       \/ /\ Update(j, FALSE)
          /\ IF j \in canceled THEN Return(j, "failed") ELSE UNCHANGED <<pc, result, sessions>>
    /\ UNCHANGED <<kind, call, status, ctxVars, todo, dbs, cut, peerVars>>

\* The body ends: scanner.Err() is nil at its end, and the context's error when
\* that is done.
PullEnd(j) ==
    /\ pc[j] = "pulling"
    /\ Return(j, IF j \in canceled THEN "failed" ELSE "done")
    /\ UNCHANGED <<kind, call, status, ctxVars, todo, dbs, cut, peerVars, uiVars>>

-----------------------------------------------------------------------------
\* The installers: runStreamed for each command, its output read by a goroutine.

\* exec.LookPath or cmd.Start fails, nothing has been printed.
NoTool(j) ==
    /\ pc[j] = "tool" /\ lines[j] = 0 /\ reader[j] = "on"
    /\ Return(j, "failed")
    /\ reader' = [reader EXCEPT ![j] = "none"]
    /\ UNCHANGED <<kind, call, status, ctxVars, todo, dbs, cut, chunk, lines, uiVars>>

ToolPrints(j) ==
    /\ pc[j] = "tool" /\ reader[j] = "on" /\ lines[j] < MaxLines
    /\ lines' = [lines EXCEPT ![j] = @ + 1]
    /\ UNCHANGED <<kind, call, pc, status, result, ctxVars, workVars, chunk, reader, uiVars>>

\* Only InstallOllama reports the lines as progress.
ReportLine(j) ==
    /\ reader[j] = "on" /\ lines[j] > 0
    /\ lines' = [lines EXCEPT ![j] = @ - 1]
    /\ IF kind[j] = "ollama-install" THEN Update(j, FALSE) ELSE UNCHANGED uiVars
    /\ UNCHANGED <<kind, call, pc, status, result, ctxVars, workVars, chunk, reader>>

\* A line longer than the Scanner's buffer ends the reader's loop; the pipe is
\* not closed, so from now on the tool's output blocks and Wait does not return.
LineTooLong(j) ==
    /\ pc[j] = "tool" /\ reader[j] = "on"
    /\ reader' = [reader EXCEPT ![j] = "dead"]
    /\ UNCHANGED <<kind, call, pc, status, result, ctxVars, workVars, chunk, lines, uiVars>>

\* cmd.Wait returns; pw.Close() and <-done follow.
ToolExits(j) ==
    /\ pc[j] = "tool" /\ reader[j] = "on"
    /\ \E r \in {"done", "failed"} : result' = [result EXCEPT ![j] = r]
    /\ GoTo(j, "drain")
    /\ UNCHANGED <<kind, call, status, ctxVars, workVars, peerVars, uiVars>>

\* Mutant of Drained: the function returns without <-done.
Drained_NoWait(j) ==
    /\ pc[j] = "drain"
    /\ Return(j, result[j])
    /\ UNCHANGED <<kind, call, status, ctxVars, todo, dbs, cut, peerVars, uiVars>>

\* Mutant of Drained: pw.Close() is missing, the reader waits for more.
Drained_NoClose(j) == FALSE

\* The reader has reported every line. The second of the three brew commands,
\* "trust", may fail.
Drained(j) ==
    /\ pc[j] = "drain" /\ lines[j] = 0
    /\ todo' = [todo EXCEPT ![j] = @ - 1]
    /\ IF (result[j] = "done" \/ todo[j] = 2) /\ todo[j] > 1
       THEN GoTo(j, "tool") /\ UNCHANGED <<result, sessions, reader>>
       ELSE Return(j, result[j]) /\ reader' = [reader EXCEPT ![j] = "none"]
    /\ UNCHANGED <<kind, call, status, ctxVars, dbs, cut, chunk, lines, uiVars>>

-----------------------------------------------------------------------------
\* AI streams: a provider goroutine that sends chunks over an unbuffered channel,
\* and the goroutine of runAIStream that turns them into events.

\* provider.Complete has answered.
OpenStream(j, k) ==
    /\ call[j] = "none" /\ k \in Streams
    /\ kind' = [kind EXCEPT ![j] = k]
    /\ call' = [call EXCEPT ![j] = "register"]
    /\ chunk' = [chunk EXCEPT ![j] = "reading"]
    /\ UNCHANGED <<pc, status, result, ctxVars, workVars, lines, reader, uiVars>>

Offer(j, c) ==
    /\ chunk[j] = "reading"
    /\ chunk' = [chunk EXCEPT ![j] = c]
    /\ UNCHANGED <<kind, call, pc, status, result, ctxVars, workVars, lines, reader, uiVars>>

\* A line of /api/chat, an unreadable one, or the end of the body.
OllamaReads(j) == kind[j] = "ollama" /\ \E c \in Offers \cup {"closed"} : Offer(j, c)

\* An event of the Messages API: content_block_delta, message_stop, error, or
\* one that does not parse; or the end of the body.
AnthropicReads(j) == kind[j] = "anthropic" /\ \E c \in Offers \cup {"closed"} : Offer(j, c)

\* A chunk of chat/completions, the literal [DONE], an error, or the end.
OpenAIReads(j) == kind[j] = "openai" /\ \E c \in Offers \cup {"closed"} : Offer(j, c)

\* The body of a canceled request cannot be read any more.
ReadAborted(j) == j \in canceled /\ Offer(j, "err")

\* send: the context is done first. Every caller then closes the channel.
GiveUp(j) ==
    /\ chunk[j] \in Offers /\ j \in canceled
    /\ chunk' = [chunk EXCEPT ![j] = "closed"]
    /\ UNCHANGED <<kind, call, pc, status, result, ctxVars, workVars, lines, reader, uiVars>>

\* send: the consumer takes the chunk and emits it. An error ends the loop; after
\* Done the consumer goes on until the channel is closed.
Deliver(j) ==
    /\ pc[j] = "range" /\ chunk[j] \in Offers
    /\ Update(j, chunk[j] # "delta")
    /\ chunk' = [chunk EXCEPT ![j] = IF chunk[j] = "delta" THEN "reading" ELSE "closed"]
    /\ IF chunk[j] = "err" THEN GoTo(j, "deregister") ELSE UNCHANGED pc
    /\ UNCHANGED <<kind, call, status, result, ctxVars, workVars, lines, reader>>

\* The channel is closed; without a terminal chunk before, tell the frontend.
StreamClosed(j) ==
    /\ pc[j] = "range" /\ chunk[j] = "closed"
    /\ IF ends[j] = 0 THEN Update(j, TRUE) ELSE UNCHANGED uiVars
    /\ GoTo(j, "deregister")
    /\ UNCHANGED <<kind, call, status, result, ctxVars, workVars, peerVars>>

\* Mutant of Timeout: WithCancel instead of WithTimeout.
Timeout_None(j) == FALSE

\* aiRequestTimeout.
Timeout(j) ==
    /\ kind[j] \in Streams /\ chunk[j] # "none" /\ pc[j] # "over" /\ j \notin canceled
    /\ canceled' = canceled \cup {j}
    /\ UNCHANGED <<kind, call, pc, status, result, cancels, missed, workVars, peerVars, uiVars>>

-----------------------------------------------------------------------------
Binding(j) == Announce(j) \/ Register(j) \/ ReturnId(j)

Searching(j) == \/ LoadConnections(j) \/ NextConnection(j) \/ OpenConnection(j)
                \/ ListDatabases(j) \/ NextDatabase(j) \/ ListNamespaces(j)
                \/ SearchSQLNamespaces(j) \/ SearchDocumentNamespaces(j)

\* Steps the program takes by itself, or that a done context forces.
Progress(j) ==
    \/ Binding(j) \/ Deregister(j) \/ Finish(j) \/ AcquireSession(j)
    \/ BeginQuery(j) \/ AbortQuery(j) \/ Searching(j) \/ PullConnect(j)
    \/ (j \in canceled /\ PullEnd(j))
    \/ ReportLine(j) \/ Drained(j)
    \/ ReadAborted(j) \/ Deliver(j) \/ StreamClosed(j)

\* Steps of a database, a server or a tool, which may be slow for ever.
Outside(j) ==
    \/ Work(j) \/ EndQuery(j) \/ PullLine(j) \/ PullEnd(j)
    \/ NoTool(j) \/ ToolPrints(j) \/ LineTooLong(j) \/ ToolExits(j)
    \/ OllamaReads(j) \/ AnthropicReads(j) \/ OpenAIReads(j) \/ GiveUp(j)

Next == \E j \in Jobs :
    \/ \E k \in Kinds : Refuse(j, k) \/ Start(j, k) \/ OpenStream(j, k)
    \/ Cancel(j) \/ Timeout(j) \/ Progress(j) \/ Outside(j)

Spec == Init /\ [][Next]_vars

\* Goroutines are scheduled, connecting to a database returns, a timer expires;
\* the select of send picks one of its ready cases at random, so that with the
\* context done again and again it takes that case in the end.
\* Tools exit.
JobsFairness == \A j \in Jobs : /\ WF_vars(Progress(j))
                                /\ WF_vars(ToolExits(j))
                                /\ WF_vars(Timeout(j))
                                /\ SF_vars(GiveUp(j))

-----------------------------------------------------------------------------
\* The frontend is told of the end of a job or stream once, and of nothing of it
\* after that: not by the reader of a tool's output, not by a closing channel.
EndsOnce == late = {} /\ \A j \in Jobs : ends[j] <= 1

\* Whatever way a job ends, its session is released, its cancel function is out
\* of the registry, and no provider goroutine is left that could block on send.
NothingLeft ==
    \A j \in Jobs : pc[j] = "over" =>
        /\ j \notin sessions /\ j \notin cancels
        /\ reader[j] = "none"
        /\ chunk[j] \in {"none", "closed"} \/ j \in canceled

\* A cancel that reports "nothing to cancel" came when the work was done.
MissedOnlyFinished == \A j \in missed : pc[j] \in {"finish", "over"}

\* A search that a cancel made skip something - a connection it can no longer open or
\* list, a database it can no longer list or leaves early - is not reported as done,
\* if a connection or database follows: the check before that one ends it. What is
\* skipped as the last thing no check follows: that search is done, with what it has.
CutIsReported == \A j \in Jobs : cut[j] = "more" => status[j] # "done"

\* A canceled job ends, whatever its database or server does.
CanceledEnds == \A j \in Jobs : (j \in canceled) ~> (pc[j] = "over")

\* An AI stream ends by itself: by its last chunk, or by the timeout.
StreamsEnd == \A j \in Jobs : (chunk[j] = "reading") ~> (pc[j] = "over")

\* An installer whose tool exits ends, unless a line was too long for its reader.
InstallsEnd == \A j \in Jobs : (pc[j] = "tool") ~> (pc[j] = "over" \/ reader[j] = "dead")

\* Whatever a job runs and whenever a cancel or a timeout comes: the view hears of
\* its end once and truthfully, and nothing of it stays behind.
JobsEndCleanly ==
    /\ TypeOK
    /\ EndsOnce /\ NothingLeft
    /\ MissedOnlyFinished /\ CutIsReported

\* Every job that can end by itself or is canceled does end.
JobsEnd == CanceledEnds /\ StreamsEnd /\ InstallsEnd
=============================================================================
