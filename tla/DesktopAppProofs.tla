-------------------------- MODULE DesktopAppProofs --------------------------
(***************************************************************************)
(* The services of the desktop application: background jobs end cleanly,   *)
(* the webhook listener reports nothing after a stop and loses no port, a  *)
(* tunneled session leaves nothing open and uses no other one's tunnel,    *)
(* and the manager's shared sessions are counted right and closed neither  *)
(* under a user nor twice nor never.  For any number of jobs, streams,     *)
(* bindings, requests, servers, callers, profiles, sessions and dials.     *)
(***************************************************************************)
EXTENDS DesktopApp, FiniteSetTheorems, TLAPS

-----------------------------------------------------------------------------
\* DesktopJobs.

\* The goroutine of a job starts after its announcement or registration; until
\* there is a provider goroutine there is no chunk.
CallInv == \A j \in Jobs :
    /\ pc[j] = "none" <=> call[j] \in {"none", "announce", "register", "refused"}
    /\ call[j] = "none" \/ kind[j] \in Kinds
    /\ call[j] \in {"none", "announce"} \/ kind[j] \notin Streams => chunk[j] = "none"
    /\ call[j] = "register" => kind[j] \in Cancelable
    /\ kind[j] \in Streams => pc[j] \in {"none", "range", "deregister", "over"}
    /\ pc[j] = "over" /\ kind[j] \in Streams => j \in canceled

\* A tool's output has a reader while its command runs, and an installer that
\* runs a command has not run out of commands.
ReaderInv == \A j \in Jobs :
    /\ reader[j] # "none" => pc[j] \in {"tool", "drain"}
    /\ pc[j] \in {"tool", "drain"} => todo[j] > 0
    /\ call[j] = "announce" /\ kind[j] \in Installs => todo[j] > 0

\* After its terminal event a job is over; a stream has its channel to empty and
\* its context to cancel.
EventInv == \A j \in Jobs :
    /\ ends[j] \in {0, 1} /\ j \notin late
    /\ ends[j] = 1 => \/ pc[j] = "over"
                      \/ pc[j] = "deregister" /\ kind[j] \in Streams
                      \/ pc[j] = "range" /\ chunk[j] = "closed"

\* The registry has the cancel function of every cancelable job that works.
RegistryInv == \A j \in Jobs :
    /\ j \in cancels <=> call[j] \in {"return", "returned"} /\ kind[j] \in Cancelable
                         /\ pc[j] \notin {"finish", "over"}
    /\ j \in missed => pc[j] \in {"finish", "over"}

SessionInv == \A j \in sessions :
    pc[j] \in {"work", "query", "running", "databases", "db", "namespaces", "search"}

\* A search that was cut short with more to follow still has a check of its context before
\* it, or has failed at one. Between connections no database is left.
CutInv == \A j \in Jobs :
    /\ status[j] = "done" => pc[j] = "over"
    /\ pc[j] \in {"none", "load", "check", "acquire", "databases"} => dbs[j] = 0
    /\ cut[j] = "more" =>
           /\ j \in canceled /\ kind[j] \notin Streams
           /\ \/ pc[j] = "db" /\ dbs[j] + todo[j] > 0
              \/ pc[j] = "check" /\ todo[j] > 0
              \/ pc[j] \in {"deregister", "finish"} /\ result[j] = "failed"
              \/ pc[j] = "over" /\ status[j] = "failed"

JobInv == TypeOK /\ CallInv /\ ReaderInv /\ EventInv /\ RegistryInv /\ SessionInv /\ CutInv

LEMMA InitJobInv == Init => JobInv
  BY JobsAssumption DEF Init, JobInv, TypeOK, CallInv, ReaderInv, EventInv, RegistryInv,
     SessionInv, CutInv, Streams, Installs, Cancelable, AllKinds, Offers

LEMMA BindingStep == ASSUME JobInv, NEW j \in Jobs, NEW k \in Kinds,
                            Refuse(j, k) \/ Start(j, k) \/ OpenStream(j, k)
                     PROVE  JobInv'
<1> USE JobsAssumption DEF JobInv, TypeOK, CallInv, ReaderInv, EventInv, RegistryInv, SessionInv,
        CutInv, Streams, Installs, Cancelable, AllKinds, Offers, ctxVars, workVars, peerVars, uiVars
<1>1. CASE Refuse(j, k)
  BY <1>1 DEF Refuse
<1>2. CASE Start(j, k)
  BY <1>2 DEF Start, Commands
<1>3. CASE OpenStream(j, k)
  BY <1>3 DEF OpenStream
<1> QED BY <1>1, <1>2, <1>3

\* Where the goroutine of a binding starts.
LEMMA FirstSteps ==
    ASSUME NEW k \in AllKinds
    PROVE  /\ FirstStep(k) \in {"acquire", "work", "load", "connect", "tool", "range"}
           /\ FirstStep(k) = "tool" <=> k \in Installs
           /\ k \in Streams => FirstStep(k) = "range"
  BY DEF FirstStep, AllKinds, Cancelable, Streams, Installs

\* The rest of the binding, the cancel of the view, the end of a job.
LEMMA CallStep ==
    ASSUME JobInv, NEW j \in Jobs,
           Announce(j) \/ Register(j) \/ ReturnId(j) \/ Cancel(j) \/
           Deregister(j) \/ Finish(j) \/ Timeout(j)
    PROVE  JobInv'
<1> USE JobsAssumption DEF JobInv, TypeOK, CallInv, ReaderInv, EventInv, RegistryInv, SessionInv,
        CutInv, Streams, Installs, Cancelable, AllKinds, Offers, ctxVars, workVars, peerVars, uiVars,
        Update, GoTo
<1>1. CASE Announce(j)
  <2>1. kind[j] \in AllKinds
    BY <1>1 DEF Announce
  <2>2. CASE kind[j] \in Cancelable
    BY <1>1, <2>2 DEF Announce
  <2>3. CASE kind[j] \notin Cancelable
    <3>11. TypeOK' /\ CallInv' /\ ReaderInv'
      BY <1>1, <2>1, <2>3, FirstSteps DEF Announce
    <3>12. EventInv' /\ RegistryInv' /\ SessionInv'
      BY <1>1, <2>1, <2>3, FirstSteps DEF Announce
    <3>13. CutInv'
      BY <1>1, <2>1, <2>3, FirstSteps DEF Announce
    <3> QED BY <3>11, <3>12, <3>13 DEF JobInv
  <2> QED BY <2>2, <2>3
<1>2. CASE Register(j)
  <2>1. kind[j] \in AllKinds
    BY <1>2 DEF Register
  <2>2. kind[j] \in Cancelable /\ reader[j] = "none"
    BY <1>2 DEF Register
  <2> QED BY <1>2, <2>1, <2>2, FirstSteps DEF Register
<1>3. CASE ReturnId(j)
  BY <1>3 DEF ReturnId
<1>4. CASE Cancel(j)
  BY <1>4 DEF Cancel
<1>5. CASE Deregister(j)
  <2>1. CASE kind[j] \in Streams
    BY <1>5, <2>1 DEF Deregister
  <2>2. CASE kind[j] \notin Streams
    BY <1>5, <2>2 DEF Deregister
  <2> QED BY <2>1, <2>2
<1>6. CASE Finish(j)
  BY <1>6 DEF Finish
<1>7. CASE Timeout(j)
  BY <1>7 DEF Timeout
<1> QED BY <1>1, <1>2, <1>3, <1>4, <1>5, <1>6, <1>7

\* Snapshot and backup jobs, and queries.
LEMMA QueryStep ==
    ASSUME JobInv, NEW j \in Jobs,
           AcquireSession(j) \/ Work(j) \/ BeginQuery(j) \/ EndQuery(j) \/
           AbortQuery(j)
    PROVE  JobInv'
<1> USE JobsAssumption DEF JobInv, TypeOK, CallInv, ReaderInv, EventInv, RegistryInv, SessionInv,
        CutInv, Streams, Installs, Cancelable, AllKinds, Offers, ctxVars, workVars, peerVars, uiVars,
        Return, GoTo
<1>1. CASE AcquireSession(j)
  BY <1>1 DEF AcquireSession
<1>2. CASE Work(j)
  BY <1>2 DEF Work
<1>3. CASE BeginQuery(j)
  BY <1>3 DEF BeginQuery
<1>4. CASE EndQuery(j)
  BY <1>4 DEF EndQuery
<1>5. CASE AbortQuery(j)
  BY <1>5 DEF AbortQuery
<1> QED BY <1>1, <1>2, <1>3, <1>4, <1>5

\* The cross-database search.
LEMMA SearchStep ==
    ASSUME JobInv, NEW j \in Jobs,
           LoadConnections(j) \/ NextConnection(j) \/ OpenConnection(j) \/ ListDatabases(j) \/
           NextDatabase(j) \/ ListNamespaces(j) \/ Search(j)
    PROVE  JobInv'
<1> USE JobsAssumption DEF JobInv, TypeOK, CallInv, ReaderInv, EventInv, RegistryInv, SessionInv,
        CutInv, Streams, Installs, Cancelable, AllKinds, Offers, ctxVars, workVars, peerVars, uiVars,
        Update, Return, GoTo
<1>1. CASE LoadConnections(j)
  <2>11. TypeOK' /\ CallInv' /\ ReaderInv'
    BY <1>1 DEF LoadConnections
  <2>12. EventInv' /\ RegistryInv' /\ SessionInv'
    BY <1>1 DEF LoadConnections
  <2>13. CutInv'
    BY <1>1 DEF LoadConnections
  <2> QED BY <2>11, <2>12, <2>13 DEF JobInv
<1>2. CASE NextConnection(j)
  <2>1. CASE todo[j] > 0 /\ j \in canceled
    BY <1>2, <2>1 DEF NextConnection
  <2>2. CASE todo[j] > 0 /\ j \notin canceled
    <3>1. todo[j] - 1 \in 0..MaxConns + 3
      BY <2>2
    <3> QED BY <1>2, <2>2, <3>1 DEF NextConnection
  <2>3. CASE ~(todo[j] > 0)
    BY <1>2, <2>3 DEF NextConnection
  <2> QED BY <2>1, <2>2, <2>3
<1>3. CASE OpenConnection(j)
  BY <1>3 DEF OpenConnection, CutShort
<1>4. CASE ListDatabases(j)
  <2>11. TypeOK' /\ CallInv' /\ ReaderInv'
    BY <1>4 DEF ListDatabases, CutShort
  <2>12. EventInv' /\ RegistryInv' /\ SessionInv'
    BY <1>4 DEF ListDatabases, CutShort
  <2>13. CutInv'
    BY <1>4 DEF ListDatabases, CutShort
  <2> QED BY <2>11, <2>12, <2>13 DEF JobInv
<1>5. CASE NextDatabase(j)
  BY <1>5 DEF NextDatabase
<1>6. CASE Search(j)
  BY <1>6 DEF Search, CutShort
<1>7. CASE ListNamespaces(j)
  <2>11. TypeOK' /\ CallInv' /\ ReaderInv'
    BY <1>7 DEF ListNamespaces, CutShort
  <2>12. EventInv' /\ RegistryInv' /\ SessionInv'
    BY <1>7 DEF ListNamespaces, CutShort
  <2>13. CutInv'
    BY <1>7 DEF ListNamespaces, CutShort
  <2> QED BY <2>11, <2>12, <2>13 DEF JobInv
<1> QED BY <1>1, <1>2, <1>3, <1>4, <1>5, <1>6, <1>7

\* Model downloads and installers.
LEMMA ToolStep ==
    ASSUME JobInv, NEW j \in Jobs,
           PullConnect(j) \/ PullLine(j) \/ PullEnd(j) \/ NoTool(j) \/
           ToolPrints(j) \/ ReportLine(j) \/ LineTooLong(j) \/ ToolExits(j) \/
           Drained(j)
    PROVE  JobInv'
<1> USE JobsAssumption DEF JobInv, TypeOK, CallInv, ReaderInv, EventInv, RegistryInv, SessionInv,
        CutInv, Streams, Installs, Cancelable, AllKinds, Offers, ctxVars, workVars, peerVars, uiVars,
        Update, Return, GoTo
<1>1. CASE PullConnect(j)
  BY <1>1 DEF PullConnect
<1>2. CASE PullLine(j)
  BY <1>2 DEF PullLine
<1>3. CASE PullEnd(j)
  BY <1>3 DEF PullEnd
<1>4. CASE NoTool(j)
  BY <1>4 DEF NoTool
<1>5. CASE ToolPrints(j)
  BY <1>5 DEF ToolPrints
<1>6. CASE ReportLine(j)
  BY <1>6 DEF ReportLine
<1>7. CASE LineTooLong(j)
  BY <1>7 DEF LineTooLong
<1>8. CASE ToolExits(j)
  BY <1>8 DEF ToolExits
<1>9. CASE Drained(j)
  <2>1. call[j] \notin {"none", "announce", "register", "refused"} /\ todo[j] > 0
    BY <1>9 DEF Drained
  <2>2. todo[j] - 1 \in 0..MaxConns + 3
    BY <2>1
  <2>3. CASE (result[j] = "done" \/ todo[j] = 2) /\ todo[j] > 1
    <3>11. TypeOK' /\ CallInv' /\ ReaderInv'
      BY <1>9, <2>1, <2>2, <2>3 DEF Drained
    <3>12. EventInv' /\ RegistryInv' /\ SessionInv'
      BY <1>9, <2>1, <2>2, <2>3 DEF Drained
    <3>13. CutInv'
      BY <1>9, <2>1, <2>2, <2>3 DEF Drained
    <3> QED BY <3>11, <3>12, <3>13 DEF JobInv
  <2>4. CASE ~((result[j] = "done" \/ todo[j] = 2) /\ todo[j] > 1)
    BY <1>9, <2>1, <2>2, <2>4 DEF Drained
  <2> QED BY <2>3, <2>4
<1> QED BY <1>1, <1>2, <1>3, <1>4, <1>5, <1>6, <1>7, <1>8, <1>9

\* AI streams.
LEMMA StreamStep ==
    ASSUME JobInv, NEW j \in Jobs,
           OllamaReads(j) \/ AnthropicReads(j) \/ OpenAIReads(j) \/ ReadAborted(j) \/
           GiveUp(j) \/ Deliver(j) \/ StreamClosed(j)
    PROVE  JobInv'
<1> USE JobsAssumption DEF JobInv, TypeOK, CallInv, ReaderInv, EventInv, RegistryInv, SessionInv,
        CutInv, Streams, Installs, Cancelable, AllKinds, Offers, ctxVars, workVars, peerVars, uiVars,
        Update, GoTo, Offer
<1>1. CASE OllamaReads(j)
  BY <1>1 DEF OllamaReads
<1>2. CASE AnthropicReads(j)
  BY <1>2 DEF AnthropicReads
<1>3. CASE OpenAIReads(j)
  BY <1>3 DEF OpenAIReads
<1>4. CASE ReadAborted(j)
  BY <1>4 DEF ReadAborted
<1>5. CASE GiveUp(j)
  BY <1>5 DEF GiveUp
<1>6. CASE Deliver(j)
  BY <1>6 DEF Deliver
<1>7. CASE StreamClosed(j)
  BY <1>7 DEF StreamClosed
<1> QED BY <1>1, <1>2, <1>3, <1>4, <1>5, <1>6, <1>7

THEOREM JobInvAlways == Spec => []JobInv
<1>1. JobInv /\ [Next]_vars => JobInv'
  <2> SUFFICES ASSUME JobInv, [Next]_vars PROVE JobInv'
    OBVIOUS
  <2>1. ASSUME NEW j \in Jobs, NEW k \in Kinds, Refuse(j, k) \/ Start(j, k) \/ OpenStream(j, k)
        PROVE  JobInv'
    BY <2>1, BindingStep
  <2>2. ASSUME NEW j \in Jobs, Cancel(j) \/ Timeout(j) \/ Progress(j) \/ Outside(j)
        PROVE  JobInv'
    BY <2>2, CallStep, QueryStep, SearchStep, ToolStep, StreamStep
       DEF Progress, Outside, Binding, Searching, SearchSQLNamespaces, SearchDocumentNamespaces
  <2>3. CASE UNCHANGED vars
    BY <2>3 DEF vars, ctxVars, workVars, peerVars, uiVars, JobInv, TypeOK, CallInv, ReaderInv,
       EventInv, RegistryInv, SessionInv, CutInv
  <2> QED BY <2>1, <2>2, <2>3 DEF Next
<1> QED BY InitJobInv, <1>1, PTL DEF Spec

\* Whatever jobs run and whenever their views cancel them: one terminal event and
\* none after it, nothing left behind, no cancel lost, no cut search called done.
THEOREM JobsEndCleanlyAlways == Spec => []JobsEndCleanly
<1>1. JobInv => JobsEndCleanly
  BY JobsAssumption DEF JobInv, TypeOK, CallInv, ReaderInv, EventInv, RegistryInv, SessionInv, CutInv,
     JobsEndCleanly, EndsOnce, NothingLeft, MissedOnlyFinished, CutIsReported
<1> QED BY JobInvAlways, <1>1, PTL

-----------------------------------------------------------------------------
\* WebhookListener.

\* The steps of a binding that holds the mutex.
Holding == {"answer", "stop", "drain", "listen", "token", "assign"}
RequestSteps == {"none", "headers", "refused", "body", "forward", "answer", "answered"}

ListenerTypeOK ==
    /\ webhookM \in Calls \cup {NoCall}
    /\ started \in Nat /\ webhookL \in 0..started
    /\ binding \in [Calls -> [kind : Hook!CallKinds, at : {"lock", "returned"} \cup Holding]]
    /\ ports \subseteq 1..started /\ serving \subseteq 1..started
    /\ shut \subseteq 1..started /\ drained \subseteq 1..started
    /\ request \in [Requests -> [at : RequestSteps, server : Nat, token : Nat]]

\* The mutex, and what its holder knows at each of its steps.
HolderInv == \A c \in Calls :
    /\ binding[c].at \in Holding => webhookM = c
    /\ binding[c].at \in {"stop", "drain"} => webhookL # 0
    /\ binding[c].at = "drain" => webhookL \in shut
    /\ binding[c].at \in {"listen", "token", "assign"} => webhookL = 0
    /\ binding[c].at \in {"token", "assign"} => started >= 1 /\ started \notin drained
    /\ binding[c].at = "token" => started \notin serving

\* The ports: one at most, a server that was shut down while it served has none.
PortsInv ==
    /\ \A s, t \in ports : s = t
    /\ \A s \in shut \cap ports : s \notin serving
    /\ webhookL \notin drained
    /\ Hook!PortsAreOwned

\* A request in its handler is at the running server, or at one that is about to be
\* running; only the token of the running one lets it pass.
RequestsInv == \A r \in Requests :
    /\ Hook!InHandler(r) =>
          /\ request[r].server >= 1
          /\ request[r].server = webhookL \/ Hook!Making(request[r].server, {"assign"})
          /\ request[r].token = request[r].server => request[r].server = webhookL
    /\ request[r].at \in {"body", "forward", "answer"} => request[r].token = request[r].server

ListenerInv == ListenerTypeOK /\ HolderInv /\ PortsInv /\ RequestsInv

\* A step of one binding leaves the others where they are.
LEMMA BindingGoes ==
    ASSUME ListenerTypeOK, NEW c \in Calls, NEW l \in {"lock", "returned"} \cup Holding, Hook!Goto(c, l)
    PROVE  /\ binding' \in [Calls -> [kind : Hook!CallKinds, at : {"lock", "returned"} \cup Holding]]
           /\ binding'[c].at = l
           /\ \A d \in Calls \ {c} : binding'[d] = binding[d]
  BY DEF ListenerTypeOK, Hook!Goto

LEMMA ListenerTypeStep == ListenerTypeOK /\ HolderInv /\ [Hook!ListenerNext]_hookVars => ListenerTypeOK'
<1> SUFFICES ASSUME ListenerTypeOK, HolderInv, [Hook!ListenerNext]_hookVars PROVE ListenerTypeOK'
  OBVIOUS
<1>1. ASSUME NEW c \in Calls, Hook!CallStep(c) PROVE ListenerTypeOK'
  <2>1. CASE Hook!Lock(c)
    <3>1. PICK l \in Holding : Hook!Goto(c, l)
      BY <2>1 DEF Hook!Lock, Holding
    <3> QED BY <2>1, <3>1, BindingGoes DEF Hook!Lock, ListenerTypeOK, Hook!server
  <2>2. CASE Hook!Answer(c) \/ Hook!ListenFails(c)
    BY <2>2, BindingGoes DEF Hook!Answer, Hook!ListenFails, Hook!Unlock, ListenerTypeOK, Hook!server
  <2>3. CASE Hook!Stop(c)
    <3>1. webhookL \in 1..started
      BY <2>3 DEF Hook!Stop, ListenerTypeOK, HolderInv, Hook!At
    <3> QED BY <2>3, <3>1, BindingGoes DEF Hook!Stop, ListenerTypeOK, Holding
  <2>4. CASE Hook!Drained(c)
    <3>1. PICK l \in {"listen", "returned"} : Hook!Goto(c, l)
      BY <2>4 DEF Hook!Drained, Hook!Unlock
    <3>2. webhookL \in 1..started
      BY <2>4 DEF Hook!Drained, ListenerTypeOK, HolderInv, Hook!At
    <3> QED BY <2>4, <3>1, <3>2, BindingGoes DEF Hook!Drained, Hook!Unlock, ListenerTypeOK, Holding
  <2>5. CASE Hook!Listen(c)
    <3>1. PICK l \in {"token", "returned"} : Hook!Goto(c, l)
      BY <2>5 DEF Hook!Listen, Hook!Unlock
    <3>2. /\ started' \in Nat /\ 1..started \subseteq 1..started' /\ 0..started \subseteq 0..started'
          /\ ports' \subseteq 1..started'
      <4>1. CASE UNCHANGED <<started, ports>>
        BY <4>1 DEF ListenerTypeOK
      <4>2. CASE started' = started + 1 /\ ports' = {started'}
        BY <4>2 DEF ListenerTypeOK
      <4> QED BY <2>5, <4>1, <4>2 DEF Hook!Listen
    <3>3. UNCHANGED <<webhookL, serving, shut, drained, request>> /\ webhookM' \in {webhookM, NoCall}
      BY <2>5 DEF Hook!Listen, Hook!Unlock
    <3> QED BY <3>1, <3>2, <3>3, BindingGoes DEF ListenerTypeOK, Holding
  <2>6. CASE Hook!TokenFails(c)
    BY <2>6, BindingGoes DEF Hook!TokenFails, Hook!Unlock, ListenerTypeOK
  <2>7. CASE Hook!MakeToken(c)
    BY <2>7, BindingGoes DEF Hook!MakeToken, ListenerTypeOK, Holding, Hook!server
  <2>8. CASE Hook!Assign(c)
    BY <2>8, BindingGoes DEF Hook!Assign, Hook!Unlock, ListenerTypeOK, Hook!server
  <2> QED BY <1>1, <2>1, <2>2, <2>3, <2>4, <2>5, <2>6, <2>7, <2>8 DEF Hook!CallStep
<1>2. ASSUME NEW s \in Hook!Servers, Hook!Serve(s) PROVE ListenerTypeOK'
  BY <1>2 DEF Hook!Serve, ListenerTypeOK
<1>3. ASSUME NEW r \in Requests, Hook!Arrive(r) \/ Hook!RequestStep(r) PROVE ListenerTypeOK'
  <2>1. UNCHANGED <<webhookM, webhookL, binding, Hook!server>>
    BY <1>3 DEF Hook!Arrive, Hook!RequestStep, Hook!CheckToken, Hook!BodyEnds, Hook!Forward,
       Hook!Respond
  <2>2. request' \in [Requests -> [at : RequestSteps, server : Nat, token : Nat]]
    <3>1. CASE Hook!Arrive(r)
      BY <3>1 DEF Hook!Arrive, ListenerTypeOK, RequestSteps
    <3>2. CASE Hook!RequestStep(r)
      BY <3>2 DEF Hook!RequestStep, Hook!CheckToken, Hook!BodyEnds, Hook!Forward, Hook!Respond,
         Hook!Now, ListenerTypeOK, RequestSteps
    <3> QED BY <1>3, <3>1, <3>2
  <2> QED BY <2>1, <2>2 DEF ListenerTypeOK, Hook!server
<1>4. CASE UNCHANGED hookVars
  BY <1>4 DEF hookVars, ListenerTypeOK
<1> QED BY <1>1, <1>2, <1>3, <1>4 DEF Hook!ListenerNext

\* A call of a binding that has no server to make takes it from holder to holder.
LEMMA CallStepInv ==
    ASSUME ListenerInv, NEW c \in Calls, Hook!CallStep(c), ListenerTypeOK'
    PROVE  HolderInv' /\ PortsInv' /\ RequestsInv'
<1> USE DEF ListenerInv, Hook!At
<1>0. /\ \A d \in Calls : binding[d].at \in Holding => webhookM = d
      /\ NoCall \notin Calls
  BY ListenerAssumption DEF HolderInv
<1>1. CASE Hook!Lock(c)
  <2>1. PICK l \in Holding : /\ Hook!Goto(c, l)
                             /\ l \in {"answer", "stop", "listen"}
                             /\ l = "stop" => webhookL # 0
                             /\ l = "listen" => webhookL = 0
    BY <1>1 DEF Hook!Lock, Holding
  <2>2. \A d \in Calls : binding[d].at \notin Holding
    BY <1>0, <1>1 DEF Hook!Lock
  <2>3. UNCHANGED <<webhookL, Hook!server, request>> /\ webhookM' = c
    BY <1>1 DEF Hook!Lock
  <2>4. HolderInv'
    BY <2>1, <2>2, <2>3, BindingGoes DEF HolderInv, Holding
  <2>5. PortsInv'
    BY <2>1, <2>2, <2>3, BindingGoes DEF PortsInv, Hook!PortsAreOwned, Hook!Making, Holding, Hook!server
  <2>6. RequestsInv'
    BY <2>1, <2>2, <2>3, BindingGoes DEF RequestsInv, Hook!InHandler, Hook!Making, Holding, Hook!server
  <2> QED BY <2>4, <2>5, <2>6
<1>2. CASE Hook!Answer(c) \/ Hook!ListenFails(c)
  <2>1. Hook!Goto(c, "returned") /\ binding[c].at \in {"answer", "listen"}
    BY <1>2 DEF Hook!Answer, Hook!ListenFails, Hook!Unlock
  <2>2. \A d \in Calls \ {c} : binding[d].at \notin Holding
    BY <1>0, <2>1 DEF Holding
  <2>3. UNCHANGED <<webhookL, Hook!server, request>> /\ webhookM' = NoCall
    BY <1>2 DEF Hook!Answer, Hook!ListenFails, Hook!Unlock
  <2>4. HolderInv'
    BY <2>1, <2>2, <2>3, BindingGoes DEF HolderInv, Holding
  <2>5. PortsInv'
    BY <2>1, <2>2, <2>3, BindingGoes DEF PortsInv, Hook!PortsAreOwned, Hook!Making, Holding, Hook!server
  <2>6. RequestsInv'
    BY <2>1, <2>2, <2>3, BindingGoes DEF RequestsInv, Hook!InHandler, Hook!Making, Holding, Hook!server
  <2> QED BY <2>4, <2>5, <2>6
<1>3. CASE Hook!Stop(c)
  <2>1. /\ Hook!Goto(c, "drain") /\ binding[c].at = "stop"
        /\ shut' = shut \cup {webhookL} /\ ports' = ports \ (serving \cap {webhookL})
        /\ UNCHANGED <<webhookM, webhookL, started, serving, drained, request>>
    BY <1>3 DEF Hook!Stop
  <2>2. \A d \in Calls \ {c} : binding[d].at \notin Holding
    BY <1>0, <2>1 DEF Holding
  <2>4. HolderInv'
    BY <2>1, <2>2, BindingGoes DEF HolderInv, Holding
  <2>5. PortsInv'
    BY <2>1, <2>2, BindingGoes DEF PortsInv, Hook!PortsAreOwned, Hook!Making, Holding
  <2>6. RequestsInv'
    BY <2>1, <2>2, BindingGoes DEF RequestsInv, Hook!InHandler, Hook!Making, Holding
  <2> QED BY <2>4, <2>5, <2>6
<1>4. CASE Hook!Drained(c)
  <2>1. /\ binding[c].at = "drain" /\ webhookL' = 0 /\ drained' = drained \cup {webhookL}
        /\ \A r \in Requests : ~(request[r].server = webhookL /\ Hook!InHandler(r))
        /\ UNCHANGED <<started, ports, serving, shut, request>>
        /\ webhookL \in shut /\ webhookL # 0
    BY <1>4 DEF Hook!Drained, HolderInv
  <2>2. \A d \in Calls \ {c} : binding[d].at \notin Holding
    BY <1>0, <2>1 DEF Holding
  <2>3. PICK l \in {"listen", "returned"} :
           Hook!Goto(c, l) /\ webhookM' = IF l = "listen" THEN webhookM ELSE NoCall
    BY <1>4 DEF Hook!Drained, Hook!Unlock
  <2>4. HolderInv'
    BY <2>1, <2>2, <2>3, BindingGoes DEF HolderInv, Holding
  <2>5. PortsInv'
    BY <2>1, <2>2, <2>3, BindingGoes DEF PortsInv, Hook!PortsAreOwned, Hook!Making, Holding,
       ListenerTypeOK
  <2>6. RequestsInv'
    BY <2>1, <2>2, <2>3, BindingGoes DEF RequestsInv, Hook!InHandler, Hook!Making, Holding
  <2> QED BY <2>4, <2>5, <2>6
<1>5. CASE Hook!Listen(c)
  <2>1. /\ binding[c].at = "listen" /\ webhookL = 0
        /\ UNCHANGED <<webhookL, serving, shut, drained, request>>
    BY <1>5 DEF Hook!Listen, HolderInv
  <2>2. \A d \in Calls \ {c} : binding[d].at \notin Holding
    BY <1>0, <2>1 DEF Holding
  <2>3. CASE Hook!Goto(c, "token") /\ webhookM' = webhookM /\ started' = started + 1 /\ ports' = {started'}
    <3>1. started' \notin serving \cup shut \cup drained /\ started' >= 1
      BY <2>3 DEF ListenerTypeOK
    <3>2. binding'[c].at = "token" /\ \A d \in Calls \ {c} : binding'[d] = binding[d]
      BY <2>3, BindingGoes DEF Holding
    <3>3. \A r \in Requests : Hook!InHandler(r) => FALSE
      BY <2>1, <2>2 DEF RequestsInv, Hook!Making, Holding
    <3>4. HolderInv'
      BY <2>1, <2>2, <2>3, <3>1, <3>2 DEF HolderInv, Holding
    <3>5. PortsInv'
      BY <2>1, <2>3, <3>1, <3>2 DEF PortsInv, Hook!PortsAreOwned, Hook!Making
    <3>6. RequestsInv'
      BY <2>1, <3>3 DEF RequestsInv, Hook!InHandler
    <3> QED BY <3>4, <3>5, <3>6
  <2>4. CASE Hook!Unlock(c) /\ UNCHANGED <<started, ports>>
    <3>1. HolderInv'
      BY <2>1, <2>2, <2>4, BindingGoes DEF HolderInv, Holding, Hook!Unlock
    <3>2. PortsInv'
      BY <2>1, <2>2, <2>4, BindingGoes DEF PortsInv, Hook!PortsAreOwned, Hook!Making, Holding,
         Hook!Unlock
    <3>3. RequestsInv'
      BY <2>1, <2>2, <2>4, BindingGoes DEF RequestsInv, Hook!InHandler, Hook!Making, Holding,
         Hook!Unlock
    <3> QED BY <3>1, <3>2, <3>3
  <2> QED BY <1>5, <2>3, <2>4 DEF Hook!Listen
<1>6. CASE Hook!TokenFails(c)
  <2>1. /\ binding[c].at = "token" /\ ports' = ports \ {started} /\ Hook!Goto(c, "returned")
        /\ webhookM' = NoCall
        /\ UNCHANGED <<webhookL, started, serving, shut, drained, request>>
    BY <1>6 DEF Hook!TokenFails, Hook!Unlock
  <2>2. \A d \in Calls \ {c} : binding[d].at \notin Holding
    BY <1>0, <2>1 DEF Holding
  <2>4. HolderInv'
    BY <2>1, <2>2, BindingGoes DEF HolderInv, Holding
  <2>5. PortsInv'
    BY <2>1, <2>2, BindingGoes DEF PortsInv, Hook!PortsAreOwned, Hook!Making, Holding
  <2>6. RequestsInv'
    BY <2>1, <2>2, BindingGoes DEF RequestsInv, Hook!InHandler, Hook!Making, Holding
  <2> QED BY <2>4, <2>5, <2>6
<1>7. CASE Hook!MakeToken(c)
  <2>1. /\ binding[c].at = "token" /\ Hook!Goto(c, "assign")
        /\ UNCHANGED <<webhookM, webhookL, Hook!server, request>>
    BY <1>7 DEF Hook!MakeToken
  <2>2. \A d \in Calls \ {c} : binding[d].at \notin Holding
    BY <1>0, <2>1 DEF Holding
  <2>4. HolderInv'
    BY <2>1, <2>2, BindingGoes DEF HolderInv, Holding, Hook!server
  <2>5. PortsInv'
    BY <2>1, <2>2, BindingGoes DEF PortsInv, Hook!PortsAreOwned, Hook!Making, Holding, Hook!server
  <2>6. RequestsInv'
    BY <2>1, <2>2, BindingGoes DEF RequestsInv, Hook!InHandler, Hook!Making, Holding, Hook!server
  <2> QED BY <2>4, <2>5, <2>6
<1>8. CASE Hook!Assign(c)
  <2>1. /\ binding[c].at = "assign" /\ Hook!Goto(c, "returned") /\ webhookL = 0 /\ webhookL' = started
        /\ webhookM' = NoCall /\ started \notin drained /\ started # 0
        /\ UNCHANGED <<Hook!server, request>>
    BY <1>8 DEF Hook!Assign, Hook!Unlock, HolderInv, ListenerTypeOK
  <2>2. \A d \in Calls \ {c} : binding[d].at \notin Holding
    BY <1>0, <2>1 DEF Holding
  <2>4. HolderInv'
    BY <2>1, <2>2, BindingGoes DEF HolderInv, Holding, Hook!server
  <2>5. PortsInv'
    BY <2>1, <2>2, BindingGoes DEF PortsInv, Hook!PortsAreOwned, Hook!Making, Holding,
       Hook!server, ListenerTypeOK
  <2>6. RequestsInv'
    BY <2>1, <2>2, BindingGoes DEF RequestsInv, Hook!InHandler, Hook!Making, Holding, Hook!server
  <2> QED BY <2>4, <2>5, <2>6
<1> QED BY <1>1, <1>2, <1>3, <1>4, <1>5, <1>6, <1>7, <1>8 DEF Hook!CallStep

LEMMA ListenerInvInductive == ListenerInv /\ [Hook!ListenerNext]_hookVars => ListenerInv'
<1> SUFFICES ASSUME ListenerInv, [Hook!ListenerNext]_hookVars PROVE ListenerInv'
  OBVIOUS
<1>0. ListenerTypeOK'
  BY ListenerTypeStep DEF ListenerInv
<1>1. ASSUME NEW c \in Calls, Hook!CallStep(c) PROVE ListenerInv'
  BY <1>0, <1>1, CallStepInv DEF ListenerInv
<1>2. ASSUME NEW s \in Hook!Servers, Hook!Serve(s) PROVE ListenerInv'
  <2>1. /\ s \in ports \ serving /\ ~Hook!Making(s, {"token"})
        /\ UNCHANGED <<webhookM, webhookL, binding, started, shut, drained, request>>
    BY <1>2 DEF Hook!Serve
  <2>2. CASE s \in shut /\ ports' = ports \ {s} /\ UNCHANGED serving
    <3>1. HolderInv'
      BY <2>1, <2>2 DEF ListenerInv, HolderInv
    <3>2. PortsInv'
      BY <2>1, <2>2 DEF ListenerInv, PortsInv, Hook!PortsAreOwned, Hook!Making
    <3>3. RequestsInv'
      BY <2>1 DEF ListenerInv, RequestsInv, Hook!InHandler, Hook!Making
    <3> QED BY <1>0, <3>1, <3>2, <3>3 DEF ListenerInv
  <2>3. CASE s \notin shut /\ serving' = serving \cup {s} /\ UNCHANGED ports
    <3>1. HolderInv'
      BY <2>1, <2>3 DEF ListenerInv, HolderInv, Hook!Making
    <3>2. PortsInv'
      BY <2>1, <2>3 DEF ListenerInv, PortsInv, Hook!PortsAreOwned, Hook!Making
    <3>3. RequestsInv'
      BY <2>1 DEF ListenerInv, RequestsInv, Hook!InHandler, Hook!Making
    <3> QED BY <1>0, <3>1, <3>2, <3>3 DEF ListenerInv
  <2> QED BY <1>2, <2>2, <2>3 DEF Hook!Serve
<1>3. ASSUME NEW r \in Requests, Hook!Arrive(r) \/ Hook!RequestStep(r) PROVE ListenerInv'
  <2>1. UNCHANGED <<webhookM, webhookL, binding, Hook!server>>
    BY <1>3 DEF Hook!Arrive, Hook!RequestStep, Hook!CheckToken, Hook!BodyEnds, Hook!Forward,
       Hook!Respond
  <2>2. HolderInv' /\ PortsInv'
    BY <2>1 DEF ListenerInv, HolderInv, PortsInv, Hook!PortsAreOwned, Hook!Making, Hook!server
  <2>3. RequestsInv'
    <3>1. CASE Hook!Arrive(r)
      <4>1. PICK s \in ports \cap serving, t \in 1..started :
               /\ ~Hook!Making(t, {"token", "assign"})
               /\ request' = [request EXCEPT ![r] = [at |-> "headers", server |-> s, token |-> t]]
        BY <3>1 DEF Hook!Arrive
      <4>2. s >= 1 /\ s \notin shut /\ ~Hook!Making(s, {"token"})
        BY DEF ListenerInv, ListenerTypeOK, PortsInv, HolderInv, Hook!Making
      <4>3. s = webhookL \/ Hook!Making(s, {"assign"})
        BY <4>2 DEF ListenerInv, PortsInv, Hook!PortsAreOwned, Hook!Making
      <4>4. t = s => s = webhookL
        BY <4>1, <4>3 DEF Hook!Making
      <4>5. /\ request'[r] = [at |-> "headers", server |-> s, token |-> t]
            /\ \A q \in Requests \ {r} : request'[q] = request[q]
        BY <4>1 DEF ListenerInv, ListenerTypeOK
      <4> QED BY <2>1, <4>2, <4>3, <4>4, <4>5 DEF ListenerInv, RequestsInv, Hook!InHandler,
         Hook!Making, Hook!server
    <3>2. CASE Hook!RequestStep(r)
      <4>1. /\ request'[r].server = request[r].server /\ request'[r].token = request[r].token
            /\ Hook!InHandler(r)
            /\ request'[r].at \in {"body", "forward", "answer"} => request[r].token = request[r].server
        BY <3>2 DEF Hook!RequestStep, Hook!CheckToken, Hook!BodyEnds, Hook!Forward,
           Hook!Respond, Hook!Now, ListenerInv, ListenerTypeOK,
           RequestSteps, RequestsInv, Hook!InHandler
      <4>2. \A q \in Requests \ {r} : request'[q] = request[q]
        BY <3>2 DEF Hook!RequestStep, Hook!CheckToken, Hook!BodyEnds, Hook!Forward,
           Hook!Respond, Hook!Now, ListenerInv, ListenerTypeOK
      <4> QED BY <2>1, <4>1, <4>2 DEF ListenerInv, RequestsInv, Hook!InHandler, Hook!Making, Hook!server
    <3> QED BY <1>3, <3>1, <3>2
  <2> QED BY <1>0, <2>2, <2>3 DEF ListenerInv
<1>4. CASE UNCHANGED hookVars
  <2>1. HolderInv' /\ PortsInv'
    BY <1>4 DEF hookVars, ListenerInv, HolderInv, PortsInv, Hook!PortsAreOwned, Hook!Making
  <2>2. RequestsInv'
    BY <1>4 DEF hookVars, ListenerInv, RequestsInv, Hook!InHandler, Hook!Making
  <2> QED BY <1>0, <2>1, <2>2 DEF ListenerInv
<1> QED BY <1>1, <1>2, <1>3, <1>4 DEF Hook!ListenerNext

LEMMA ListenerInvInit == Hook!ListenerInit => ListenerInv
  BY ListenerAssumption DEF Hook!ListenerInit, ListenerInv, ListenerTypeOK, HolderInv, PortsInv,
     Hook!PortsAreOwned,
     RequestsInv, Hook!InHandler, Holding, RequestSteps, Hook!CallKinds

LEMMA ListenerInvIsEnough == ListenerInv => Hook!ListenerIsSound
<1> SUFFICES ASSUME ListenerInv PROVE Hook!ListenerIsSound
  OBVIOUS
<1>1. Hook!NothingAfterStop
  BY DEF ListenerInv, RequestsInv, PortsInv, Hook!InHandler, Hook!NothingAfterStop
<1>2. Hook!PortsAreOwned
  BY DEF ListenerInv, PortsInv
<1>3. \A s, t \in ports : s = t
  BY DEF ListenerInv, PortsInv
<1> QED BY <1>1, <1>2, <1>3 DEF Hook!ListenerIsSound
-----------------------------------------------------------------------------
\* TunneledSession.

\* Where an Open that failed, or Close, takes things back.
UndoSteps ==
    {"undo-pool", "undo-tunnel", "undo-name", "close-pool", "close-tunnel", "close-name"}
\* Where the pool may be open.
PoolSteps == {"ping", "tenant", "opened", "undo-pool", "close-pool"}

TunnelTypeOK ==
    /\ engine \in {"postgres", "mysql"}
    /\ opening \in [Sessions -> {"tcp", "handshake", "register", "failed", "closed"}
                                \cup PoolSteps \cup UndoSteps]
    /\ ssh \in [Sessions -> {"none", "raw", "up", "closed"}]
    /\ pool \in [Sessions -> {"none", "open", "closed"}]
    /\ dial \in [Sessions -> [Dials -> {"none", "dialing", "abandoned", "pooled", "orphan", "gone"}]]

\* A registered name stands for its own session, from the registration on until it
\* is taken back; Postgres registers none.
NamesInv ==
    /\ DOMAIN registry \subseteq Sessions
    /\ engine = "postgres" => DOMAIN registry = {}
    /\ \A s \in DOMAIN registry : registry[s] = s /\ opening[s] \in PoolSteps \cup UndoSteps
    /\ \A s \in Sessions : engine = "mysql" /\ opening[s] \in {"ping", "tenant", "opened"} =>
          s \in DOMAIN registry

\* What is open has somebody who will close it: the connection to the bastion until
\* the tunnel is closed, the pool until it is, and a dial is in an open pool or,
\* when it came too late, on an open tunnel.
OwnerInv == \A s \in Sessions :
    /\ opening[s] = "tcp" => ssh[s] = "none"
    /\ ssh[s] = "up" => opening[s] \in {"register", "undo-tunnel", "close-tunnel"} \cup PoolSteps
    /\ ssh[s] = "raw" => opening[s] = "handshake"
    /\ pool[s] = "open" => opening[s] \in PoolSteps
    /\ \A d \in Dials : /\ dial[s][d] = "pooled" => pool[s] = "open"
                        /\ dial[s][d] = "orphan" => ssh[s] = "up"

TunnelInv == TunnelTypeOK /\ NamesInv /\ OwnerInv

\* A dial goes through the session's own tunnel.
LEMMA ThroughOwn == ASSUME TunnelInv, NEW s \in Sessions PROVE Tunnels!Through(s) = s
  BY DEF TunnelInv, NamesInv, Tunnels!Through, Tunnels!NetName

LEMMA TunnelTypeStep == TunnelTypeOK /\ [Tunnels!TunnelNext]_tunnelVars => TunnelTypeOK'
<1> SUFFICES ASSUME TunnelTypeOK, [Tunnels!TunnelNext]_tunnelVars PROVE TunnelTypeOK'
  OBVIOUS
<1> USE DEF TunnelTypeOK, PoolSteps, UndoSteps, Tunnels!At, Tunnels!Goto
<1>1. ASSUME NEW s \in Sessions,
             Tunnels!ConnectTCP(s) \/ Tunnels!ConnectFails(s) \/ Tunnels!NewClientConn(s)
             \/ Tunnels!HandshakeFails(s)
             \/ Tunnels!Ping(s) \/ Tunnels!SetTenant(s) \/ Tunnels!OpenFails(s) \/ Tunnels!Close(s)
      PROVE  TunnelTypeOK'
  BY <1>1 DEF Tunnels!ConnectTCP, Tunnels!ConnectFails, Tunnels!NewClientConn,
     Tunnels!HandshakeFails, Tunnels!Ping, Tunnels!SetTenant, Tunnels!OpenFails, Tunnels!Close
<1>2. ASSUME NEW s \in Sessions, Tunnels!RegisterDialer(s) PROVE TunnelTypeOK'
  BY <1>2 DEF Tunnels!RegisterDialer
<1>4. ASSUME NEW s \in Sessions, Tunnels!ClosePool(s) PROVE TunnelTypeOK'
  BY <1>4 DEF Tunnels!ClosePool, Tunnels!Then
<1>5. ASSUME NEW s \in Sessions, Tunnels!CloseTunnel(s) PROVE TunnelTypeOK'
  BY <1>5 DEF Tunnels!CloseTunnel, Tunnels!Then
<1>6. ASSUME NEW s \in Sessions, Tunnels!DeregisterDialer(s) PROVE TunnelTypeOK'
  BY <1>6 DEF Tunnels!DeregisterDialer, Tunnels!Then
<1>7. ASSUME NEW s \in Sessions, NEW d \in Dials,
             Tunnels!DialContext(s, d) \/ Tunnels!DialSucceeds(s, d)
             \/ Tunnels!DialFails(s, d) \/ Tunnels!DialAbandoned(s, d)
             \/ Tunnels!DialTooLate(s, d)
      PROVE  TunnelTypeOK'
  <2>1. PICK v \in {"none", "dialing", "abandoned", "pooled", "orphan", "gone"} : Tunnels!SetDial(s, d, v)
    <3>1. CASE Tunnels!DialContext(s, d) BY <3>1 DEF Tunnels!DialContext
    <3>2. CASE Tunnels!DialSucceeds(s, d) BY <3>2 DEF Tunnels!DialSucceeds
    <3>3. CASE Tunnels!DialFails(s, d) BY <3>3 DEF Tunnels!DialFails
    <3>4. CASE Tunnels!DialAbandoned(s, d) BY <3>4 DEF Tunnels!DialAbandoned
    <3>5. CASE Tunnels!DialTooLate(s, d) BY <3>5 DEF Tunnels!DialTooLate
    <3> QED BY <1>7, <3>1, <3>2, <3>3, <3>4, <3>5
  <2>2. UNCHANGED <<engine, opening, ssh, pool, registry>>
    BY <1>7 DEF Tunnels!DialContext, Tunnels!DialSucceeds, Tunnels!DialFails,
       Tunnels!DialAbandoned, Tunnels!DialTooLate
  <2> QED BY <2>1, <2>2 DEF Tunnels!SetDial
<1>8. CASE UNCHANGED tunnelVars
  BY <1>8 DEF tunnelVars
<1> QED BY <1>1, <1>2, <1>4, <1>5, <1>6, <1>7, <1>8 DEF Tunnels!TunnelNext, Tunnels!Bounded

LEMMA TunnelInvStep == TunnelInv /\ [Tunnels!TunnelNext]_tunnelVars => NamesInv' /\ OwnerInv'
<1> SUFFICES ASSUME TunnelInv, [Tunnels!TunnelNext]_tunnelVars PROVE NamesInv' /\ OwnerInv'
  OBVIOUS
<1> USE DEF TunnelInv, TunnelTypeOK, NamesInv, OwnerInv, PoolSteps, UndoSteps, Tunnels!At, Tunnels!Goto
<1>1. ASSUME NEW s \in Sessions, Tunnels!ConnectTCP(s) PROVE NamesInv' /\ OwnerInv'
  BY <1>1 DEF Tunnels!ConnectTCP
<1>2. ASSUME NEW s \in Sessions, Tunnels!ConnectFails(s) PROVE NamesInv' /\ OwnerInv'
  BY <1>2 DEF Tunnels!ConnectFails
<1>3. ASSUME NEW s \in Sessions, Tunnels!NewClientConn(s) PROVE NamesInv' /\ OwnerInv'
  BY <1>3 DEF Tunnels!NewClientConn
<1>4. ASSUME NEW s \in Sessions, Tunnels!HandshakeFails(s) PROVE NamesInv' /\ OwnerInv'
  BY <1>4 DEF Tunnels!HandshakeFails
<1>5. ASSUME NEW s \in Sessions, Tunnels!RegisterDialer(s) PROVE NamesInv' /\ OwnerInv'
  <2>1. NamesInv'
    <3>1. CASE engine = "mysql"
      <4>1. DOMAIN registry' = DOMAIN registry \cup {s}
        BY <1>5, <3>1 DEF Tunnels!RegisterDialer, Tunnels!NetName
      <4>2. \A n \in DOMAIN registry' : registry'[n] = n
        BY <1>5, <3>1 DEF Tunnels!RegisterDialer, Tunnels!NetName
      <4>3. opening'[s] \in PoolSteps \cup UndoSteps /\ \A t \in Sessions \ {s} : opening'[t] = opening[t]
        BY <1>5 DEF Tunnels!RegisterDialer
      <4>4. engine' = engine
        BY <1>5 DEF Tunnels!RegisterDialer
      <4> QED BY <3>1, <4>1, <4>2, <4>3, <4>4
    <3>2. CASE engine = "postgres"
      BY <1>5, <3>2 DEF Tunnels!RegisterDialer
    <3> QED BY <3>1, <3>2
  <2>2. OwnerInv'
    BY <1>5 DEF Tunnels!RegisterDialer, Tunnels!NetName
  <2> QED BY <2>1, <2>2
<1>6. ASSUME NEW s \in Sessions, Tunnels!Ping(s) PROVE NamesInv' /\ OwnerInv'
  BY <1>6 DEF Tunnels!Ping
<1>7. ASSUME NEW s \in Sessions, Tunnels!SetTenant(s) \/ Tunnels!OpenFails(s) \/ Tunnels!Close(s)
      PROVE  NamesInv' /\ OwnerInv'
  <2>1. CASE Tunnels!SetTenant(s) BY <2>1 DEF Tunnels!SetTenant
  <2>2. CASE Tunnels!OpenFails(s) BY <2>2 DEF Tunnels!OpenFails
  <2>3. CASE Tunnels!Close(s) BY <2>3 DEF Tunnels!Close
  <2> QED BY <1>7, <2>1, <2>2, <2>3
<1>8. ASSUME NEW s \in Sessions, Tunnels!ClosePool(s) PROVE NamesInv' /\ OwnerInv'
  BY <1>8 DEF Tunnels!ClosePool, Tunnels!Then
<1>9. ASSUME NEW s \in Sessions, Tunnels!CloseTunnel(s) PROVE NamesInv' /\ OwnerInv'
  <2>1. NamesInv'
    BY <1>9 DEF Tunnels!CloseTunnel, Tunnels!Then
  <2>2. OwnerInv'
    <3>1. pool[s] # "open" /\ opening'[s] \in {"undo-name", "close-name"} /\ ssh'[s] = "closed"
      BY <1>9 DEF Tunnels!CloseTunnel, Tunnels!Then
    <3>2. \A d \in Dials : dial'[s][d] \notin {"pooled", "orphan"}
      BY <1>9 DEF Tunnels!CloseTunnel
    <3>3. \A t \in Sessions \ {s} : opening'[t] = opening[t] /\ ssh'[t] = ssh[t] /\ dial'[t] = dial[t]
      BY <1>9 DEF Tunnels!CloseTunnel
    <3> QED BY <1>9, <3>1, <3>2, <3>3 DEF Tunnels!CloseTunnel
  <2> QED BY <2>1, <2>2
<1>10. ASSUME NEW s \in Sessions, Tunnels!DeregisterDialer(s) PROVE NamesInv' /\ OwnerInv'
  BY <1>10 DEF Tunnels!DeregisterDialer, Tunnels!Then, Tunnels!NetName
<1>11. ASSUME NEW s \in Sessions, NEW d \in Dials,
              Tunnels!DialContext(s, d) \/ Tunnels!DialSucceeds(s, d)
              \/ Tunnels!DialFails(s, d) \/ Tunnels!DialAbandoned(s, d)
              \/ Tunnels!DialTooLate(s, d)
       PROVE  NamesInv' /\ OwnerInv'
  <2>1. UNCHANGED <<engine, opening, ssh, pool, registry>>
    BY <1>11 DEF Tunnels!DialContext, Tunnels!DialSucceeds, Tunnels!DialFails,
       Tunnels!DialAbandoned, Tunnels!DialTooLate
  <2>2. PICK v : /\ Tunnels!SetDial(s, d, v)
                 /\ v = "pooled" => pool[s] = "open"
                 /\ v = "orphan" => ssh[s] = "up"
    <3>1. CASE Tunnels!DialContext(s, d) BY <3>1 DEF Tunnels!DialContext
    <3>2. CASE Tunnels!DialSucceeds(s, d) BY <3>2 DEF Tunnels!DialSucceeds
    <3>3. CASE Tunnels!DialFails(s, d) BY <3>3 DEF Tunnels!DialFails
    <3>4. CASE Tunnels!DialAbandoned(s, d) BY <3>4 DEF Tunnels!DialAbandoned
    <3>5. CASE Tunnels!DialTooLate(s, d) BY <3>5, ThroughOwn DEF Tunnels!DialTooLate
    <3> QED BY <1>11, <3>1, <3>2, <3>3, <3>4, <3>5
  <2>3. \A t \in Sessions, e \in Dials :
           dial'[t][e] = IF t = s /\ e = d THEN v ELSE dial[t][e]
    BY <2>2 DEF Tunnels!SetDial
  <2> QED BY <2>1, <2>2, <2>3
<1>12. CASE UNCHANGED tunnelVars
  BY <1>12 DEF tunnelVars
<1> QED BY <1>1, <1>2, <1>3, <1>4, <1>5, <1>6, <1>7, <1>8, <1>9, <1>10, <1>11, <1>12
        DEF Tunnels!TunnelNext, Tunnels!Bounded

LEMMA TunnelInvInit == Tunnels!TunnelInit => TunnelInv
  BY DEF Tunnels!TunnelInit, TunnelInv, TunnelTypeOK, NamesInv, OwnerInv, PoolSteps, UndoSteps

LEMMA TunnelInvIsEnough == TunnelInv => Tunnels!TunnelsAreClosed
  BY DEF TunnelInv, TunnelTypeOK, NamesInv, OwnerInv, PoolSteps, UndoSteps, Tunnels!TunnelsAreClosed,
     Tunnels!NothingStaysOpen, Tunnels!TunnelsAreTheirOwn, Tunnels!NetName

LEMMA TunnelInvInductive == TunnelInv /\ [Tunnels!TunnelNext]_tunnelVars => TunnelInv'
  BY TunnelTypeStep, TunnelInvStep DEF TunnelInv

-----------------------------------------------------------------------------
\* Each service keeps its invariant beside the others.
LEMMA ServicesStep ==
    /\ AppInit => ListenerInv /\ TunnelInv
    /\ ListenerInv /\ TunnelInv /\ [AppNext]_appVars => ListenerInv' /\ TunnelInv'
<1>1. AppInit => ListenerInv /\ TunnelInv
  BY ListenerInvInit, TunnelInvInit DEF AppInit
<1>2. ASSUME ListenerInv, TunnelInv, [AppNext]_appVars PROVE ListenerInv' /\ TunnelInv'
  <2>1. [Hook!ListenerNext]_hookVars /\ [Tunnels!TunnelNext]_tunnelVars
    BY <1>2 DEF AppNext, appVars
  <2> QED BY <1>2, <2>1, ListenerInvInductive, TunnelInvInductive
<1> QED BY <1>1, <1>2

\* The view hears of nothing that arrived without the running listener's token, nor
\* after a stop or a restart was reported; every open port has an owner and there is
\* one at most, however bindings and requests interleave.
THEOREM ListenerIsSoundAlways == AppSpec => []ListenerIsSound
<1>1. ListenerInv => ListenerIsSound
  BY ListenerInvIsEnough DEF ListenerIsSound
<1> QED BY ServicesStep, <1>1, PTL DEF AppSpec

\* Where Open has failed, at whichever step, or the session has been closed, nothing
\* of its tunnel, pool, dials and registered name is left; a MySQL session's name
\* stands for its own tunnel as long as it lives.
THEOREM TunnelsAreClosedAlways == AppSpec => []TunnelsAreClosed
<1>1. TunnelInv => TunnelsAreClosed
  BY TunnelInvIsEnough DEF TunnelsAreClosed
<1> QED BY ServicesStep, <1>1, PTL DEF AppSpec

-----------------------------------------------------------------------------
\* SessionManager: the sessions the bindings share, for any number of callers,
\* profiles and sessions.

\* What a caller has in its hands beyond the types of the variables.
HandsInv == \A c \in Callers :
               /\ at[c] \in {"insert", "using", "released"} => sess[c] \in Opened
               /\ at[c] # "idle" => want[c] \in Profiles

\* The cache holds open sessions, each for one profile.
CacheInv ==
    /\ \A p \in Profiles : cached[p] # None =>
          cached[p] \in Opened /\ closes[cached[p]] = 0 /\ cached[p] \notin doomed
    /\ \A p, q \in Profiles : cached[p] # None /\ cached[p] = cached[q] => p = q

\* A session that is about to go into the cache is known to its caller only.
FreshInv ==
    \A c \in Callers : at[c] = "insert" =>
        /\ closes[sess[c]] = 0
        /\ sess[c] \notin doomed
        /\ refs[sess[c]] = 0
        /\ \A p \in Profiles : cached[p] # sess[c]
        /\ \A d \in Callers \ {c} : at[d] \in {"insert", "using"} => sess[d] # sess[c]

\* An invalidated session waits for its last holder or is closing.
DoomedInv == \A s \in doomed : s \in Opened /\ (refs[s] > 0 \/ closes[s] = 1)

CloseInv == ClosedOnce /\ \A s \in EngineSessions : closes[s] > 0 => s \in Opened

LifeInv == /\ ManagerTypeOK
           /\ HandsInv
           /\ RefsCountHolders
           /\ CacheInv
           /\ FreshInv
           /\ NoUseAfterClose
           /\ OneLiveSession
           /\ DoomedInv
           /\ CloseInv
           /\ NothingLeaks

LEMMA OpenedSessions == ManagerTypeOK => Opened \subseteq EngineSessions
  BY ManagerAssumption DEF ManagerTypeOK, Opened, EngineSessions

-----------------------------------------------------------------------------
(* Counting holders *)

LEMMA HoldersFinite ==
  ASSUME NEW s PROVE IsFiniteSet(Holders(s)) /\ Cardinality(Holders(s)) \in Nat
  <1>1. Holders(s) \subseteq Callers
    BY DEF Holders
  <1> QED BY <1>1, ManagerAssumption, FS_Subset, FS_CardinalityType

\* A session has a positive count exactly when somebody holds it.
RefsMeanHolders ==
    \A s \in EngineSessions :
        refs[s] > 0 <=> \E c \in Callers : at[c] = "using" /\ sess[c] = s

LEMMA CountedIsHeld == ManagerTypeOK /\ RefsCountHolders => RefsMeanHolders
<1> SUFFICES ASSUME ManagerTypeOK, RefsCountHolders, NEW s \in EngineSessions
             PROVE  refs[s] > 0 <=> \E c \in Callers : at[c] = "using" /\ sess[c] = s
  BY DEF RefsMeanHolders
<1>1. refs[s] = Cardinality(Holders(s)) /\ refs[s] \in Nat
  BY DEF RefsCountHolders, ManagerTypeOK
<1>2. refs[s] = 0 <=> Holders(s) = {}
  BY <1>1, HoldersFinite, FS_EmptySet
<1> QED BY <1>1, <1>2 DEF Holders

\* A caller that is handed session s is one more holder of s, and of s only.
LEMMA HoldersGain ==
  ASSUME ManagerTypeOK, NEW c \in Callers, NEW s \in EngineSessions, NEW t \in EngineSessions,
         at[c] # "using",
         at' = [at EXCEPT ![c] = "using"], sess' = [sess EXCEPT ![c] = s]
  PROVE  Cardinality(Holders(t)') =
            IF t = s THEN Cardinality(Holders(t)) + 1 ELSE Cardinality(Holders(t))
  <1>1. CASE t = s
    <2>1. Holders(t)' = Holders(t) \cup {c} /\ c \notin Holders(t)
      BY <1>1 DEF Holders, ManagerTypeOK
    <2> QED BY <1>1, <2>1, HoldersFinite, FS_AddElement
  <1>2. CASE t # s
    <2>1. Holders(t)' = Holders(t)
      BY <1>2 DEF Holders, ManagerTypeOK
    <2> QED BY <1>2, <2>1
  <1> QED BY <1>1, <1>2

\* A caller that releases its session is one holder less of that one only.
LEMMA HoldersLose ==
  ASSUME ManagerTypeOK, NEW c \in Callers, NEW t \in EngineSessions, at[c] = "using",
         at' = [at EXCEPT ![c] = "released"], sess' = sess
  PROVE  Cardinality(Holders(t)') =
            IF t = sess[c] THEN Cardinality(Holders(t)) - 1
                           ELSE Cardinality(Holders(t))
  <1>1. CASE t = sess[c]
    <2>1. Holders(t)' = Holders(t) \ {c} /\ c \in Holders(t)
      BY <1>1 DEF Holders, ManagerTypeOK
    <2>2. Cardinality(Holders(t) \ {c}) = Cardinality(Holders(t)) - 1
      BY <2>1, HoldersFinite, FS_RemoveElement
    <2> QED BY <1>1, <2>1, <2>2
  <1>2. CASE t # sess[c]
    <2>1. Holders(t)' = Holders(t)
      BY <1>2 DEF Holders, ManagerTypeOK
    <2> QED BY <1>2, <2>1
  <1> QED BY <1>1, <1>2

LEMMA RefsStep == LifeInv /\ [ManagerNext]_managerVars => RefsCountHolders'
<1> SUFFICES ASSUME LifeInv, [ManagerNext]_managerVars PROVE RefsCountHolders'
  OBVIOUS
<1> USE DEF LifeInv, HandsInv, Goto, Opened
<1>0. Opened \subseteq EngineSessions /\ ManagerTypeOK /\ \A s \in EngineSessions : refs[s] \in Nat
  <2>1. \A s \in EngineSessions : refs[s] \in Nat
    BY DEF ManagerTypeOK
  <2> QED BY <2>1, OpenedSessions
<1>1. ASSUME NEW c \in Callers, AcquireCached(c) PROVE RefsCountHolders'
  <2>1. PICK p \in Profiles : /\ Usable(p)
                              /\ sess' = [sess EXCEPT ![c] = cached[p]]
                              /\ refs' = [refs EXCEPT ![cached[p]] = @ + 1]
    BY <1>1 DEF AcquireCached
  <2>2. cached[p] \in EngineSessions
    BY <2>1 DEF Usable, ManagerTypeOK
  <2>3. at[c] # "using" /\ at' = [at EXCEPT ![c] = "using"]
    BY <1>1 DEF AcquireCached
  <2>4. \A t \in EngineSessions : Cardinality(Holders(t)') =
            IF t = cached[p] THEN Cardinality(Holders(t)) + 1
                             ELSE Cardinality(Holders(t))
    BY <1>0, <2>1, <2>2, <2>3, HoldersGain
  <2> QED BY <1>0, <2>1, <2>2, <2>4 DEF RefsCountHolders, ManagerTypeOK
<1>2. ASSUME NEW c \in Callers, InsertTheirs(c) PROVE RefsCountHolders'
  <2>1. cached[want[c]] \in EngineSessions
    BY <1>2 DEF InsertTheirs, Usable, ManagerTypeOK
  <2> QED BY <1>0, <1>2, <2>1, HoldersGain DEF InsertTheirs, RefsCountHolders, ManagerTypeOK
<1>3. ASSUME NEW c \in Callers, InsertMine(c) PROVE RefsCountHolders'
  <2>1. sess[c] \in EngineSessions /\ refs[sess[c]] = 0
    BY <1>0, <1>3 DEF InsertMine, FreshInv
  <2>2. sess' = [sess EXCEPT ![c] = sess[c]]
    BY <1>3 DEF InsertMine, ManagerTypeOK
  <2>3. at[c] # "using" /\ at' = [at EXCEPT ![c] = "using"]
    BY <1>3 DEF InsertMine
  <2>4. \A t \in EngineSessions : Cardinality(Holders(t)') =
            IF t = sess[c] THEN Cardinality(Holders(t)) + 1
                           ELSE Cardinality(Holders(t))
    BY <1>0, <2>1, <2>2, <2>3, HoldersGain
  <2>5. refs' = [refs EXCEPT ![sess[c]] = 1]
    BY <1>3 DEF InsertMine
  <2> QED BY <1>0, <2>1, <2>4, <2>5 DEF RefsCountHolders, ManagerTypeOK
<1>4. ASSUME NEW c \in Callers, Release(c) PROVE RefsCountHolders'
  BY <1>0, <1>4, HoldersLose DEF Release, RefsCountHolders, ManagerTypeOK
<1>5. ASSUME UNCHANGED refs, \A s \in EngineSessions : Holders(s)' = Holders(s)
      PROVE  RefsCountHolders'
  BY <1>5 DEF RefsCountHolders
<1>6. ASSUME NEW c \in Callers, AcquireMiss(c) \/ Resolve(c) PROVE RefsCountHolders'
  BY <1>5, <1>6 DEF AcquireMiss, Resolve, Holders, cacheVars, ManagerTypeOK
<1>7. ASSUME NEW c \in Callers, Open(c) PROVE RefsCountHolders'
  BY <1>5, <1>7 DEF Open, Holders, cacheVars, ManagerTypeOK
<1>8. ASSUME NEW c \in Callers, AcquireFails(c) \/ InsertClosed(c) \/ Forget(c)
      PROVE  RefsCountHolders'
  BY <1>5, <1>8 DEF AcquireFails, InsertClosed, Forget, Leave, Holders, cacheVars, ManagerTypeOK
<1>9. ASSUME UNCHANGED refs, UNCHANGED callerVars PROVE RefsCountHolders'
  BY <1>5, <1>9 DEF Holders, callerVars
<1>10. ASSUME NEW c \in Callers, PingFails(c) PROVE RefsCountHolders'
  BY <1>9, <1>10 DEF PingFails, Invalidate
<1>11. ASSUME NEW p \in Profiles, Edit(p) \/ InvalidateEdited(p) PROVE RefsCountHolders'
  BY <1>9, <1>11 DEF Edit, InvalidateEdited, Invalidate, cacheVars
<1>12. CASE CloseManager \/ EvictIdle \/ \E s \in EngineSessions : CloseSession(s)
  BY <1>9, <1>12 DEF CloseManager, EvictIdle, CloseSession, cacheVars
<1>13. CASE UNCHANGED managerVars
  BY <1>9, <1>13 DEF managerVars, cacheVars
<1> QED
  BY <1>1, <1>2, <1>3, <1>4, <1>6, <1>7, <1>8, <1>10, <1>11, <1>12, <1>13
     DEF ManagerNext, Connecting, Inserting

-----------------------------------------------------------------------------
(* Types *)

LEMMA TypeStep == LifeInv /\ [ManagerNext]_managerVars => ManagerTypeOK' /\ HandsInv'
<1> SUFFICES ASSUME LifeInv, [ManagerNext]_managerVars PROVE ManagerTypeOK' /\ HandsInv'
  OBVIOUS
<1>0. /\ ManagerTypeOK /\ HandsInv /\ Opened \subseteq EngineSessions
      /\ MaxSessions \in Nat /\ None \notin EngineSessions \cup Profiles
  BY OpenedSessions, ManagerAssumption DEF LifeInv
<1> USE <1>0 DEF ManagerTypeOK, HandsInv, Labels, Goto, Leave, Retire, Usable,
        configVars, cacheVars, sessionVars, callerVars
<1>1. ASSUME NEW c \in Callers, AcquireCached(c) PROVE ManagerTypeOK' /\ HandsInv'
  <2>1. PICK p \in Profiles :
           /\ Usable(p)
           /\ want' = [want EXCEPT ![c] = p]
           /\ since' = [since EXCEPT ![c] = invalidated[p]]
           /\ sess' = [sess EXCEPT ![c] = cached[p]]
           /\ refs' = [refs EXCEPT ![cached[p]] = @ + 1]
    BY <1>1 DEF AcquireCached
  <2>2. cached[p] \in Opened
    BY <2>1 DEF LifeInv, CacheInv
  <2> QED BY <1>1, <2>1, <2>2 DEF AcquireCached, Opened
<1>2. ASSUME NEW c \in Callers, AcquireMiss(c) PROVE ManagerTypeOK' /\ HandsInv'
  BY <1>2 DEF AcquireMiss, Opened
<1>3. ASSUME NEW c \in Callers, Resolve(c) PROVE ManagerTypeOK' /\ HandsInv'
  BY <1>3 DEF Resolve, Opened
<1>4. ASSUME NEW c \in Callers, Open(c) PROVE ManagerTypeOK' /\ HandsInv'
  BY <1>4 DEF Open, Opened, EngineSessions
<1>5. ASSUME NEW c \in Callers, AcquireFails(c) PROVE ManagerTypeOK' /\ HandsInv'
  BY <1>5, ManagerAssumption DEF AcquireFails, Opened, Versions
<1>6. ASSUME NEW c \in Callers, InsertClosed(c) PROVE ManagerTypeOK' /\ HandsInv'
  BY <1>6, ManagerAssumption DEF InsertClosed, Opened, Versions
<1>7. ASSUME NEW c \in Callers, InsertTheirs(c) PROVE ManagerTypeOK' /\ HandsInv'
  <2>1. cached[want[c]] \in Opened
    BY <1>7 DEF InsertTheirs, LifeInv, CacheInv
  <2> QED BY <1>7, <2>1 DEF InsertTheirs, Opened
<1>8. ASSUME NEW c \in Callers, InsertMine(c) PROVE ManagerTypeOK' /\ HandsInv'
  BY <1>8 DEF InsertMine, Opened
<1>9. ASSUME NEW c \in Callers, Release(c) PROVE ManagerTypeOK' /\ HandsInv'
  <2>1. sess[c] \in EngineSessions /\ refs[sess[c]] > 0
    BY <1>9, CountedIsHeld DEF Release, LifeInv, RefsMeanHolders
  <2> QED BY <1>9, <2>1 DEF Release, Opened
<1>10. ASSUME NEW c \in Callers, Forget(c) PROVE ManagerTypeOK' /\ HandsInv'
  BY <1>10, ManagerAssumption DEF Forget, Opened, Versions
<1>11. ASSUME NEW c \in Callers, PingFails(c) PROVE ManagerTypeOK' /\ HandsInv'
  BY <1>11 DEF PingFails, Invalidate, Opened
<1>12. ASSUME NEW p \in Profiles, Edit(p) PROVE ManagerTypeOK' /\ HandsInv'
  BY <1>12, ManagerAssumption DEF Edit, Opened, Versions
<1>13. ASSUME NEW p \in Profiles, InvalidateEdited(p) PROVE ManagerTypeOK' /\ HandsInv'
  BY <1>13 DEF InvalidateEdited, Invalidate, Opened
<1>14. CASE CloseManager
  BY <1>14 DEF CloseManager, Opened
<1>15. CASE EvictIdle
  BY <1>15 DEF EvictIdle, Opened
<1>16. ASSUME NEW s \in EngineSessions, CloseSession(s) PROVE ManagerTypeOK' /\ HandsInv'
  BY <1>16 DEF CloseSession, Opened
<1>17. CASE UNCHANGED managerVars
  BY <1>17 DEF managerVars, Opened
<1> QED
  BY <1>1, <1>2, <1>3, <1>4, <1>5, <1>6, <1>7, <1>8, <1>9, <1>10, <1>11, <1>12,
     <1>13, <1>14, <1>15, <1>16, <1>17 DEF ManagerNext, Connecting, Inserting

-----------------------------------------------------------------------------
(* The life of a session *)

Rest == /\ CacheInv
        /\ FreshInv
        /\ NoUseAfterClose
        /\ OneLiveSession
        /\ DoomedInv
        /\ CloseInv
        /\ NothingLeaks

LEMMA RestStep == LifeInv /\ [ManagerNext]_managerVars => Rest'
<1> SUFFICES ASSUME LifeInv, [ManagerNext]_managerVars PROVE Rest'
  OBVIOUS
<1>0. /\ ManagerTypeOK /\ HandsInv /\ Rest /\ Opened \subseteq EngineSessions
      /\ None \notin EngineSessions
      /\ RefsMeanHolders
  BY OpenedSessions, CountedIsHeld, ManagerAssumption DEF LifeInv, Rest
<1>00. RefsMeanHolders'
  <2>1. ManagerTypeOK' /\ RefsCountHolders'
    BY TypeStep, RefsStep
  <2>2. (ManagerTypeOK /\ RefsCountHolders => RefsMeanHolders)'
    BY CountedIsHeld, PTL
  <2> QED BY <2>1, <2>2
<1> USE <1>0 DEF ManagerTypeOK, HandsInv, Rest, CacheInv, FreshInv, NoUseAfterClose, OneLiveSession,
        DoomedInv, CloseInv, ClosedOnce, NothingLeaks, Opened, RefsMeanHolders,
        Goto, Leave, Retire, Usable, configVars, cacheVars, sessionVars, callerVars
<1>1. ASSUME NEW c \in Callers, AcquireCached(c) PROVE Rest'
  <2>1. CacheInv'
    BY <1>1 DEF AcquireCached
  <2>2. FreshInv'
    BY <1>1 DEF AcquireCached
  <2>3. NoUseAfterClose'
    BY <1>1 DEF AcquireCached
  <2>4. OneLiveSession'
    BY <1>1 DEF AcquireCached
  <2>5. DoomedInv'
    BY <1>1 DEF AcquireCached
  <2>6. CloseInv'
    BY <1>1 DEF AcquireCached
  <2>7. NothingLeaks'
    BY <1>1 DEF AcquireCached
  <2> QED BY <2>1, <2>2, <2>3, <2>4, <2>5, <2>6, <2>7
<1>2. ASSUME NEW c \in Callers, AcquireMiss(c) \/ Resolve(c) PROVE Rest'
  <2>1. CASE AcquireMiss(c)
    BY <2>1 DEF AcquireMiss
  <2>2. CASE Resolve(c)
    BY <2>2 DEF Resolve
  <2> QED BY <1>2, <2>1, <2>2
<1>3. ASSUME NEW c \in Callers, Open(c) PROVE Rest'
  <2>1. CacheInv'
    BY <1>3 DEF Open, EngineSessions
  <2>2. FreshInv'
    BY <1>3 DEF Open, EngineSessions
  <2>3. NoUseAfterClose'
    BY <1>3 DEF Open, EngineSessions
  <2>4. OneLiveSession'
    BY <1>3 DEF Open, EngineSessions
  <2>5. DoomedInv'
    BY <1>3 DEF Open, EngineSessions
  <2>6. CloseInv'
    BY <1>3 DEF Open, EngineSessions
  <2>7. NothingLeaks'
    BY <1>3 DEF Open, EngineSessions
  <2> QED BY <2>1, <2>2, <2>3, <2>4, <2>5, <2>6, <2>7
<1>4. ASSUME NEW c \in Callers, AcquireFails(c) \/ Forget(c) PROVE Rest'
  BY <1>4 DEF AcquireFails, Forget
<1>5. ASSUME NEW c \in Callers, InsertClosed(c) PROVE Rest'
  <2>1. CacheInv'
    BY <1>5 DEF InsertClosed
  <2>2. FreshInv'
    BY <1>5 DEF InsertClosed
  <2>3. NoUseAfterClose'
    BY <1>5 DEF InsertClosed
  <2>4. OneLiveSession'
    BY <1>5 DEF InsertClosed
  <2>5. DoomedInv'
    BY <1>5 DEF InsertClosed
  <2>6. CloseInv'
    BY <1>5 DEF InsertClosed
  <2>7. NothingLeaks'
    BY <1>5 DEF InsertClosed
  <2> QED BY <2>1, <2>2, <2>3, <2>4, <2>5, <2>6, <2>7
<1>6. ASSUME NEW c \in Callers, InsertTheirs(c) PROVE Rest'
  <2>1. CacheInv'
    BY <1>6 DEF InsertTheirs
  <2>2. FreshInv'
    BY <1>6 DEF InsertTheirs
  <2>3. NoUseAfterClose'
    BY <1>6 DEF InsertTheirs
  <2>4. OneLiveSession'
    BY <1>6 DEF InsertTheirs
  <2>5. DoomedInv'
    BY <1>6 DEF InsertTheirs
  <2>6. CloseInv'
    BY <1>6 DEF InsertTheirs
  <2>7. NothingLeaks'
    BY <1>6 DEF InsertTheirs
  <2> QED BY <2>1, <2>2, <2>3, <2>4, <2>5, <2>6, <2>7
<1>7. ASSUME NEW c \in Callers, InsertMine(c) PROVE Rest'
  <2>1. CacheInv'
    BY <1>7 DEF InsertMine
  <2>2. FreshInv'
    BY <1>7 DEF InsertMine
  <2>3. NoUseAfterClose'
    BY <1>7 DEF InsertMine
  <2>4. OneLiveSession'
    BY <1>7 DEF InsertMine
  <2>5. DoomedInv'
    BY <1>7 DEF InsertMine
  <2>6. CloseInv'
    BY <1>7 DEF InsertMine
  <2>7. NothingLeaks'
    BY <1>7 DEF InsertMine
  <2> QED BY <2>1, <2>2, <2>3, <2>4, <2>5, <2>6, <2>7
<1>8. ASSUME NEW c \in Callers, Release(c) PROVE Rest'
  <2>1. CacheInv'
    BY <1>8 DEF Release
  <2>2. FreshInv'
    BY <1>8 DEF Release
  <2>3. NoUseAfterClose'
    <3> SUFFICES ASSUME NEW d \in Callers, at'[d] = "using"
                 PROVE  closes'[sess'[d]] = 0
      OBVIOUS
    <3>1. at[d] = "using" /\ sess' = sess /\ sess[d] \in EngineSessions
      BY <1>8 DEF Release
    <3>2. refs'[sess[d]] > 0
      BY <1>00, <3>1
    <3>3. ~(sess[d] = sess[c] /\ refs[sess[d]] = 1)
      BY <1>8, <3>1, <3>2 DEF Release
    <3> QED BY <1>8, <3>1, <3>3 DEF Release
  <2>4. OneLiveSession'
    BY <1>8 DEF Release
  <2>5. DoomedInv'
    BY <1>8 DEF Release
  <2>6. CloseInv'
    BY <1>8 DEF Release
  <2>7. NothingLeaks'
    BY <1>00, <1>8 DEF Release
  <2> QED BY <2>1, <2>2, <2>3, <2>4, <2>5, <2>6, <2>7
<1>9. ASSUME NEW p \in Profiles, Invalidate(p), UNCHANGED callerVars PROVE Rest'
  <2>1. CacheInv'
    BY <1>9 DEF Invalidate
  <2>2. FreshInv'
    BY <1>9 DEF Invalidate
  <2>3. NoUseAfterClose'
    BY <1>9 DEF Invalidate
  <2>4. OneLiveSession'
    BY <1>9 DEF Invalidate
  <2>5. DoomedInv'
    BY <1>9 DEF Invalidate
  <2>6. CloseInv'
    BY <1>9 DEF Invalidate
  <2>7. NothingLeaks'
    BY <1>9 DEF Invalidate
  <2> QED BY <2>1, <2>2, <2>3, <2>4, <2>5, <2>6, <2>7
<1>10. ASSUME CloseManager PROVE Rest'
  <2>1. CacheInv'
    BY <1>10 DEF CloseManager
  <2>2. FreshInv'
    BY <1>10 DEF CloseManager
  <2>3. NoUseAfterClose'
    BY <1>10 DEF CloseManager
  <2>4. OneLiveSession'
    BY <1>10 DEF CloseManager
  <2>5. DoomedInv'
    BY <1>10 DEF CloseManager
  <2>6. CloseInv'
    BY <1>10 DEF CloseManager
  <2>7. NothingLeaks'
    BY <1>10 DEF CloseManager
  <2> QED BY <2>1, <2>2, <2>3, <2>4, <2>5, <2>6, <2>7
<1>11. ASSUME EvictIdle PROVE Rest'
  <2>1. CacheInv'
    BY <1>11 DEF EvictIdle
  <2>2. FreshInv'
    BY <1>11 DEF EvictIdle
  <2>3. NoUseAfterClose'
    BY <1>11 DEF EvictIdle
  <2>4. OneLiveSession'
    BY <1>11 DEF EvictIdle
  <2>5. DoomedInv'
    BY <1>11 DEF EvictIdle
  <2>6. CloseInv'
    BY <1>11 DEF EvictIdle
  <2>7. NothingLeaks'
    BY <1>11 DEF EvictIdle
  <2> QED BY <2>1, <2>2, <2>3, <2>4, <2>5, <2>6, <2>7
<1>12. ASSUME UNCHANGED <<cached, refs, doomed, nextSession, closes, at, want, sess>> PROVE Rest'
  BY <1>12
<1> QED
  BY <1>1, <1>2, <1>3, <1>4, <1>5, <1>6, <1>7, <1>8, <1>9, <1>10, <1>11, <1>12
     DEF ManagerNext, Connecting, Inserting, PingFails, Edit, InvalidateEdited, CloseSession, managerVars

LEMMA LifeInvAlways == ManagerSpec => []LifeInv
<1>1. ManagerInit => LifeInv
  <2> SUFFICES ASSUME ManagerInit PROVE LifeInv
    OBVIOUS
  <2>0. Opened = {}
    BY DEF ManagerInit, Opened
  <2>1. ManagerTypeOK
    <3>1. 0 \in Versions /\ 1 \in 1..MaxSessions + 1
      BY ManagerAssumption DEF Versions
    <3> QED BY <3>1 DEF ManagerInit, ManagerTypeOK, Labels
  <2>2. RefsCountHolders
    <3>1. \A s \in EngineSessions : Holders(s) = {}
      BY DEF ManagerInit, Holders
    <3> QED BY <3>1, FS_EmptySet DEF ManagerInit, RefsCountHolders
  <2>3. Rest /\ HandsInv
    BY <2>0 DEF ManagerInit, Rest, HandsInv, CacheInv, FreshInv, NoUseAfterClose, OneLiveSession,
                DoomedInv, CloseInv, ClosedOnce, NothingLeaks
  <2> QED BY <2>1, <2>2, <2>3 DEF LifeInv, Rest
<1>2. LifeInv /\ [ManagerNext]_managerVars => LifeInv'
  BY TypeStep, RefsStep, RestStep DEF LifeInv, Rest
<1> QED BY <1>1, <1>2, PTL DEF ManagerSpec

\* The manager's reference counts are the numbers of holders, whatever callers,
\* edits, the reaper and Close do.
THEOREM RefsCountHoldersAlways == ManagerSpec => []RefsCountHolders
BY LifeInvAlways, PTL DEF LifeInv

\* No session is closed, or about to be, while a caller has it.
THEOREM NeverClosedInUse == ManagerSpec => []NoUseAfterClose
BY LifeInvAlways, PTL DEF LifeInv

\* No session is closed twice.
THEOREM NeverClosedTwice == ManagerSpec => []ClosedOnce
BY LifeInvAlways, PTL DEF LifeInv, CloseInv

\* Release, Invalidate, the reaper and Close close a session at the right moment.
THEOREM ClosedRightlyAlways == ManagerSpec => []ClosedRightly
BY NeverClosedInUse, NeverClosedTwice, PTL DEF ClosedRightly

\* Every session that was opened is cached, held, in the hands of its opener or
\* on its way to be closed.
THEOREM NeverLost == ManagerSpec => []NothingLeaks
BY LifeInvAlways, PTL DEF LifeInv

\* Callers of one profile share its session, unless theirs was invalidated.
THEOREM SessionsAreShared == ManagerSpec => []OneLiveSession
BY LifeInvAlways, PTL DEF LifeInv

\* Every variable of the manager keeps its type.
THEOREM ManagerTypeCorrect == ManagerSpec => []ManagerTypeOK
BY LifeInvAlways, PTL DEF LifeInv
=============================================================================
