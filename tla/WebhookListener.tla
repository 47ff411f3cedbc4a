-------------------------- MODULE WebhookListener --------------------------
\* The webhook listener of the desktop application: the bindings that start and
\* stop it under one mutex (desktop/webhook.go, App.shutdown), its HTTP server
\* (internal/listener) and the requests of devices. net/http as the code uses it:
\* Shutdown closes the port and waits for the requests that have begun, for ever
\* under context.Background(); a server whose Serve has not run yet keeps its port
\* until that goroutine runs and finds the server shut down.
EXTENDS Naturals

CONSTANTS Calls,     \* calls of the bindings
          Requests,  \* requests that devices send
          NoCall,
          MaxServers \* how often a server is started

Servers == 1..MaxServers

VARIABLES
    webhookM, \* who holds the mutex
    webhookL, \* the running server, 0 for none
    binding,  \* the calls: what they do and where they are
    started,  \* servers made so far; the number of a server is also its token
    ports,    \* servers whose port is open
    serving,  \* servers whose Serve accepts connections
    shut,     \* servers whose Shutdown has been called
    drained,  \* history: servers whose Stop has returned
    request   \* the requests

vars == <<webhookM, webhookL, binding, started, ports, serving, shut, drained, request>>
server == <<started, ports, serving, shut, drained>>

CallKinds == {"start", "stop", "running", "shutdown"}

\* A call that has "returned" is not made.
ListenerInit ==
    /\ webhookM = NoCall /\ webhookL = 0
    /\ binding \in [Calls -> [kind : CallKinds, at : {"lock", "returned"}]]
    /\ started = 0
    /\ ports = {} /\ serving = {} /\ shut = {} /\ drained = {}
    /\ request = [r \in Requests |-> [at |-> "none", server |-> 0, token |-> 0]]

-----------------------------------------------------------------------------
At(c, s) == binding[c].at = s

Goto(c, s) == binding' = [binding EXCEPT ![c].at = s]

Unlock(c) == webhookM' = NoCall /\ Goto(c, "returned")

Lock(c) ==
    /\ At(c, "lock") /\ webhookM = NoCall
    /\ webhookM' = c
    /\ Goto(c, CASE binding[c].kind = "running" -> "answer"
                 [] webhookL # 0 -> "stop"
                 [] webhookL = 0 /\ binding[c].kind = "start" -> "listen"
                 [] OTHER -> "answer")
    /\ UNCHANGED <<webhookL, server, request>>

\* IsWebhookListenerRunning, or nothing to stop.
Answer(c) ==
    /\ At(c, "answer")
    /\ Unlock(c)
    /\ UNCHANGED <<webhookL, server, request>>

\* Shutdown closes the port of a server that serves.
Stop(c) ==
    /\ At(c, "stop")
    /\ shut' = shut \cup {webhookL}
    /\ ports' = ports \ (serving \cap {webhookL})
    /\ Goto(c, "drain")
    /\ UNCHANGED <<webhookM, webhookL, started, serving, drained, request>>

InHandler(r) == request[r].at \in {"headers", "body", "forward", "answer"}

\* Mutant of Drained: Close instead of Shutdown.
Drained_Close(c) ==
    /\ At(c, "drain")
    /\ drained' = drained \cup {webhookL}
    /\ webhookL' = 0
    /\ IF binding[c].kind = "start" THEN Goto(c, "listen") /\ UNCHANGED webhookM ELSE Unlock(c)
    /\ UNCHANGED <<started, ports, serving, shut, request>>

\* Shutdown returns when no request is in its handler.
Drained(c) ==
    /\ At(c, "drain")
    /\ ~\E r \in Requests : request[r].server = webhookL /\ InHandler(r)
    /\ drained' = drained \cup {webhookL}
    /\ webhookL' = 0
    /\ IF binding[c].kind = "start" THEN Goto(c, "listen") /\ UNCHANGED webhookM ELSE Unlock(c)
    /\ UNCHANGED <<started, ports, serving, shut, request>>

\* net.Listen: the port may still be the old server's, or another program's.
Listen(c) ==
    /\ At(c, "listen") /\ started < MaxServers
    /\ IF ports = {}
       THEN /\ started' = started + 1
            /\ ports' = {started'}
            /\ Goto(c, "token") /\ UNCHANGED webhookM
       ELSE Unlock(c) /\ UNCHANGED <<started, ports>>
    /\ UNCHANGED <<webhookL, serving, shut, drained, request>>

ListenFails(c) ==
    /\ At(c, "listen")
    /\ Unlock(c)
    /\ UNCHANGED <<webhookL, server, request>>

\* crypto/rand fails: the port is given back.
TokenFails(c) ==
    /\ At(c, "token")
    /\ ports' = ports \ {started}
    /\ Unlock(c)
    /\ UNCHANGED <<webhookL, started, serving, shut, drained, request>>

\* The token, and go srv.Serve.
MakeToken(c) ==
    /\ At(c, "token")
    /\ Goto(c, "assign")
    /\ UNCHANGED <<webhookM, webhookL, server, request>>

\* The binding keeps the listener and returns its address and token.
Assign(c) ==
    /\ At(c, "assign")
    /\ webhookL' = started
    /\ Unlock(c)
    /\ UNCHANGED <<server, request>>

-----------------------------------------------------------------------------
Making(s, steps) == s = started /\ \E c \in Calls : binding[c].at \in steps

\* go srv.Serve(ln).
Serve(s) ==
    /\ s \in ports \ serving /\ ~Making(s, {"token"})
    /\ IF s \in shut
       THEN ports' = ports \ {s} /\ UNCHANGED serving
       ELSE serving' = serving \cup {s} /\ UNCHANGED ports
    /\ UNCHANGED <<webhookM, webhookL, binding, started, shut, drained, request>>

Now(r, s) == request' = [request EXCEPT ![r].at = s]

\* A device reaches the open port with a token that the view has shown.
Arrive(r) ==
    /\ request[r].at = "none"
    /\ \E s \in ports \cap serving, t \in 1..started :
         /\ ~Making(t, {"token", "assign"})
         /\ request' = [request EXCEPT ![r] = [at |-> "headers", server |-> s, token |-> t]]
    /\ UNCHANGED <<webhookM, webhookL, binding, server>>

\* Mutant of CheckToken: every request is let in.
CheckToken_None(r) ==
    /\ request[r].at = "headers"
    /\ Now(r, "body")
    /\ UNCHANGED <<webhookM, webhookL, binding, server>>

CheckToken(r) ==
    /\ request[r].at = "headers"
    /\ Now(r, IF request[r].token = request[r].server THEN "body" ELSE "refused")
    /\ UNCHANGED <<webhookM, webhookL, binding, server>>

\* The device has sent the body, or hung up; neither is ever forced on it.
BodyEnds(r) ==
    /\ request[r].at = "body"
    /\ Now(r, "forward")
    /\ UNCHANGED <<webhookM, webhookL, binding, server>>

\* onRequest emits the event.
Forward(r) ==
    /\ request[r].at = "forward"
    /\ Now(r, "answer")
    /\ UNCHANGED <<webhookM, webhookL, binding, server>>

Respond(r) ==
    /\ request[r].at = "answer"
    /\ Now(r, "answered")
    /\ UNCHANGED <<webhookM, webhookL, binding, server>>

-----------------------------------------------------------------------------
CallStep(c) == Lock(c) \/ Answer(c) \/ Stop(c) \/ Drained(c) \/ Listen(c) \/ ListenFails(c)
               \/ TokenFails(c) \/ MakeToken(c) \/ Assign(c)

RequestStep(r) == CheckToken(r) \/ BodyEnds(r) \/ Forward(r) \/ Respond(r)

ListenerNext == \/ \E c \in Calls : CallStep(c)
                \/ \E s \in Servers : Serve(s)
                \/ \E r \in Requests : Arrive(r) \/ RequestStep(r)

\* Goroutines run, and devices send what they announced or hang up.
ListenerFairness == /\ \A c \in Calls : WF_vars(CallStep(c))
                    /\ \A s \in Servers : WF_vars(Serve(s))
                    /\ \A r \in Requests : WF_vars(RequestStep(r))

-----------------------------------------------------------------------------
\* What the view hears of is what a device sent with the token the running
\* listener was started with: nothing of a listener whose stop, or whose
\* replacement by a new one, has been reported.
NothingAfterStop ==
    \A r \in Requests : request[r].at \in {"forward", "answer"} =>
        /\ request[r].token = request[r].server
        /\ request[r].server = webhookL /\ request[r].server \notin drained

\* No server is forgotten with its port open: it runs, is being started or
\* stopped, or its Serve is about to give the port back.
PortsAreOwned ==
    \A s \in ports : \/ s = webhookL
                     \/ s \in shut \ serving
                     \/ Making(s, {"token", "assign"})

ListenerIsSound == NothingAfterStop /\ PortsAreOwned /\ \A s, t \in ports : s = t

\* Starting, stopping and asking end, as long as devices end their requests.
CallsReturn == <>\A c \in Calls : At(c, "returned")
=============================================================================
