----------------------------- MODULE DesktopApp -----------------------------
\* The desktop application's concurrent services together: the job manager, the session
\* manager, the webhook listener and the tunneled sessions. What each of them does does
\* not depend on the others (a job sees of the manager only that Acquire returns or
\* fails): a behaviour uses one service.
EXTENDS DesktopJobs, SessionManager

CONSTANTS Calls, Requests, NoCall, MaxServers,  \* of WebhookListener
          Sessions, Dials                       \* of TunneledSession

ASSUME ListenerAssumption == NoCall \notin Calls /\ MaxServers \in Nat

VARIABLES webhookM, webhookL, binding, started, ports, serving, shut, drained, request,
          engine, opening, ssh, pool, dial, registry,
          used   \* the service of this behaviour

Hook == INSTANCE WebhookListener
Tunnels == INSTANCE TunneledSession

hookVars == <<webhookM, webhookL, binding, started, ports, serving, shut, drained, request>>
tunnelVars == <<engine, opening, ssh, pool, dial, registry>>
appVars == <<vars, managerVars, hookVars, tunnelVars, used>>

\* A service that is not used: no binding is called, no profile can be opened.
HookIdle == \A c \in Calls : binding[c] = [kind |-> "running", at |-> "returned"]
TunnelsIdle == engine = "mysql" /\ \A s \in Sessions : opening[s] = "failed"

AppInit ==
    /\ used \in {"jobs", "manager", "listener", "tunnels"}
    /\ Init /\ ManagerInit /\ Hook!ListenerInit /\ Tunnels!TunnelInit
    /\ used # "listener" => HookIdle
    /\ used # "tunnels" => TunnelsIdle

AppNext ==
    /\ \/ used = "jobs" /\ Next /\ UNCHANGED <<managerVars, hookVars, tunnelVars>>
       \/ used = "manager" /\ ManagerNext /\ UNCHANGED <<vars, hookVars, tunnelVars>>
       \/ used = "listener" /\ Hook!ListenerNext /\ UNCHANGED <<vars, managerVars, tunnelVars>>
       \/ used = "tunnels" /\ Tunnels!TunnelNext /\ UNCHANGED <<vars, managerVars, hookVars>>
    /\ UNCHANGED used

\* The fairness of each service; nothing of one that is not used is enabled.
AppSpec == AppInit /\ [][AppNext]_appVars
           /\ JobsFairness /\ ManagerFairness /\ Hook!ListenerFairness /\ Tunnels!TunnelFairness

-----------------------------------------------------------------------------
\* WebhookListener: the view hears of nothing after a stop, and no port is lost.
ListenerIsSound == Hook!ListenerIsSound

\* TunneledSession: whatever way Open or Close goes, no connection is left open,
\* and no session goes through another one's tunnel.
TunnelsAreClosed == Tunnels!TunnelsAreClosed

\* The bindings of the listener return, and so does an Open through a bastion.
ServicesAnswer == Hook!CallsReturn /\ Tunnels!OpenReturns
=============================================================================
