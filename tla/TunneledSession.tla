-------------------------- MODULE TunneledSession --------------------------
\* A SQL session through an SSH bastion: Engine.Open and Session.Close of Postgres
\* and MySQL with the tunnel they own (internal/engine/tunnel). The driver's pool
\* dials through the tunnel from goroutines of its own and under contexts that may
\* end first. The MySQL driver finds the tunnel by name, in a registry of the
\* process. External: the bastion, the database, database/sql.
EXTENDS Naturals, FiniteSets

CONSTANTS Sessions, \* calls of Open, for profiles with an SSH host
          Dials     \* connections a session's pool asks for

VARIABLES
    engine,   \* the sessions are "postgres" or "mysql" ones: the two never meet
    opening,  \* where Open or Close of each session is
    ssh,      \* the connection to the bastion: "none", "raw", "up", "closed"
    pool,     \* sql.DB: "none", "open", "closed"
    dial,     \* the dials of each session's pool
    registry  \* RegisterDialContext: whose tunnel each registered name stands for

tunnelVars == <<engine, opening, ssh, pool, dial, registry>>

\* A profile whose key cannot be read fails before it dials.
TunnelInit ==
    /\ engine \in {"postgres", "mysql"}
    /\ opening \in [Sessions -> {"tcp", "failed"}]
    /\ ssh = [s \in Sessions |-> "none"]
    /\ pool = [s \in Sessions |-> "none"]
    /\ dial = [s \in Sessions |-> [d \in Dials |-> "none"]]
    /\ registry = [n \in {} |-> {}]

-----------------------------------------------------------------------------
At(s, l) == opening[s] = l

Goto(s, l) == opening' = [opening EXCEPT ![s] = l]

\* tunnel.Open: the dial and the handshake may stall; a deadline ends both.
ConnectTCP(s) ==
    /\ At(s, "tcp")
    /\ ssh' = [ssh EXCEPT ![s] = "raw"]
    /\ Goto(s, "handshake")
    /\ UNCHANGED <<engine, pool, dial, registry>>

ConnectFails(s) ==
    /\ At(s, "tcp")
    /\ Goto(s, "failed")
    /\ UNCHANGED <<engine, ssh, pool, dial, registry>>

NewClientConn(s) ==
    /\ At(s, "handshake")
    /\ ssh' = [ssh EXCEPT ![s] = "up"]
    /\ Goto(s, "register")
    /\ UNCHANGED <<engine, pool, dial, registry>>

\* Mutant of HandshakeFails: ClientConfig.Timeout only, no deadline on the
\* connection: the handshake of a bastion that stalls never fails.
HandshakeFails_NoDeadline(s) == FALSE

\* The bastion refuses, or the deadline passes.
HandshakeFails(s) ==
    /\ At(s, "handshake")
    /\ ssh' = [ssh EXCEPT ![s] = "closed"]
    /\ Goto(s, "failed")
    /\ UNCHANGED <<engine, pool, dial, registry>>

\* Mutant of NetName: one name for all tunnels.
NetName_Fixed(s) == "dbhelm-ssh"

\* A new UUID each time.
NetName(s) == s

\* The pool is made; it dials when somebody needs a connection.
RegisterDialer(s) ==
    /\ At(s, "register")
    /\ registry' = IF engine = "mysql"
                   THEN [n \in DOMAIN registry \cup {NetName(s)} |->
                            IF n = NetName(s) THEN s ELSE registry[n]]
                   ELSE registry
    /\ \/ pool' = [pool EXCEPT ![s] = "open"] /\ Goto(s, "ping")
       \/ engine = "mysql" /\ UNCHANGED pool /\ Goto(s, "undo-tunnel")  \* sql.Open fails
    /\ UNCHANGED <<engine, ssh, dial>>

\* The ping, and the statement for the tenant variable, need a connection; either
\* may fail or run into pingCtx.
Ping(s) ==
    /\ At(s, "ping") /\ \E d \in Dials : dial[s][d] = "pooled"
    /\ \E l \in {"tenant", "opened"} : Goto(s, l)
    /\ UNCHANGED <<engine, ssh, pool, dial, registry>>

SetTenant(s) ==
    /\ At(s, "tenant")
    /\ Goto(s, "opened")
    /\ UNCHANGED <<engine, ssh, pool, dial, registry>>

OpenFails(s) ==
    /\ opening[s] \in {"ping", "tenant"}
    /\ Goto(s, "undo-pool")
    /\ UNCHANGED <<engine, ssh, pool, dial, registry>>

\* The session manager closes the session.
Close(s) ==
    /\ At(s, "opened")
    /\ Goto(s, "close-pool")
    /\ UNCHANGED <<engine, ssh, pool, dial, registry>>

Then(s) == IF opening[s] \in {"undo-pool", "undo-tunnel", "undo-name"}
           THEN <<"undo-tunnel", "undo-name", "failed">> ELSE <<"close-tunnel", "close-name", "closed">>

\* db.Close: the connections of the pool go, dials under way lose their context.
ClosePool(s) ==
    /\ opening[s] \in {"undo-pool", "close-pool"}
    /\ pool' = [pool EXCEPT ![s] = "closed"]
    /\ dial' = [dial EXCEPT ![s] = [d \in Dials |-> IF @[d] = "pooled" THEN "gone" ELSE @[d]]]
    /\ Goto(s, Then(s)[1])
    /\ UNCHANGED <<engine, ssh, registry>>

\* Mutant of CloseTunnel: a failed Open closes its pool only.
CloseTunnel_OnlyAtClose(s) ==
    /\ opening[s] \in {"undo-tunnel", "close-tunnel"}
    /\ IF At(s, "close-tunnel")
       THEN /\ ssh' = [ssh EXCEPT ![s] = "closed"]
            /\ dial' = [dial EXCEPT ![s] = [d \in Dials |-> IF @[d] = "orphan" THEN "gone" ELSE @[d]]]
       ELSE UNCHANGED <<ssh, dial>>
    /\ Goto(s, Then(s)[2])
    /\ UNCHANGED <<engine, pool, registry>>

\* Tunnel.Close tears down every tunneled connection.
CloseTunnel(s) ==
    /\ opening[s] \in {"undo-tunnel", "close-tunnel"}
    /\ ssh' = [ssh EXCEPT ![s] = "closed"]
    /\ dial' = [dial EXCEPT ![s] = [d \in Dials |->
                    IF @[d] \in {"pooled", "orphan"} THEN "gone" ELSE @[d]]]
    /\ Goto(s, Then(s)[2])
    /\ UNCHANGED <<engine, pool, registry>>

DeregisterDialer(s) ==
    /\ opening[s] \in {"undo-name", "close-name"}
    /\ registry' = IF engine = "mysql"
                   THEN [n \in DOMAIN registry \ {NetName(s)} |-> registry[n]] ELSE registry
    /\ Goto(s, Then(s)[3])
    /\ UNCHANGED <<engine, ssh, pool, dial>>

-----------------------------------------------------------------------------
SetDial(s, d, v) == dial' = [dial EXCEPT ![s][d] = v]

\* The pool needs a connection and starts the goroutine of DialContext. A MySQL
\* pool looks its tunnel up first.
DialContext(s, d) ==
    /\ pool[s] = "open" /\ opening[s] \in {"ping", "tenant", "opened"} /\ dial[s][d] = "none"
    /\ engine = "mysql" => NetName(s) \in DOMAIN registry
    /\ SetDial(s, d, "dialing")
    /\ UNCHANGED <<engine, opening, ssh, pool, registry>>

\* client.Dial, through whichever tunnel the name stands for.
Through(s) == IF engine = "mysql" /\ NetName(s) \in DOMAIN registry THEN registry[NetName(s)] ELSE s

\* The result is there while DialContext waits; a pool that has been closed
\* meanwhile closes what it is given.
DialSucceeds(s, d) ==
    /\ dial[s][d] = "dialing" /\ ssh[Through(s)] = "up"
    /\ SetDial(s, d, IF pool[s] = "open" THEN "pooled" ELSE "gone")
    /\ UNCHANGED <<engine, opening, ssh, pool, registry>>

DialFails(s, d) ==
    /\ dial[s][d] \in {"dialing", "abandoned"}
    /\ SetDial(s, d, "gone")
    /\ UNCHANGED <<engine, opening, ssh, pool, registry>>

\* The context ends first: its caller has an error, the goroutine goes on.
DialAbandoned(s, d) ==
    /\ dial[s][d] = "dialing"
    /\ SetDial(s, d, "abandoned")
    /\ UNCHANGED <<engine, opening, ssh, pool, registry>>

\* It connects after all: into the buffered channel, and nobody reads that.
DialTooLate(s, d) ==
    /\ dial[s][d] = "abandoned" /\ ssh[Through(s)] = "up"
    /\ SetDial(s, d, "orphan")
    /\ UNCHANGED <<engine, opening, ssh, pool, registry>>

-----------------------------------------------------------------------------
\* What ends by itself: a step of the program, or a deadline or a context.
Bounded(s) == \/ ConnectFails(s) \/ HandshakeFails(s) \/ RegisterDialer(s)
              \/ OpenFails(s) \/ ClosePool(s) \/ CloseTunnel(s) \/ DeregisterDialer(s)

TunnelNext == \E s \in Sessions :
    \/ ConnectTCP(s) \/ NewClientConn(s) \/ Ping(s) \/ SetTenant(s) \/ Close(s) \/ Bounded(s)
    \/ \E d \in Dials : DialContext(s, d) \/ DialSucceeds(s, d) \/ DialFails(s, d)
                        \/ DialAbandoned(s, d) \/ DialTooLate(s, d)

TunnelFairness == \A s \in Sessions : WF_tunnelVars(Bounded(s))

-----------------------------------------------------------------------------
\* Where Open has returned an error, whichever of its steps it was, or the session
\* has been closed, nothing stays open: no connection to the bastion, no pool, no
\* connection in it or forgotten by it, no name in the driver's registry.
NothingStaysOpen ==
    \A s \in Sessions : opening[s] \in {"failed", "closed"} =>
        /\ ssh[s] \in {"none", "closed"} /\ pool[s] \in {"none", "closed"}
        /\ \A d \in Dials : dial[s][d] \notin {"pooled", "orphan"}
        /\ s \notin {registry[n] : n \in DOMAIN registry}

\* While a MySQL session lives its name stands for its own tunnel: another profile
\* that opens or closes does not take it away (mysql.go:53-55).
TunnelsAreTheirOwn ==
    \A s \in Sessions : engine = "mysql" /\ opening[s] \in {"ping", "tenant", "opened"} =>
        NetName(s) \in DOMAIN registry /\ registry[NetName(s)] = s

TunnelsAreClosed == NothingStaysOpen /\ TunnelsAreTheirOwn

\* Open returns, also when the bastion stalls in the middle of its handshake or
\* the database never answers.
HasReturned(s) == opening[s] \in {"opened", "failed", "close-pool", "close-tunnel",
                                  "close-name", "closed"}
OpenReturns == <>\A s \in Sessions : HasReturned(s)
=============================================================================
