--------------------------- MODULE SessionManager ---------------------------
(***************************************************************************)
(* internal/engine/manager.go: the cache of one live session per saved     *)
(* connection profile.  Callers acquire and release sessions, profiles are *)
(* edited and invalidated, the reaper evicts idle sessions and the         *)
(* application closes the manager, each on a goroutine of its own.  A step *)
(* is one critical section of m.mu or one call made outside it.            *)
(***************************************************************************)
EXTENDS Naturals, FiniteSets

CONSTANTS Callers,      \* goroutines that use sessions
          Profiles,     \* names of saved connections
          None,         \* no session, no profile
          MaxSessions,  \* bound: how many sessions are ever opened
          MaxEdits      \* bound: how often a profile is edited

EngineSessions == 1..MaxSessions

ASSUME ManagerAssumption == /\ IsFiniteSet(Callers)
                            /\ MaxSessions \in Nat
                            /\ MaxEdits \in Nat
                            /\ None \notin EngineSessions \cup Profiles

Versions == 0..MaxEdits

VARIABLES
  config,       \* version of each profile in config.json
  edited,       \* profiles saved by an edit whose Invalidate is still to come
  invalidated,  \* version of each profile at its last Invalidate after an edit
  cached,       \* m.sessions
  refs,         \* managedSession.refs
  doomed,       \* managedSession.doomed
  closed,       \* m.closed
  nextSession,  \* the next session an Open will return
  version,      \* the version of the profile each session was opened with
  closes,       \* how often the manager decided to close each session
  shutSessions, \* sessions whose Close has been called
  at,           \* where each caller is
  want,         \* the profile it asked for
  resolved,     \* the version of the profile resolve returned to it
  sess,         \* the session it has opened, or was given
  since         \* what invalidated[want] was when it called Acquire

configVars  == <<config, edited, invalidated>>
cacheVars   == <<cached, refs, doomed, closed>>
sessionVars == <<nextSession, version, closes, shutSessions>>
callerVars  == <<at, want, resolved, sess, since>>
managerVars == <<configVars, cacheVars, sessionVars, callerVars>>

Labels == {"idle", "resolve", "open", "insert", "using", "released"}

ManagerTypeOK == /\ config \in [Profiles -> Versions]
                 /\ edited \subseteq Profiles
                 /\ invalidated \in [Profiles -> Versions]
                 /\ cached \in [Profiles -> EngineSessions \cup {None}]
                 /\ refs \in [EngineSessions -> Nat]
                 /\ doomed \subseteq EngineSessions
                 /\ closed \in BOOLEAN
                 /\ nextSession \in 1..MaxSessions + 1
                 /\ version \in [EngineSessions -> Versions]
                 /\ closes \in [EngineSessions -> Nat]
                 /\ shutSessions \subseteq EngineSessions
                 /\ at \in [Callers -> Labels]
                 /\ want \in [Callers -> Profiles \cup {None}]
                 /\ resolved \in [Callers -> Versions]
                 /\ sess \in [Callers -> EngineSessions \cup {None}]
                 /\ since \in [Callers -> Versions]

ManagerInit == /\ config = [p \in Profiles |-> 0]
               /\ edited = {}
               /\ invalidated = [p \in Profiles |-> 0]
               /\ cached = [p \in Profiles |-> None]
               /\ refs = [s \in EngineSessions |-> 0]
               /\ doomed = {}
               /\ closed = FALSE
               /\ nextSession = 1
               /\ version = [s \in EngineSessions |-> 0]
               /\ closes = [s \in EngineSessions |-> 0]
               /\ shutSessions = {}
               /\ at = [c \in Callers |-> "idle"]
               /\ want = [c \in Callers |-> None]
               /\ resolved = [c \in Callers |-> 0]
               /\ sess = [c \in Callers |-> None]
               /\ since = [c \in Callers |-> 0]

Goto(c, from, to) == /\ at[c] = from
                     /\ at' = [at EXCEPT ![c] = to]

\* The caller is done, with a session or without.
Leave(c) == /\ at' = [at EXCEPT ![c] = "idle"]
            /\ want' = [want EXCEPT ![c] = None]
            /\ resolved' = [resolved EXCEPT ![c] = 0]
            /\ sess' = [sess EXCEPT ![c] = None]
            /\ since' = [since EXCEPT ![c] = 0]

\* The manager will call Close of these sessions as soon as it has unlocked m.mu.
Retire(retired) ==
    closes' = [s \in EngineSessions |-> IF s \in retired THEN closes[s] + 1
                                                         ELSE closes[s]]

\* What Acquire looks up under the lock.
Usable(p) == cached[p] # None /\ cached[p] \notin doomed

-----------------------------------------------------------------------------
(* Acquire *)

\* The cached session is handed out.
AcquireCached(c) ==
    /\ Goto(c, "idle", "using")
    /\ ~closed
    /\ \E p \in Profiles :
          /\ Usable(p)
          /\ want' = [want EXCEPT ![c] = p]
          /\ since' = [since EXCEPT ![c] = invalidated[p]]
          /\ sess' = [sess EXCEPT ![c] = cached[p]]
          /\ refs' = [refs EXCEPT ![cached[p]] = @ + 1]
    /\ UNCHANGED <<configVars, sessionVars, cached, doomed, closed, resolved>>

\* Nothing is cached: the caller will open a session, without the lock.
AcquireMiss(c) ==
    /\ Goto(c, "idle", "resolve")
    /\ ~closed
    /\ \E p \in Profiles :
          /\ ~Usable(p)
          /\ want' = [want EXCEPT ![c] = p]
          /\ since' = [since EXCEPT ![c] = invalidated[p]]
    /\ UNCHANGED <<configVars, cacheVars, sessionVars, resolved, sess>>

\* resolve loads config.json and finds the profile.
Resolve(c) ==
    /\ Goto(c, "resolve", "open")
    /\ resolved' = [resolved EXCEPT ![c] = config[want[c]]]
    /\ UNCHANGED <<configVars, cacheVars, sessionVars, want, sess, since>>

\* eng.Open connects.
Open(c) ==
    /\ Goto(c, "open", "insert")
    /\ nextSession \in EngineSessions
    /\ nextSession' = nextSession + 1
    /\ version' = [version EXCEPT ![nextSession] = resolved[c]]
    /\ sess' = [sess EXCEPT ![c] = nextSession]
    /\ UNCHANGED <<configVars, cacheVars, closes, shutSessions, want, resolved, since>>

\* No such profile, no connection, a context that ended.
AcquireFails(c) ==
    /\ at[c] \in {"resolve", "open"}
    /\ Leave(c)
    /\ UNCHANGED <<configVars, cacheVars, sessionVars>>

\* The manager was closed while the caller was connecting.
InsertClosed(c) ==
    /\ at[c] = "insert"
    /\ closed
    /\ Retire({sess[c]})
    /\ Leave(c)
    /\ UNCHANGED <<configVars, cacheVars, nextSession, version, shutSessions>>

\* Another caller was faster: prefer its session and discard the new one.
InsertTheirs(c) ==
    /\ Goto(c, "insert", "using")
    /\ ~closed
    /\ Usable(want[c])
    /\ refs' = [refs EXCEPT ![cached[want[c]]] = @ + 1]
    /\ Retire({sess[c]})
    /\ sess' = [sess EXCEPT ![c] = cached[want[c]]]
    /\ UNCHANGED <<configVars, cached, doomed, closed, nextSession, version, shutSessions,
                   want, resolved, since>>

\* Mutant of InsertMine: the second look for another caller's session is missing.
InsertMine_Overwrites(c) ==
    /\ Goto(c, "insert", "using")
    /\ ~closed
    /\ cached' = [cached EXCEPT ![want[c]] = sess[c]]
    /\ refs' = [refs EXCEPT ![sess[c]] = 1]
    /\ UNCHANGED <<configVars, doomed, closed, sessionVars, want, resolved, sess, since>>

\* The new session goes into the cache.
InsertMine(c) ==
    /\ Goto(c, "insert", "using")
    /\ ~closed
    /\ ~Usable(want[c])
    /\ cached' = [cached EXCEPT ![want[c]] = sess[c]]
    /\ refs' = [refs EXCEPT ![sess[c]] = 1]
    /\ UNCHANGED <<configVars, doomed, closed, sessionVars, want, resolved, sess, since>>

-----------------------------------------------------------------------------
(* The release function *)

\* Mutant of Release: the last holder of an invalidated session forgets to close it.
Release_NeverCloses(c) ==
    /\ Goto(c, "using", "released")
    /\ refs' = [refs EXCEPT ![sess[c]] = @ - 1]
    /\ UNCHANGED <<configVars, cached, doomed, closed, sessionVars,
                   want, resolved, sess, since>>

Release(c) ==
    /\ Goto(c, "using", "released")
    /\ refs' = [refs EXCEPT ![sess[c]] = @ - 1]
    /\ Retire({s \in doomed : s = sess[c] /\ refs[s] = 1})
    /\ UNCHANGED <<configVars, cached, doomed, closed, nextSession, version, shutSessions,
                   want, resolved, sess, since>>

\* Mutant of Forget: a second call of the release function counts again.
Forget_ReleasesAgain(c) ==
    /\ at[c] = "released"
    /\ refs' = [refs EXCEPT ![sess[c]] = @ - 1]
    /\ Leave(c)
    /\ UNCHANGED <<configVars, cached, doomed, closed, sessionVars>>

\* However often the caller calls the release function after that, nothing more
\* happens.
Forget(c) ==
    /\ at[c] = "released"
    /\ Leave(c)
    /\ UNCHANGED <<configVars, cacheVars, sessionVars>>

-----------------------------------------------------------------------------
(* Invalidate, Close, the reaper *)

\* Mutant of Invalidate: a session in use is closed at once.
Invalidate_InUse(p) ==
    /\ cached' = [cached EXCEPT ![p] = None]
    /\ doomed' = doomed \cup ({cached[p]} \ {None})
    /\ Retire({cached[p]} \ {None})
    /\ UNCHANGED <<refs, closed, nextSession, version, shutSessions>>

\* The profile's session leaves the cache; it is closed now if nobody holds it.
Invalidate(p) ==
    /\ cached' = [cached EXCEPT ![p] = None]
    /\ doomed' = doomed \cup ({cached[p]} \ {None})
    /\ Retire({s \in EngineSessions : s = cached[p] /\ refs[s] = 0})
    /\ UNCHANGED <<refs, closed, nextSession, version, shutSessions>>

\* AddConnection, SwitchTenant, RemoveConnection: config.Save ...
Edit(p) ==
    /\ config[p] < MaxEdits
    /\ config' = [config EXCEPT ![p] = @ + 1]
    /\ edited' = edited \cup {p}
    /\ UNCHANGED <<invalidated, cacheVars, sessionVars, callerVars>>

\* ... and Invalidate.
InvalidateEdited(p) ==
    /\ p \in edited
    /\ edited' = edited \ {p}
    /\ invalidated' = [invalidated EXCEPT ![p] = config[p]]
    /\ Invalidate(p)
    /\ UNCHANGED <<config, callerVars>>

\* TestConnection: the session in use does not answer a ping.
PingFails(c) ==
    /\ at[c] = "using"
    /\ Invalidate(want[c])
    /\ UNCHANGED <<configVars, callerVars>>

\* Mutant of CloseManager: only the sessions nobody holds are marked.
CloseManager_ForgetsHeld ==
    /\ ~closed
    /\ closed' = TRUE
    /\ cached' = [p \in Profiles |-> None]
    /\ Retire({s \in EngineSessions : refs[s] = 0 /\ \E p \in Profiles : cached[p] = s})
    /\ UNCHANGED <<configVars, refs, doomed, nextSession, version, shutSessions, callerVars>>

\* Close empties the cache.
CloseManager ==
    /\ ~closed
    /\ closed' = TRUE
    /\ cached' = [p \in Profiles |-> None]
    /\ doomed' = doomed \cup {s \in EngineSessions : \E p \in Profiles : cached[p] = s}
    /\ Retire({s \in EngineSessions : refs[s] = 0 /\ \E p \in Profiles : cached[p] = s})
    /\ UNCHANGED <<configVars, refs, nextSession, version, shutSessions, callerVars>>

\* evictIdle: some of the sessions nobody holds have not been used for idleTTL.
EvictIdle ==
    \E idle \in SUBSET {p \in Profiles : cached[p] # None} \ {{}} :
        /\ \A p \in idle : refs[cached[p]] = 0
        /\ cached' = [p \in Profiles |-> IF p \in idle THEN None ELSE cached[p]]
        /\ Retire({cached[p] : p \in idle})
        /\ UNCHANGED <<configVars, refs, doomed, closed, nextSession, version, shutSessions,
                       callerVars>>

\* Whoever decided to close a session does so.
CloseSession(s) ==
    /\ closes[s] > 0
    /\ s \notin shutSessions
    /\ shutSessions' = shutSessions \cup {s}
    /\ UNCHANGED <<configVars, cacheVars, nextSession, version, closes, callerVars>>

-----------------------------------------------------------------------------
Connecting(c) == Resolve(c) \/ Open(c) \/ AcquireFails(c)
Inserting(c)  == InsertClosed(c) \/ InsertTheirs(c) \/ InsertMine(c)

ManagerNext == \/ \E c \in Callers : \/ AcquireCached(c) \/ AcquireMiss(c)
                                     \/ Connecting(c) \/ Inserting(c)
                                     \/ Release(c) \/ Forget(c) \/ PingFails(c)
               \/ \E p \in Profiles : Edit(p) \/ InvalidateEdited(p)
               \/ CloseManager \/ EvictIdle
               \/ \E s \in EngineSessions : CloseSession(s)

ManagerSpec == ManagerInit /\ [][ManagerNext]_managerVars

\* A driver's Open returns, callers release what they hold, and a goroutine
\* that is to close a session runs.
ManagerFairness ==
    /\ \A c \in Callers : /\ WF_managerVars(Connecting(c))
                          /\ WF_managerVars(Inserting(c))
                          /\ WF_managerVars(Release(c))
    /\ \A s \in EngineSessions : WF_managerVars(CloseSession(s))

-----------------------------------------------------------------------------
Opened  == 1..nextSession - 1
Holders(s) == {c \in Callers : at[c] = "using" /\ sess[c] = s}

\* The reference count is the number of callers that were given the session and
\* have not released it, over all paths of Acquire and of the release function.
RefsCountHolders == \A s \in EngineSessions : refs[s] = Cardinality(Holders(s))

\* "The session must not be closed" under its user: what a caller holds is
\* neither closed nor about to be, whatever Invalidate, Close and the reaper do.
NoUseAfterClose == \A c \in Callers : at[c] = "using" => closes[sess[c]] = 0

\* "The manager owns its lifecycle": no session is closed twice, by two of the
\* goroutines that may close one.
ClosedOnce == \A s \in EngineSessions : closes[s] <= 1

\* No session is lost open: each one is cached, held, in the hands of the caller
\* that opened it, or on its way to be closed.
NothingLeaks ==
    \A s \in Opened : \/ closes[s] > 0
                      \/ \E p \in Profiles : cached[p] = s
                      \/ \E c \in Callers : at[c] \in {"insert", "using"} /\ sess[c] = s

\* "Caches one live Session per profile": a caller that has a session which was not
\* invalidated shares it with all others that ask for the profile.
OneLiveSession ==
    \A c \in Callers : at[c] = "using" /\ sess[c] \notin doomed =>
        cached[want[c]] = sess[c]

\* A session that was invalidated is closed in the end ("closed once the last
\* holder releases it").
InvalidatedIsClosed == \A s \in EngineSessions : s \in doomed ~> s \in shutSessions

\* After Close every session that was opened is closed in the end, those whose
\* Open was still under way included.
ShutdownClosesAll == closed ~> [](Opened \subseteq shutSessions)

\* SwitchTenant: "the cached session is invalidated so the next query reconnects
\* and re-runs SET/set_config under the new tenant".  Not when an Acquire that is
\* under way caches what it opened before (README, section 6).
FreshAfterInvalidate ==
    \A c \in Callers : at[c] = "using" => version[sess[c]] >= since[c]

\* A session is closed at the right moment, whoever of the release function,
\* Invalidate, the reaper and Close decides it: not under a user, and once.
ClosedRightly == NoUseAfterClose /\ ClosedOnce

\* And it is closed at all, when it was invalidated or the manager is closed.
ClosedInTheEnd == InvalidatedIsClosed /\ ShutdownClosesAll
=============================================================================
