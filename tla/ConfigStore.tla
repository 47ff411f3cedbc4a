---------------------------- MODULE ConfigStore ----------------------------
(***************************************************************************)
(* The settings file config.json and the system keyring beside it          *)
(* (src/internal/config, src/internal/secrets), as the command line, the   *)
(* terminal interface and the desktop application use them.                *)
(*                                                                         *)
(* An operation of a task loads the file, puts the keyring's secrets back  *)
(* into the connections, edits the copy, moves the secrets into the        *)
(* keyring again and rewrites the file in place.  Nothing locks the file:  *)
(* tasks of one process (goroutines of the desktop application) and of     *)
(* several processes interleave between any two of these steps.  A         *)
(* process keeps every secret it has seen in a cache of its own.           *)
(*                                                                         *)
(* A connection string is abstracted to the secrets in it: Kinds holds     *)
(* the URI password, the SSH password and the SSH key, or some of them.    *)
(* Set, Get and Delete of the package secrets are single steps.            *)
(***************************************************************************)
EXTENDS Naturals, FiniteSets

CONSTANTS Procs,       \* processes of the tool
          Desktop,     \* those that run the desktop application
          Tasks,       \* concurrent callers
          ProcOf,      \* the process each caller belongs to
          Names,       \* connection names
          Kinds,       \* the secrets a connection may carry
          Values,      \* passwords and keys
          NoValue,     \* no secret
          NoConn,      \* no such connection
          Profiles,    \* what a user may save under a name
          LegacyConns, \* connections of the directory of the old product name
          MaxOps,      \* bound: operations started
          MaxFaults    \* bound: keyring and disk faults, crashes

ASSUME ProcsAssumption == ProcOf \in [Tasks -> Procs] /\ Desktop \subseteq Procs

VARIABLES
  dirExists,  \* the settings directory is there
  legacy,     \* the directory of the old product name is there
  fileState,  \* of config.json
  file,       \* its content, when fileState = "ok"
  keyring,    \* the system keyring
  avail,      \* avail[p]: the keyring probe of process p succeeded
  cache,      \* cache[p]: secrets process p has stored or read
  pc,         \* where each task is
  op,         \* what it does
  cfg,        \* the copy of the settings it works on
  todo,       \* keyring entries it still has to delete or store
  ops, faults,
  \* History
  intended,   \* the connections the successful operations add up to
  troubles,   \* what has happened that excuses a wrong result
  refused,    \* secrets the keyring did not take (or was never offered)
  deleted,    \* keyring entries removals have deleted
  abandoned   \* entries whose connection was saved again without them, or which
              \* the keyring kept when the connection was removed

store   == <<dirExists, legacy, fileState, file, keyring, avail, cache>>
history == <<intended, troubles, refused, deleted, abandoned>>
vars    == <<store, pc, op, cfg, todo, ops, faults, history>>

Keys == Kinds \X Names

Secrets == [Kinds -> Values \cup {NoValue}]
Tenants == {"none", "t1"}
Profile == [secret : Secrets, multi : BOOLEAN]
Conn    == [secret : Secrets, ref : [Kinds -> BOOLEAN],
            multi : BOOLEAN, tenant : Tenants]
Config  == [conns : [Names -> Conn \cup {NoConn}], ai : BOOLEAN, choice : BOOLEAN]

\* What the user knows of a connection.
Wanted  == [secret : Secrets, multi : BOOLEAN, tenant : Tenants]

ASSUME ConnAssumption ==
  /\ NoConn \notin Conn \cup Wanted
  /\ Profiles \subseteq Profile
  /\ \A n \in DOMAIN LegacyConns : LegacyConns[n] \in Profile

Operations ==
  [kind : {"add"}, name : Names, profile : Profiles]
    \cup [kind : {"remove"}, name : Names]
    \cup [kind : {"tenant"}, name : Names, tenant : Tenants]
    \cup [kind : {"ai"}, key : BOOLEAN]
    \cup [kind : {"launcher", "migrate", "read"}]

EmptyConfig == [conns |-> [n \in Names |-> NoConn], ai |-> FALSE, choice |-> FALSE]

\* Mutant: a connection claims its keyring entries before they exist.
NewConn_RefFirst(profile, tenant) ==
  [secret |-> profile.secret, ref |-> [k \in Kinds |-> TRUE],
   multi |-> profile.multi, tenant |-> tenant]

NewConn(profile, tenant) ==
  [secret |-> profile.secret, ref |-> [k \in Kinds |-> FALSE],
   multi |-> profile.multi, tenant |-> tenant]

LegacyConfig ==
  [EmptyConfig EXCEPT !.conns =
     [n \in Names |-> IF n \in DOMAIN LegacyConns
                        THEN NewConn(LegacyConns[n], "none") ELSE NoConn]]

\* The secrets and keyring references of a connection table.
SecretOf(conns, k) == IF conns[k[2]] = NoConn THEN NoValue ELSE conns[k[2]].secret[k[1]]
RefOf(conns, k)    == conns[k[2]] # NoConn /\ conns[k[2]].ref[k[1]]
WithSecrets(conns) == {k \in Keys : SecretOf(conns, k) # NoValue}

Fault == faults < MaxFaults /\ faults' = faults + 1

-----------------------------------------------------------------------------
(* One operation, step by step.                                            *)

Writer(t)  == pc[t] # "idle" /\ op[t].kind # "read"
Opening(t) == pc[t] \in {"dir", "copy", "copy_file", "copy_data"}

Overlap(t, o) ==
  \E u \in Tasks \ {t} :
     \/ Writer(u) /\ (o.kind # "read" \/ ~dirExists)
     \/ Opening(u)

Goto(t, l) == pc' = [pc EXCEPT ![t] = l]

\* A command or the terminal interface starts an operation, a binding of the
\* desktop application is called, or that application starts and migrates the
\* passwords (only with a keyring).
Start(t) ==
  /\ pc[t] = "idle" /\ ops < MaxOps
  /\ \E o \in Operations :
       /\ IF ProcOf[t] \in Desktop
            THEN /\ o.kind # "launcher"
                 /\ o.kind = "migrate" => avail[ProcOf[t]]
            ELSE o.kind \notin {"tenant", "ai", "migrate"}
       /\ op' = [op EXCEPT ![t] = o]
       /\ troubles' = troubles \cup IF Overlap(t, o) THEN {"overlap"} ELSE {}
  /\ ops' = ops + 1
  /\ Goto(t, IF dirExists THEN "load" ELSE "dir")
  /\ UNCHANGED <<store, cfg, todo, faults, intended, refused, deleted, abandoned>>

\* The operation ends, and its copy is gone; an error leaves what its
\* earlier steps did.
End(t) ==
  /\ Goto(t, "idle")
  /\ op' = [op EXCEPT ![t] = [kind |-> "read"]]
  /\ cfg' = [cfg EXCEPT ![t] = EmptyConfig]

\* config.Dir: with no directory yet, the old product's is copied.  (Start
\* has passed this step when the directory is there.)
Dir(t) ==
  /\ pc[t] = "dir"
  /\ \/ /\ dirExists \/ ~legacy
        /\ dirExists' = TRUE
        /\ Goto(t, "load")
     \/ ~dirExists /\ legacy /\ Goto(t, "copy") /\ UNCHANGED dirExists
  /\ UNCHANGED <<legacy, fileState, file, keyring, avail, cache,
                 op, cfg, todo, ops, faults, history>>

\* migrateLegacyDir: the directory first, then the file, which must be new,
\* then its content.  The copy reaches config.json after the archives.
MigrateDir(t) ==
  /\ \/ /\ pc[t] = "copy" /\ Goto(t, "copy_file")
        /\ dirExists' = TRUE
        /\ UNCHANGED <<fileState, file, refused, op, cfg>>
     \/ /\ pc[t] = "copy_file" /\ fileState = "missing" /\ Goto(t, "copy_data")
        /\ fileState' = "empty"
        /\ UNCHANGED <<dirExists, file, refused, op, cfg>>
     \/ /\ pc[t] = "copy_file" /\ fileState # "missing" /\ End(t)
        /\ UNCHANGED <<dirExists, fileState, file, refused>>
     \/ /\ pc[t] = "copy_data" /\ Goto(t, "load")
        /\ fileState' = "ok" /\ file' = LegacyConfig
        /\ refused' = refused \cup WithSecrets(LegacyConfig.conns)
        /\ UNCHANGED <<dirExists, op, cfg>>
  /\ UNCHANGED <<legacy, keyring, avail, cache, todo, ops, faults,
                 intended, troubles, deleted, abandoned>>

\* Load: a missing file is an empty configuration, one that does not parse
\* is an error.
Load(t) ==
  /\ pc[t] = "load"
  /\ \/ /\ fileState \in {"missing", "ok"}
        /\ cfg' = [cfg EXCEPT ![t] = IF fileState = "ok" THEN file ELSE EmptyConfig]
        /\ Goto(t, "resolve")
        /\ UNCHANGED op
     \/ fileState \in {"empty", "garbled"} /\ End(t)
  /\ UNCHANGED <<store, todo, ops, faults, history>>

\* secrets.Get: the cache first, then the keyring.
Got(p, k) == IF cache[p][k] # NoValue THEN cache[p][k]
             ELSE IF avail[p] THEN keyring[k] ELSE NoValue

\* resolveCredentials: every secret that is found replaces what the file says;
\* one that is not leaves the connection string without it.
Resolved(p, conns) ==
  [n \in Names |->
     IF conns[n] = NoConn THEN NoConn
     ELSE [conns[n] EXCEPT !.secret =
             [kd \in Kinds |->
                IF conns[n].ref[kd] /\ Got(p, <<kd, n>>) # NoValue
                  THEN Got(p, <<kd, n>>) ELSE conns[n].secret[kd]]]]

Resolve(t) ==
  LET p    == ProcOf[t]
      refs == {k \in Keys : RefOf(cfg[t].conns, k)}
  IN /\ pc[t] = "resolve"
     /\ cache' = [cache EXCEPT ![p] =
                    [k \in Keys |-> IF k \in refs THEN Got(p, k) ELSE @[k]]]
     /\ troubles' = troubles \cup
          IF \E k \in refs : cache[p][k] \notin {NoValue, keyring[k]}
            THEN {"stale-cache"} ELSE {}
     /\ IF op[t].kind = "read" THEN End(t)
        ELSE /\ cfg' = [cfg EXCEPT ![t].conns = Resolved(p, @)]
             /\ Goto(t, "apply")
             /\ UNCHANGED op
     /\ UNCHANGED <<dirExists, legacy, fileState, file, keyring, avail,
                    todo, ops, faults, intended, refused, deleted, abandoned>>

-----------------------------------------------------------------------------
(* The edits, and the start of Save.                                       *)

Applying(t, kind) == pc[t] = "apply" /\ op[t].kind = kind

\* stripCredentials starts from a new Config that holds the connections
\* only, and keeps every secret where it is without a keyring.
StripCredentials(t, edited, without) ==
  LET held == WithSecrets(edited.conns)
      here == avail[ProcOf[t]]
  IN /\ cfg' = [cfg EXCEPT ![t] = [EmptyConfig EXCEPT !.conns = edited.conns]]
     /\ todo' = [todo EXCEPT ![t] = IF here THEN held ELSE {}]
     /\ refused' = refused \cup IF here THEN {} ELSE held
     /\ abandoned' = abandoned \cup without \cup IF here THEN {} ELSE held
     /\ Goto(t, "strip")
     /\ UNCHANGED <<store, op, ops, faults, intended, troubles, deleted>>

\* The operation ends without a Save.
NoSave(t) ==
  End(t) /\ UNCHANGED <<store, todo, ops, faults, history>>

\* Mutant: the tenant is not carried over.
Upsert_ForgetsTenant(conns, n, profile) == [conns EXCEPT ![n] = NewConn(profile, "none")]

\* Mutant: the tenant is carried over as an empty string.
Upsert_EmptyTenant(conns, n, profile) == [conns EXCEPT ![n] = NewConn(profile, "")]

\* connection add and AddConnection: a connection of that name is replaced,
\* its tenant kept.
Upsert(conns, n, profile) ==
  [conns EXCEPT ![n] =
     NewConn(profile, IF conns[n] = NoConn THEN "none" ELSE conns[n].tenant)]

AddConnection(t) ==
  /\ Applying(t, "add")
  /\ StripCredentials(t,
       [cfg[t] EXCEPT !.conns = Upsert(@, op[t].name, op[t].profile)],
       {<<kd, op[t].name>> : kd \in {x \in Kinds : op[t].profile.secret[x] = NoValue}})

\* Mutant: a removal leaves the keyring alone.
DeleteCredential_Nothing(conns, n) == {}

\* connection remove and RemoveConnection: the keyring entries go first.
DeleteCredential(conns, n) == {k \in Keys : k[2] = n /\ RefOf(conns, k)}

RemoveConnection(t) ==
  /\ Applying(t, "remove")
  /\ \/ /\ cfg[t].conns[op[t].name] # NoConn
        /\ todo' = [todo EXCEPT ![t] = DeleteCredential(cfg[t].conns, op[t].name)]
        /\ Goto(t, "delete")
        /\ UNCHANGED <<store, op, cfg, ops, faults, history>>
     \/ cfg[t].conns[op[t].name] = NoConn /\ NoSave(t)

\* secrets.Delete, once per reference.  A keyring that refuses, or is not there,
\* keeps the entry, and the removal goes on: the error is ignored.
DeleteSecret(t) ==
  LET k == CHOOSE x \in todo[t] : TRUE
      p == ProcOf[t]
  IN /\ pc[t] = "delete" /\ todo[t] # {}
     /\ cache' = [cache EXCEPT ![p][k] = NoValue]
     /\ \/ /\ avail[p]
           /\ keyring' = [keyring EXCEPT ![k] = NoValue]
           /\ deleted' = deleted \cup {k}
           /\ UNCHANGED <<faults, abandoned>>
        \/ /\ IF avail[p] THEN Fault ELSE UNCHANGED faults
           /\ abandoned' = abandoned \cup {k}
           /\ UNCHANGED <<keyring, deleted>>
     /\ todo' = [todo EXCEPT ![t] = @ \ {k}]
     /\ UNCHANGED <<dirExists, legacy, fileState, file, avail, pc, op, cfg, ops,
                    intended, troubles, refused>>

SecretsDeleted(t) ==
  /\ pc[t] = "delete" /\ todo[t] = {}
  /\ StripCredentials(t, [cfg[t] EXCEPT !.conns[op[t].name] = NoConn], {})

\* SwitchTenant: only for a connection with a tenant session variable.
SwitchTenant(t) ==
  LET n == op[t].name
      known == cfg[t].conns[n] # NoConn /\ cfg[t].conns[n].multi
  IN /\ Applying(t, "tenant")
     /\ \/ known /\ StripCredentials(t, [cfg[t] EXCEPT !.conns[n].tenant = op[t].tenant], {})
        \/ ~known /\ NoSave(t)

\* SaveAISettings: a new API key goes to the keyring, and only that can fail;
\* the key itself, which no connection uses, is not kept here.
SaveAISettings(t) ==
  /\ Applying(t, "ai")
  /\ \/ /\ op[t].key => avail[ProcOf[t]]
        /\ StripCredentials(t, [cfg[t] EXCEPT !.ai = TRUE], {})
     \/ op[t].key /\ ~avail[ProcOf[t]] /\ NoSave(t)

\* The terminal interface records the choice of the first start.
ChooseLauncher(t) ==
  /\ Applying(t, "launcher")
  /\ StripCredentials(t, [cfg[t] EXCEPT !.choice = TRUE], {})

\* MigrateCredentials saves only when a secret is still in the file.
NeedsMigration(conns) == {k \in WithSecrets(conns) : ~RefOf(conns, k)}

MigrateCredentials(t) ==
  /\ Applying(t, "migrate")
  /\ IF NeedsMigration(cfg[t].conns) # {}
       THEN StripCredentials(t, cfg[t], {}) ELSE NoSave(t)

-----------------------------------------------------------------------------
(* The rest of Save.                                                       *)

\* Mutant: the secret is stored but stays in the URI.
Stripped_CopyOnly(conns, k) == [conns EXCEPT ![k[2]].ref[k[1]] = TRUE]

Stripped(conns, k) ==
  [conns EXCEPT ![k[2]].secret[k[1]] = NoValue, ![k[2]].ref[k[1]] = TRUE]

\* setSecretVerified: the entry is written and read back, the read answered
\* by the cache the write has just filled.  A keyring that refuses leaves the
\* secret in the file; one that drops the write silently is believed.
StoreSecret(t) ==
  /\ pc[t] = "strip" /\ todo[t] # {}
  /\ LET k == CHOOSE x \in todo[t] : TRUE
         p == ProcOf[t]
         v == SecretOf(cfg[t].conns, k)
     IN /\ todo' = [todo EXCEPT ![t] = @ \ {k}]
        /\ \/ /\ keyring' = [keyring EXCEPT ![k] = v]
              /\ cache' = [cache EXCEPT ![p][k] = v]
              /\ cfg' = [cfg EXCEPT ![t].conns = Stripped(@, k)]
              /\ UNCHANGED <<faults, troubles, refused, abandoned>>
           \/ /\ Fault
              /\ refused' = refused \cup {k}
              /\ abandoned' = abandoned \cup {k}
              /\ UNCHANGED <<keyring, cache, cfg, troubles>>
           \/ /\ Fault
              /\ cache' = [cache EXCEPT ![p][k] = v]
              /\ cfg' = [cfg EXCEPT ![t].conns = Stripped(@, k)]
              /\ troubles' = troubles \cup {"dropped"}
              /\ UNCHANGED <<keyring, refused, abandoned>>
  /\ UNCHANGED <<dirExists, legacy, fileState, file, avail, pc, op, ops, intended, deleted>>

\* Mutant: the file is opened without truncation.
Truncate_Appends(t) ==
  /\ pc[t] = "strip" /\ todo[t] = {}
  /\ Goto(t, "write")
  /\ UNCHANGED <<dirExists, legacy, fileState, file, keyring, avail, cache,
                 op, cfg, todo, ops, faults, history>>

\* os.WriteFile truncates the file, then writes it.
Truncate(t) ==
  /\ pc[t] = "strip" /\ todo[t] = {}
  /\ fileState' = "empty" /\ file' = EmptyConfig
  /\ Goto(t, "write")
  /\ UNCHANGED <<dirExists, legacy, keyring, avail, cache,
                 op, cfg, todo, ops, faults, history>>

\* What the operation promises its user once it has returned.
Promised(o) ==
  CASE o.kind = "add" ->
         [intended EXCEPT ![o.name] =
            [secret |-> o.profile.secret, multi |-> o.profile.multi,
             tenant |-> IF @ = NoConn THEN "none" ELSE @.tenant]]
    [] o.kind = "remove" -> [intended EXCEPT ![o.name] = NoConn]
    [] o.kind = "tenant" ->
         [intended EXCEPT ![o.name] = IF @ = NoConn THEN @ ELSE [@ EXCEPT !.tenant = o.tenant]]
    [] OTHER -> intended

\* A writer that finds bytes of another one after its own truncation may
\* leave a mixture.
Write(t) ==
  /\ pc[t] = "write"
  /\ \/ /\ fileState' = "ok" /\ file' = cfg[t]
     \/ /\ fileState # "empty" /\ fileState' = "garbled" /\ file' = EmptyConfig
  /\ intended' = Promised(op[t])
  /\ End(t)
  /\ UNCHANGED <<dirExists, legacy, keyring, avail, cache, todo, ops, faults, troubles, refused, deleted, abandoned>>

\* A full disk: the file stays truncated and the operation reports an error.
WriteFails(t) ==
  /\ pc[t] = "write" /\ Fault
  /\ troubles' = troubles \cup {"failed"}
  /\ End(t)
  /\ UNCHANGED <<store, todo, ops, intended, refused, deleted, abandoned>>

\* A process ends: its cache is gone, and what its tasks were doing stays
\* as it is.
Exit(p) ==
  LET mine == {t \in Tasks : ProcOf[t] = p}
      cut  == {t \in mine : Writer(t) \/ Opening(t)}
  IN /\ cut # {} \/ \E k \in Keys : cache[p][k] # NoValue
     /\ IF cut # {} THEN Fault ELSE UNCHANGED faults
     /\ cache' = [cache EXCEPT ![p] = [k \in Keys |-> NoValue]]
     /\ pc' = [t \in Tasks |-> IF t \in mine THEN "idle" ELSE pc[t]]
     /\ op' = [t \in Tasks |-> IF t \in mine THEN [kind |-> "read"] ELSE op[t]]
     /\ cfg' = [t \in Tasks |-> IF t \in mine THEN EmptyConfig ELSE cfg[t]]
     /\ todo' = [t \in Tasks |-> IF t \in mine THEN {} ELSE todo[t]]
     /\ troubles' = IF cut # {} THEN troubles \cup {"crash"} ELSE troubles
     /\ UNCHANGED <<dirExists, legacy, fileState, file, keyring, avail, ops, intended, refused, deleted, abandoned>>

-----------------------------------------------------------------------------
IntendedOf(conns) ==
  [n \in Names |-> IF conns[n] = NoConn THEN NoConn
                   ELSE [secret |-> conns[n].secret, multi |-> conns[n].multi,
                         tenant |-> conns[n].tenant]]

Init ==
  /\ dirExists = FALSE /\ legacy \in BOOLEAN
  /\ fileState = "missing" /\ file = EmptyConfig
  /\ keyring = [k \in Keys |-> NoValue]
  /\ avail \in [Procs -> BOOLEAN]
  /\ cache = [p \in Procs |-> [k \in Keys |-> NoValue]]
  /\ pc = [t \in Tasks |-> "idle"]
  /\ op = [t \in Tasks |-> [kind |-> "read"]]
  /\ cfg = [t \in Tasks |-> EmptyConfig]
  /\ todo = [t \in Tasks |-> {}]
  /\ ops = 0 /\ faults = 0
  /\ intended = IntendedOf((IF legacy THEN LegacyConfig ELSE EmptyConfig).conns)
  /\ troubles = {} /\ refused = {} /\ deleted = {} /\ abandoned = {}

Step(t) ==
  \/ Dir(t) \/ MigrateDir(t) \/ Load(t) \/ Resolve(t)
  \/ AddConnection(t) \/ RemoveConnection(t) \/ DeleteSecret(t) \/ SecretsDeleted(t)
  \/ SwitchTenant(t) \/ SaveAISettings(t) \/ ChooseLauncher(t)
  \/ MigrateCredentials(t)
  \/ StoreSecret(t) \/ Truncate(t) \/ Write(t)

Next ==
  \/ \E t \in Tasks : Start(t) \/ Step(t) \/ WriteFails(t)
  \/ \E p \in Procs : Exit(p)

Spec == Init /\ [][Next]_vars

-----------------------------------------------------------------------------
TypeOK ==
  /\ dirExists \in BOOLEAN /\ legacy \in BOOLEAN
  /\ fileState \in {"missing", "empty", "garbled", "ok"}
  /\ file \in Config
  /\ keyring \in [Keys -> Values \cup {NoValue}]
  /\ avail \in [Procs -> BOOLEAN]
  /\ cache \in [Procs -> [Keys -> Values \cup {NoValue}]]
  /\ pc \in [Tasks -> {"idle", "dir", "copy", "copy_file", "copy_data", "load",
                       "resolve", "apply", "delete", "strip", "write"}]
  /\ \A t \in Tasks : op[t] \in Operations
  /\ cfg \in [Tasks -> Config]
  /\ todo \in [Tasks -> SUBSET Keys]

Quiet == \A t \in Tasks : ~Writer(t) /\ ~Opening(t)

\* What a new process with a keyring makes of the file.
Seen ==
  IF fileState # "ok" THEN IntendedOf(EmptyConfig.conns)
  ELSE [n \in Names |->
          IF file.conns[n] = NoConn THEN NoConn
          ELSE [secret |-> [kd \in Kinds |->
                              IF file.conns[n].ref[kd] /\ keyring[<<kd, n>>] # NoValue
                                THEN keyring[<<kd, n>>] ELSE file.conns[n].secret[kd]],
                multi  |-> file.conns[n].multi,
                tenant |-> file.conns[n].tenant]]

\* Edits are kept (config.go:164-181, credentials.go:63-135): after operations
\* that did not overlap, were not cut short, and did not read a secret another
\* process had replaced from a cache, the file and the keyring together give
\* exactly the connections, tenants and secrets the operations add up to,
\* whichever of them ran with a keyring and whatever the keyring refused to
\* store or to delete.
EditsSurvive == Quiet /\ troubles = {} /\ (dirExists \/ ~legacy) => Seen = intended

\* A connection whose secret is neither in the file nor in the keyring
\* (credentials.go:63-66) comes from a removal, still running or overlapped or
\* cut short, that deleted the entry before the file was rewritten, or from a
\* keyring that dropped a write; adding, switching, migrating and reading in
\* any interleaving, with any crash, lose no secret.
LostSecretsExplained ==
  fileState = "ok" =>
    \A k \in Keys :
      RefOf(file.conns, k) /\ SecretOf(file.conns, k) = NoValue /\ keyring[k] = NoValue =>
        \/ "dropped" \in troubles
        \/ /\ k \in deleted
           /\ \/ \E t \in Tasks : Writer(t) /\ op[t].kind = "remove" /\ op[t].name = k[2]
              \/ troubles \cap {"overlap", "crash", "failed"} # {}

\* "so no orphaned secrets accumulate" (credentials.go:137-138): with nothing
\* interrupted, an entry no connection refers to belongs to a connection that
\* was saved again without that secret, that a process without the keyring
\* removed or saved, or that was removed when the keyring refused to delete the
\* entry, an error the code discards: the comment's promise does not cover it.
OrphansExplained ==
  Quiet /\ troubles = {} =>
    \A k \in Keys :
      keyring[k] # NoValue /\ ~(fileState = "ok" /\ RefOf(file.conns, k)) => k \in abandoned

\* A secret is in the file (credentials.go:84-118) only when the keyring once
\* refused it, the process had none, or it came with the old directory; no
\* interleaving of a migration with the other operations brings it back.
PlaintextExplained ==
  fileState = "ok" => WithSecrets(file.conns) \subseteq refused

\* config.json parses (config.go:170-181) except while a task is writing it,
\* after a crash or a failed write, or after writes that overlapped.
FileReadable ==
  fileState \in {"empty", "garbled"} =>
    \/ \E t \in Tasks : pc[t] \in {"write", "copy_data"}
    \/ troubles \cap {"crash", "failed", "overlap"} # {}

\* "so the interactive chooser only ever appears once per machine"
\* (launcher.go:3-5): a choice that was saved is in the file afterwards.
\* It is not: stripCredentials builds a new Config (README, section 6).
SettingsSurvive ==
  [][\A t \in Tasks : Write(t) /\ fileState' = "ok" /\ op[t].kind = "launcher"
        => file'.choice]_vars

\* Every secret of a connection is in exactly one place, the keyring or the file,
\* and the file can be read, unless one of the named troubles says otherwise.
SecretsAreAccounted ==
  /\ TypeOK
  /\ LostSecretsExplained /\ OrphansExplained /\ PlaintextExplained
  /\ FileReadable
=============================================================================
