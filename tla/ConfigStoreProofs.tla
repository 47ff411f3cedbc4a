------------------------- MODULE ConfigStoreProofs -------------------------
(***************************************************************************)
(* Proofs about the settings file and the keyring (ConfigStore).           *)
(*                                                                         *)
(* The inductive invariant has one part for each thing a run of the tool   *)
(* must not lose: Shape (types, and what a task may have in hand),         *)
(* PlainInv (secrets in clear), PlaceInv (the directory, the file and who  *)
(* may be where without an overlap), LostInv (references to nothing),      *)
(* OrphanInv (entries without a reference) and EditInv (the connections,   *)
(* as their user sees them).  Every step is first reduced to what it does  *)
(* to one task and to the store (Starts ... Exits, StepIsKnown); the parts *)
(* are then shown to hold after each of these.                             *)
(***************************************************************************)
EXTENDS ConfigStore, TLAPS

Conns  == [Names -> Conn \cup {NoConn}]
Labels == {"idle", "dir", "copy", "copy_file", "copy_data", "load", "resolve", "apply",
           "delete", "strip", "write"}

\* Types.
DataInv ==
  /\ dirExists \in BOOLEAN /\ legacy \in BOOLEAN
  /\ fileState \in {"missing", "empty", "garbled", "ok"}
  /\ file \in Config
  /\ keyring \in [Keys -> Values \cup {NoValue}]
  /\ avail \in [Procs -> BOOLEAN]
  /\ cache \in [Procs -> [Keys -> Values \cup {NoValue}]]
  /\ intended \in [Names -> Wanted \cup {NoConn}]

\* What a task at a label may have in hand.
TaskOK(l, o, c, d) ==
  /\ l \in Labels /\ o \in Operations /\ c \in Config /\ d \subseteq Keys
  /\ l \in {"apply", "delete", "strip", "write"} => o.kind # "read"
  /\ l = "delete" => /\ o.kind = "remove" /\ c.conns[o.name] # NoConn
                     /\ \A k \in d : k[2] = o.name
  /\ l = "strip" => d \subseteq WithSecrets(c.conns)

TaskInv ==
  /\ pc = [t \in Tasks |-> pc[t]] /\ op = [t \in Tasks |-> op[t]]
  /\ cfg = [t \in Tasks |-> cfg[t]] /\ todo = [t \in Tasks |-> todo[t]]
  /\ \A t \in Tasks : TaskOK(pc[t], op[t], cfg[t], todo[t])

Shape == DataInv /\ TaskInv

\* Secrets in clear are those the keyring did not take.
PlainInv ==
  /\ fileState = "ok" => WithSecrets(file.conns) \subseteq refused
  /\ \A t \in Tasks :
       /\ pc[t] = "strip" => WithSecrets(cfg[t].conns) \subseteq refused \cup todo[t]
       /\ pc[t] = "write" => WithSecrets(cfg[t].conns) \subseteq refused

\* Where the directory and the file are.
PlaceInv ==
  /\ ~dirExists => fileState = "missing" /\ \A t \in Tasks : pc[t] \in {"idle", "dir", "copy"}
  /\ \A t \in Tasks : pc[t] \in {"copy", "copy_file", "copy_data"} => legacy
  /\ fileState = "empty" =>
       \/ \E t \in Tasks : pc[t] \in {"write", "copy_data"}
       \/ troubles \cap {"crash", "failed", "overlap"} # {}
  /\ "overlap" \notin troubles =>
       /\ \A t, u \in Tasks : Writer(t) /\ Writer(u) => t = u
       /\ \A t, u \in Tasks : Opening(t) /\ pc[u] # "idle" => t = u
       /\ fileState # "garbled"
       /\ \A t \in Tasks :
            /\ pc[t] = "write" => fileState = "empty"
            /\ pc[t] \in {"dir", "copy"} => ~dirExists
            /\ pc[t] = "copy_file" => dirExists /\ fileState = "missing"
            /\ pc[t] = "copy_data" => dirExists /\ fileState = "empty"

\* A reference to nothing.
Lost(kr, conns, k) == RefOf(conns, k) /\ SecretOf(conns, k) = NoValue /\ kr[k] = NoValue
Calm == troubles \cap {"overlap", "crash", "failed"} = {}
Holds(t) == pc[t] \in {"resolve", "apply", "delete", "strip", "write"} /\ op[t].kind # "read"
Late(t) == pc[t] \in {"delete", "strip", "write"}

\* It is what a removal has deleted; in a calm history that removal is still running,
\* and has not begun to save.
LostInFile(k) ==
  k \in deleted /\ (Calm => \E t \in Tasks : Late(t) /\ op[t].kind = "remove" /\ op[t].name = k[2])
LostInCopy(t, k) ==
  k \in deleted /\ (Calm => pc[t] = "delete" /\ op[t].name = k[2])

LostInv ==
  "dropped" \notin troubles =>
    /\ fileState = "ok" => \A k \in Keys : Lost(keyring, file.conns, k) => LostInFile(k)
    /\ \A t \in Tasks, k \in Keys :
         Holds(t) /\ Lost(keyring, cfg[t].conns, k) => LostInCopy(t, k)

Pure == troubles = {}
Current == IF fileState = "ok" THEN file.conns ELSE EmptyConfig.conns

\* An entry of the keyring has its reference, in the file or in the copy that is
\* about to become the file, or will be deleted or stored.
Referenced(t, k) ==
  /\ pc[t] \in {"resolve", "apply", "write"} => RefOf(cfg[t].conns, k)
  /\ pc[t] = "delete" => IF k[2] = op[t].name THEN k \in todo[t] ELSE RefOf(cfg[t].conns, k)
  /\ pc[t] = "strip" => RefOf(cfg[t].conns, k) \/ k \in todo[t]

OrphanInv ==
  Pure => \A k \in Keys : keyring[k] # NoValue /\ k \notin abandoned =>
    /\ (\A t \in Tasks : ~Late(t)) => RefOf(Current, k)
    /\ \A t \in Tasks : op[t].kind # "read" => Referenced(t, k)

\* A connection, with what the keyring has for it, is what its user wants.
MatchesAt(kr, conns, want, n) ==
  IF conns[n] = NoConn THEN want = NoConn
  ELSE /\ want # NoConn
       /\ want.multi = conns[n].multi /\ want.tenant = conns[n].tenant
       /\ \A kd \in Kinds :
            want.secret[kd] = IF conns[n].ref[kd] /\ kr[<<kd, n>>] # NoValue
                                THEN kr[<<kd, n>>] ELSE conns[n].secret[kd]
Matches(kr, conns, want) == \A n \in Names : MatchesAt(kr, conns, want[n], n)

\* A secret in a copy is the one its entry has.
Fresh(kr, conns, k) == RefOf(conns, k) /\ kr[k] # NoValue => SecretOf(conns, k) = kr[k]

\* The directory of the old product has not been copied yet.
Pending == legacy /\ (~dirExists \/ \E t \in Tasks : pc[t] \in {"copy_file", "copy_data"})

\* The file, or the copy of an edit, is what its user wants.
RightCopy(t) ==
  /\ pc[t] \in {"resolve", "apply"} => Matches(keyring, cfg[t].conns, intended)
  /\ pc[t] = "apply" /\ avail[ProcOf[t]] => \A k \in Keys : Fresh(keyring, cfg[t].conns, k)
  /\ pc[t] = "delete" =>
       \A n \in Names : n # op[t].name => MatchesAt(keyring, cfg[t].conns, intended[n], n)
  /\ pc[t] = "delete" /\ avail[ProcOf[t]] =>
       \A k \in Keys : k[2] # op[t].name => Fresh(keyring, cfg[t].conns, k)
  /\ pc[t] \in {"strip", "write"} => Matches(keyring, cfg[t].conns, Promised(op[t]))
  /\ pc[t] = "strip" => \A k \in todo[t] : Fresh(keyring, cfg[t].conns, k)

Right ==
  /\ Pending => intended = IntendedOf(LegacyConfig.conns)
  /\ ~Pending /\ (\A t \in Tasks : ~Late(t)) => Matches(keyring, Current, intended)
  /\ \A t \in Tasks : op[t].kind # "read" => RightCopy(t)

EditInv == Pure => Right
-----------------------------------------------------------------------------
(* Operators.                                                              *)

LEMMA KeyParts ==
    /\ \A k \in Keys : k[1] \in Kinds /\ k[2] \in Names /\ k = <<k[1], k[2]>>
    /\ \A kd \in Kinds, n \in Names :
         <<kd, n>> \in Keys /\ <<kd, n>>[1] = kd /\ <<kd, n>>[2] = n
  BY DEF Keys

LEMMA OperationFields ==
    ASSUME NEW o \in Operations
    PROVE  /\ o.kind \in {"add", "remove", "tenant", "ai", "launcher", "migrate", "read"}
           /\ o.kind = "add" => o.name \in Names /\ o.profile \in Profile
           /\ o.kind = "remove" => o.name \in Names
           /\ o.kind = "tenant" => o.name \in Names /\ o.tenant \in Tenants
  BY ConnAssumption DEF Operations

LEMMA ReadOperation == [kind |-> "read"] \in Operations /\ [kind |-> "read"].kind = "read"
  BY DEF Operations

LEMMA EmptyConfigFields ==
    /\ EmptyConfig \in Config /\ EmptyConfig.conns \in Conns
    /\ \A n \in Names : EmptyConfig.conns[n] = NoConn
    /\ \A k \in Keys : ~RefOf(EmptyConfig.conns, k) /\ SecretOf(EmptyConfig.conns, k) = NoValue
<1>1. EmptyConfig \in Config /\ EmptyConfig.conns \in Conns /\ \A n \in Names : EmptyConfig.conns[n] = NoConn
  BY DEF EmptyConfig, Config, Conns
<1> QED BY <1>1, KeyParts DEF RefOf, SecretOf

LEMMA NewConnFields ==
    ASSUME NEW profile \in Profile, NEW tenant \in Tenants
    PROVE  /\ NewConn(profile, tenant) \in Conn /\ NewConn(profile, tenant) # NoConn
           /\ NewConn(profile, tenant).secret = profile.secret
           /\ NewConn(profile, tenant).multi = profile.multi
           /\ NewConn(profile, tenant).tenant = tenant
           /\ \A kd \in Kinds : ~NewConn(profile, tenant).ref[kd]
<1> DEFINE r == [k \in Kinds |-> FALSE]
<1>1. r \in [Kinds -> BOOLEAN] /\ \A kd \in Kinds : ~r[kd]
  OBVIOUS
<1>2. NewConn(profile, tenant) = [secret |-> profile.secret, ref |-> r,
                                  multi |-> profile.multi, tenant |-> tenant]
  BY DEF NewConn
<1> HIDE DEF r
<1>3. NewConn(profile, tenant) \in Conn
  BY <1>1, <1>2 DEF Profile, Conn
<1>4. NewConn(profile, tenant) # NoConn
  BY <1>3, ConnAssumption
<1>5. /\ NewConn(profile, tenant).secret = profile.secret /\ NewConn(profile, tenant).ref = r
      /\ NewConn(profile, tenant).multi = profile.multi /\ NewConn(profile, tenant).tenant = tenant
  BY <1>2
<1> QED BY <1>1, <1>3, <1>4, <1>5

\* A connection with other secrets, other references, or another tenant.
LEMMA SecretChanges ==
    ASSUME NEW x \in Conn, NEW s \in Secrets
    PROVE  /\ [x EXCEPT !.secret = s] \in Conn /\ [x EXCEPT !.secret = s] # NoConn
           /\ [x EXCEPT !.secret = s].secret = s /\ [x EXCEPT !.secret = s].ref = x.ref
           /\ [x EXCEPT !.secret = s].multi = x.multi /\ [x EXCEPT !.secret = s].tenant = x.tenant
  BY ConnAssumption DEF Conn

LEMMA RefChanges ==
    ASSUME NEW x \in Conn, NEW r \in [Kinds -> BOOLEAN]
    PROVE  /\ [x EXCEPT !.ref = r] \in Conn /\ [x EXCEPT !.ref = r] # NoConn
           /\ [x EXCEPT !.ref = r].secret = x.secret /\ [x EXCEPT !.ref = r].ref = r
           /\ [x EXCEPT !.ref = r].multi = x.multi /\ [x EXCEPT !.ref = r].tenant = x.tenant
  BY ConnAssumption DEF Conn

LEMMA TenantChanges ==
    ASSUME NEW x \in Conn, NEW tn \in Tenants
    PROVE  /\ [x EXCEPT !.tenant = tn] \in Conn /\ [x EXCEPT !.tenant = tn] # NoConn
           /\ [x EXCEPT !.tenant = tn].secret = x.secret /\ [x EXCEPT !.tenant = tn].ref = x.ref
           /\ [x EXCEPT !.tenant = tn].multi = x.multi /\ [x EXCEPT !.tenant = tn].tenant = tn
  BY ConnAssumption DEF Conn

LEMMA LegacyConfigFields ==
    /\ LegacyConfig \in Config /\ LegacyConfig.conns \in Conns
    /\ \A k \in Keys : ~RefOf(LegacyConfig.conns, k)
<1>1. \A n \in DOMAIN LegacyConns : NewConn(LegacyConns[n], "none") \in Conn
  BY NewConnFields, ConnAssumption DEF Tenants
<1>2. LegacyConfig.conns = [n \in Names |-> IF n \in DOMAIN LegacyConns
                                THEN NewConn(LegacyConns[n], "none") ELSE NoConn]
  BY EmptyConfigFields DEF LegacyConfig, EmptyConfig
<1>3. LegacyConfig \in Config /\ LegacyConfig.conns \in Conns
  BY <1>1, <1>2, EmptyConfigFields DEF LegacyConfig, EmptyConfig, Config, Conns
<1>4. ASSUME NEW k \in Keys PROVE ~RefOf(LegacyConfig.conns, k)
  <2>1. CASE k[2] \in DOMAIN LegacyConns
    <3>1. LegacyConfig.conns[k[2]] = NewConn(LegacyConns[k[2]], "none")
      BY <1>2, <2>1, KeyParts
    <3>2. ~NewConn(LegacyConns[k[2]], "none").ref[k[1]]
      BY <2>1, NewConnFields, KeyParts, ConnAssumption DEF Tenants
    <3> QED BY <3>1, <3>2 DEF RefOf
  <2>2. CASE k[2] \notin DOMAIN LegacyConns
    BY <1>2, <2>2, KeyParts DEF RefOf
  <2> QED BY <2>1, <2>2
<1> QED BY <1>3, <1>4

\* What a connection table has for a key depends on that key's connection only.
LEMMA StrippedFields ==
    ASSUME NEW c \in Conns, NEW k \in Keys, c[k[2]] # NoConn
    PROVE  /\ Stripped(c, k) \in Conns
           /\ \A n \in Names : (Stripped(c, k)[n] = NoConn) = (c[n] = NoConn)
           /\ \A n \in Names : c[n] # NoConn =>
                Stripped(c, k)[n].multi = c[n].multi /\ Stripped(c, k)[n].tenant = c[n].tenant
           /\ RefOf(Stripped(c, k), k) /\ SecretOf(Stripped(c, k), k) = NoValue
           /\ \A j \in Keys \ {k} : RefOf(Stripped(c, k), j) = RefOf(c, j)
                                    /\ SecretOf(Stripped(c, k), j) = SecretOf(c, j)
<1> DEFINE x == c[k[2]]
           s == [x.secret EXCEPT ![k[1]] = NoValue]
           y == [x EXCEPT !.secret = s]
           r == [y.ref EXCEPT ![k[1]] = TRUE]
           e == [y EXCEPT !.ref = r]
<1>1. k[1] \in Kinds /\ k[2] \in Names /\ x \in Conn
  BY KeyParts DEF Conns
<1>2. Stripped(c, k) = [c EXCEPT ![k[2]] = e]
  BY <1>1 DEF Stripped, Conns
<1>3. /\ s \in Secrets /\ s[k[1]] = NoValue
      /\ \A kd \in Kinds \ {k[1]} : s[kd] = x.secret[kd]
  BY <1>1 DEF Conn, Secrets
<1>4. y \in Conn /\ y.secret = s /\ y.ref = x.ref /\ y.multi = x.multi /\ y.tenant = x.tenant
  <2> HIDE DEF s, x
  <2> QED BY <1>1, <1>3, SecretChanges
<1>7. /\ r \in [Kinds -> BOOLEAN] /\ r[k[1]]
      /\ \A kd \in Kinds \ {k[1]} : r[kd] = y.ref[kd]
  <2> HIDE DEF y
  <2> QED BY <1>1, <1>4 DEF Conn
<1>8. e \in Conn /\ e # NoConn /\ e.secret = y.secret /\ e.ref = r /\ e.multi = y.multi /\ e.tenant = y.tenant
  <2> HIDE DEF r, y
  <2> QED BY <1>4, <1>7, RefChanges
<1> HIDE DEF e, r, y, s
<1>5. Stripped(c, k) \in Conns /\ Stripped(c, k)[k[2]] = e
      /\ \A n \in Names \ {k[2]} : Stripped(c, k)[n] = c[n]
  BY <1>1, <1>2, <1>8 DEF Conns
<1>6. ASSUME NEW j \in Keys \ {k}
      PROVE  RefOf(Stripped(c, k), j) = RefOf(c, j) /\ SecretOf(Stripped(c, k), j) = SecretOf(c, j)
  <2>1. CASE j[2] = k[2]
    <3>1. j[1] \in Kinds \ {k[1]}
      BY <2>1, KeyParts
    <3> QED BY <2>1, <3>1, <1>3, <1>4, <1>5, <1>7, <1>8 DEF RefOf, SecretOf
  <2>2. CASE j[2] # k[2]
    BY <2>2, <1>5, KeyParts DEF RefOf, SecretOf
  <2> QED BY <2>1, <2>2
<1> QED BY <1>1, <1>3, <1>4, <1>5, <1>6, <1>7, <1>8 DEF RefOf, SecretOf

LEMMA ResolvedFields ==
    ASSUME Shape, NEW c \in Conns, NEW p \in Procs
    PROVE  /\ Resolved(p, c) \in Conns
           /\ \A n \in Names : (Resolved(p, c)[n] = NoConn) = (c[n] = NoConn)
           /\ \A n \in Names : c[n] # NoConn =>
                Resolved(p, c)[n].multi = c[n].multi /\ Resolved(p, c)[n].tenant = c[n].tenant
           /\ \A k \in Keys : RefOf(Resolved(p, c), k) = RefOf(c, k)
           /\ \A k \in Keys : SecretOf(Resolved(p, c), k) =
                IF RefOf(c, k) /\ Got(p, k) # NoValue THEN Got(p, k) ELSE SecretOf(c, k)
<1> DEFINE s(n) == [kd \in Kinds |-> IF c[n].ref[kd] /\ Got(p, <<kd, n>>) # NoValue
                                       THEN Got(p, <<kd, n>>) ELSE c[n].secret[kd]]
           e(n) == [c[n] EXCEPT !.secret = s(n)]
<1>1. \A k \in Keys : Got(p, k) \in Values \cup {NoValue}
  BY DEF Got, Shape, DataInv
<1>2. ASSUME NEW n \in Names, c[n] # NoConn
      PROVE  /\ Resolved(p, c)[n] = e(n) /\ e(n) \in Conn /\ e(n) # NoConn
             /\ e(n).secret = s(n) /\ e(n).ref = c[n].ref
             /\ e(n).multi = c[n].multi /\ e(n).tenant = c[n].tenant
  <2>1. c[n] \in Conn
    BY <1>2 DEF Conns
  <2>2. s(n) \in Secrets
    BY <1>1, <2>1, KeyParts DEF Secrets, Conn
  <2>3. Resolved(p, c)[n] = e(n)
    BY <1>2 DEF Resolved
  <2> HIDE DEF s
  <2> QED BY <2>1, <2>2, <2>3, SecretChanges
<1>3. \A n \in Names : c[n] = NoConn => Resolved(p, c)[n] = NoConn
  BY DEF Resolved
<1>4. Resolved(p, c) \in Conns
  <2>1. Resolved(p, c) = [n \in Names |-> Resolved(p, c)[n]]
    BY DEF Resolved
  <2>2. \A n \in Names : Resolved(p, c)[n] \in Conn \cup {NoConn}
    BY <1>2, <1>3
  <2> QED BY <2>1, <2>2 DEF Conns
<1>5. ASSUME NEW k \in Keys
      PROVE  /\ RefOf(Resolved(p, c), k) = RefOf(c, k)
             /\ SecretOf(Resolved(p, c), k) =
                  IF RefOf(c, k) /\ Got(p, k) # NoValue THEN Got(p, k) ELSE SecretOf(c, k)
  <2>1. k[1] \in Kinds /\ k[2] \in Names /\ k = <<k[1], k[2]>>
    BY KeyParts
  <2>2. CASE c[k[2]] = NoConn
    BY <2>1, <2>2, <1>3 DEF RefOf, SecretOf
  <2>3. CASE c[k[2]] # NoConn
    <3>1. /\ Resolved(p, c)[k[2]] = e(k[2]) /\ e(k[2]) # NoConn
          /\ e(k[2]).ref = c[k[2]].ref /\ e(k[2]).secret = s(k[2])
      BY <2>1, <2>3, <1>2
    <3>3. s(k[2])[k[1]] = IF c[k[2]].ref[k[1]] /\ Got(p, <<k[1], k[2]>>) # NoValue
                            THEN Got(p, <<k[1], k[2]>>) ELSE c[k[2]].secret[k[1]]
      BY <2>1
    <3> HIDE DEF e, s
    <3> QED BY <2>1, <2>3, <3>1, <3>3 DEF RefOf, SecretOf
  <2> QED BY <2>2, <2>3
<1> QED BY <1>2, <1>3, <1>4, <1>5

-----------------------------------------------------------------------------
(* The tasks.                                                              *)

\* A step of a task moves that task only.
Others(t) ==
  \A u \in Tasks \ {t} :
    pc'[u] = pc[u] /\ op'[u] = op[u] /\ cfg'[u] = cfg[u] /\ todo'[u] = todo[u]

Arrives(t, l, o, c, d) ==
  /\ pc' = [pc EXCEPT ![t] = l] /\ op' = [op EXCEPT ![t] = o]
  /\ cfg' = [cfg EXCEPT ![t] = c] /\ todo' = [todo EXCEPT ![t] = d]

LEMMA Arrival ==
    ASSUME TaskInv, NEW t \in Tasks, NEW l, NEW o, NEW c, NEW d,
           Arrives(t, l, o, c, d), TaskOK(l, o, c, d)
    PROVE  /\ TaskInv' /\ Others(t)
           /\ pc'[t] = l /\ op'[t] = o /\ cfg'[t] = c /\ todo'[t] = d
<1>1. /\ pc'[t] = l /\ op'[t] = o /\ cfg'[t] = c /\ todo'[t] = d
      /\ pc' = [u \in Tasks |-> pc'[u]] /\ op' = [u \in Tasks |-> op'[u]]
      /\ cfg' = [u \in Tasks |-> cfg'[u]] /\ todo' = [u \in Tasks |-> todo'[u]]
  BY DEF Arrives, TaskInv
<1>2. Others(t)
  BY DEF Arrives, TaskInv, Others
<1>3. ASSUME NEW u \in Tasks PROVE TaskOK(pc'[u], op'[u], cfg'[u], todo'[u])
  <2>1. CASE u = t
    BY <1>1, <2>1
  <2>2. CASE u # t
    BY <1>2, <2>2 DEF Others, TaskInv
  <2> QED BY <2>1, <2>2
<1>4. TaskInv'
  BY <1>1, <1>3 DEF TaskInv, TaskOK
<1> QED BY <1>1, <1>2, <1>4

\* The values a task has in hand.
LEMMA InHand ==
    ASSUME Shape, NEW t \in Tasks
    PROVE  /\ pc[t] \in Labels /\ op[t] \in Operations /\ cfg[t] \in Config
           /\ cfg[t].conns \in Conns /\ todo[t] \subseteq Keys /\ ProcOf[t] \in Procs
           /\ pc[t] \in {"apply", "delete", "strip", "write"} => op[t].kind # "read"
           /\ TaskInv
<1>1. TaskOK(pc[t], op[t], cfg[t], todo[t]) /\ TaskInv
  BY DEF Shape, TaskInv
<1>2. cfg[t].conns \in Conns
  BY <1>1 DEF TaskOK, Config, Conns
<1> QED BY <1>1, <1>2, ProcsAssumption DEF TaskOK

\* An operation that has ended.
Gone(t) == pc'[t] = "idle" /\ op'[t] = [kind |-> "read"] /\ cfg'[t] = EmptyConfig

LEMMA EndGone ==
    ASSUME Shape, NEW t \in Tasks, End(t), todo' = todo
    PROVE  TaskInv' /\ Others(t) /\ Gone(t) /\ todo'[t] = todo[t]
<1>1. Arrives(t, "idle", [kind |-> "read"], EmptyConfig, todo[t])
  BY DEF End, Goto, Arrives, Shape, TaskInv
<1>2. TaskOK("idle", [kind |-> "read"], EmptyConfig, todo[t])
  BY InHand, ReadOperation, EmptyConfigFields DEF TaskOK, Labels
<1> QED BY <1>1, <1>2, Arrival DEF Gone, Shape

\* Only the label changes.
LEMMA GotoMoves ==
    ASSUME Shape, NEW t \in Tasks, NEW l \in Labels, Goto(t, l), UNCHANGED <<op, cfg, todo>>,
           l \notin {"delete", "strip"}, l \in {"apply", "delete", "strip", "write"} => op[t].kind # "read"
    PROVE  /\ TaskInv' /\ Others(t)
           /\ pc'[t] = l /\ op'[t] = op[t] /\ cfg'[t] = cfg[t] /\ todo'[t] = todo[t]
<1>1. Arrives(t, l, op[t], cfg[t], todo[t])
  BY DEF Goto, Arrives, Shape, TaskInv
<1>2. TaskOK(l, op[t], cfg[t], todo[t])
  BY InHand DEF TaskOK
<1> QED BY <1>1, <1>2, Arrival DEF Shape

-----------------------------------------------------------------------------
(* What each step does.                                                    *)

\* A new operation.
Starts(t) ==
  /\ Others(t) /\ pc[t] = "idle" /\ pc'[t] = (IF dirExists THEN "load" ELSE "dir")
  /\ troubles \subseteq troubles' /\ ("overlap" \notin troubles' => ~Overlap(t, op'[t]))
  /\ UNCHANGED <<store, cfg, todo, intended, refused, deleted, abandoned>>

LEMMA StartStep ==
    ASSUME Shape, NEW t \in Tasks, Start(t)
    PROVE  Shape' /\ Starts(t)
<1>1. PICK o \in Operations :
        /\ op' = [op EXCEPT ![t] = o]
        /\ troubles' = troubles \cup IF Overlap(t, o) THEN {"overlap"} ELSE {}
  BY DEF Start
<1> DEFINE l == IF dirExists THEN "load" ELSE "dir"
<1>2. Arrives(t, l, o, cfg[t], todo[t])
  BY <1>1 DEF Start, Goto, Arrives, Shape, TaskInv
<1>3. TaskOK(l, o, cfg[t], todo[t])
  BY InHand DEF TaskOK, Labels
<1>4. TaskInv' /\ Others(t) /\ pc'[t] = l /\ op'[t] = o
  BY <1>2, <1>3, Arrival DEF Shape
<1>5. pc[t] = "idle" /\ UNCHANGED <<store, cfg, todo, intended, refused, deleted, abandoned>>
  BY DEF Start
<1>6. DataInv'
  BY <1>5 DEF Shape, DataInv, store
<1>7. troubles \subseteq troubles' /\ ("overlap" \notin troubles' => ~Overlap(t, op'[t]))
  BY <1>1, <1>4
<1> QED BY <1>4, <1>5, <1>6, <1>7 DEF Starts, Shape

\* The directory and its copy.
Opens(t) ==
  /\ Others(t) /\ UNCHANGED <<legacy, keyring, avail, cache, intended, troubles, deleted, abandoned>>
  /\ \/ /\ pc[t] = "dir" /\ (dirExists \/ ~legacy) /\ pc'[t] = "load" /\ dirExists'
        /\ UNCHANGED <<fileState, file, refused>>
     \/ /\ pc[t] = "dir" /\ ~dirExists /\ legacy /\ pc'[t] = "copy"
        /\ UNCHANGED <<dirExists, fileState, file, refused>>
     \/ /\ pc[t] = "copy" /\ pc'[t] = "copy_file" /\ dirExists'
        /\ UNCHANGED <<fileState, file, refused>>
     \/ /\ pc[t] = "copy_file" /\ fileState = "missing" /\ pc'[t] = "copy_data"
        /\ fileState' = "empty" /\ UNCHANGED <<dirExists, file, refused>>
     \/ /\ pc[t] = "copy_file" /\ fileState # "missing" /\ pc'[t] = "idle"
        /\ UNCHANGED <<dirExists, fileState, file, refused>>
     \/ /\ pc[t] = "copy_data" /\ pc'[t] = "load" /\ fileState' = "ok" /\ file' = LegacyConfig
        /\ refused' = refused \cup WithSecrets(LegacyConfig.conns) /\ UNCHANGED dirExists
  /\ pc'[t] # "idle" => op'[t] = op[t]
  /\ pc'[t] = "idle" => op'[t].kind = "read"

LEMMA OpenStep ==
    ASSUME Shape, NEW t \in Tasks, Dir(t) \/ MigrateDir(t)
    PROVE  Shape' /\ Opens(t)
<1>1. UNCHANGED <<legacy, keyring, avail, cache, todo, intended, troubles, deleted, abandoned>>
  BY DEF Dir, MigrateDir, history
<1>2. CASE Dir(t)
  <2>1. PICK l \in {"load", "copy"} :
          /\ Goto(t, l) /\ UNCHANGED <<op, cfg, todo, fileState, file, refused>> /\ pc[t] = "dir"
          /\ l = "load" => (dirExists \/ ~legacy) /\ dirExists' = TRUE
          /\ l = "copy" => ~dirExists /\ legacy /\ UNCHANGED dirExists
    BY <1>2 DEF Dir, history
  <2>2. TaskInv' /\ Others(t) /\ pc'[t] = l /\ op'[t] = op[t]
    BY <2>1, GotoMoves DEF Labels
  <2>3. DataInv'
    BY <1>1, <2>1 DEF Shape, DataInv
  <2> QED BY <1>1, <2>1, <2>2, <2>3 DEF Opens, Shape
<1>3. CASE MigrateDir(t) /\ pc'[t] # "idle"
  <2>1. PICK l \in {"copy_file", "copy_data", "load"} :
          /\ Goto(t, l) /\ UNCHANGED <<op, cfg>>
          /\ l = "copy_file" => pc[t] = "copy" /\ dirExists' = TRUE /\ UNCHANGED <<fileState, file, refused>>
          /\ l = "copy_data" => /\ pc[t] = "copy_file" /\ fileState = "missing" /\ fileState' = "empty"
                                /\ UNCHANGED <<dirExists, file, refused>>
          /\ l = "load" => /\ pc[t] = "copy_data" /\ fileState' = "ok" /\ file' = LegacyConfig
                           /\ refused' = refused \cup WithSecrets(LegacyConfig.conns)
                           /\ UNCHANGED dirExists
    <3>1. End(t) => pc'[t] = "idle"
      BY DEF End, Goto, Shape, TaskInv
    <3> QED BY <1>3, <3>1 DEF MigrateDir
  <2>2. TaskInv' /\ Others(t) /\ pc'[t] = l /\ op'[t] = op[t]
    BY <1>1, <2>1, GotoMoves DEF Labels
  <2>3. DataInv'
    BY <1>1, <2>1, LegacyConfigFields DEF Shape, DataInv
  <2> QED BY <1>1, <2>1, <2>2, <2>3 DEF Opens, Shape
<1>4. CASE MigrateDir(t) /\ pc'[t] = "idle"
  <2>1. /\ pc[t] = "copy_file" /\ fileState # "missing" /\ End(t)
        /\ UNCHANGED <<dirExists, fileState, file, refused>>
    BY <1>4 DEF MigrateDir, Goto, Shape, TaskInv
  <2>2. TaskInv' /\ Others(t) /\ Gone(t)
    BY <1>1, <2>1, EndGone
  <2>3. DataInv'
    BY <1>1, <2>1 DEF Shape, DataInv
  <2> QED BY <1>1, <2>1, <2>2, <2>3, ReadOperation DEF Opens, Shape, Gone
<1> QED BY <1>2, <1>3, <1>4

\* The file is read.
Loads(t) ==
  /\ Others(t) /\ pc[t] = "load" /\ pc'[t] = "resolve" /\ op'[t] = op[t]
  /\ fileState \in {"missing", "ok"} /\ cfg'[t].conns = Current
  /\ UNCHANGED <<store, todo, history>>

\* An operation ends without a change.
Leaves(t) ==
  /\ Others(t) /\ pc[t] \in {"load", "apply"} /\ Gone(t)
  /\ UNCHANGED <<store, todo, history>>

LEMMA LeaveStep ==
    ASSUME Shape, NEW t \in Tasks, pc[t] \in {"load", "apply"}, NoSave(t)
    PROVE  Shape' /\ Leaves(t)
<1>1. End(t) /\ UNCHANGED <<store, todo, history>>
  BY DEF NoSave
<1>2. TaskInv' /\ Others(t) /\ Gone(t)
  BY <1>1, EndGone
<1>3. DataInv'
  BY <1>1 DEF Shape, DataInv, store, history
<1> QED BY <1>1, <1>2, <1>3 DEF Leaves, Shape

LEMMA LoadStep ==
    ASSUME Shape, NEW t \in Tasks, Load(t)
    PROVE  Shape' /\ (Loads(t) \/ Leaves(t))
<1>1. CASE fileState \in {"empty", "garbled"}
  BY <1>1, LeaveStep DEF Load, NoSave
<1>2. CASE fileState \notin {"empty", "garbled"}
  <2> DEFINE c == IF fileState = "ok" THEN file ELSE EmptyConfig
  <2>1. /\ pc[t] = "load" /\ fileState \in {"missing", "ok"} /\ cfg' = [cfg EXCEPT ![t] = c]
        /\ Goto(t, "resolve") /\ UNCHANGED <<op, store, todo, history>>
    BY <1>2 DEF Load
  <2>2. c \in Config /\ c.conns = Current
    BY EmptyConfigFields DEF Shape, DataInv, Current
  <2> HIDE DEF c
  <2>3. Arrives(t, "resolve", op[t], c, todo[t]) /\ TaskOK("resolve", op[t], c, todo[t])
    BY <2>1, <2>2, InHand DEF Goto, Arrives, Shape, TaskInv, TaskOK, Labels
  <2>4. TaskInv' /\ Others(t) /\ pc'[t] = "resolve" /\ op'[t] = op[t] /\ cfg'[t] = c
    BY <2>3, Arrival DEF Shape
  <2>5. DataInv'
    BY <2>1 DEF Shape, DataInv, store, history
  <2> QED BY <2>1, <2>2, <2>4, <2>5 DEF Loads, Shape
<1> QED BY <1>1, <1>2

\* Secrets of the keyring are put back.
Stale(t) ==
  \E k \in Keys : RefOf(cfg[t].conns, k) /\ cache[ProcOf[t]][k] \notin {NoValue, keyring[k]}

Resolves(t) ==
  /\ Others(t) /\ pc[t] = "resolve" /\ todo'[t] = todo[t]
  /\ UNCHANGED <<dirExists, legacy, fileState, file, keyring, avail, intended, refused, deleted, abandoned>>
  /\ troubles \subseteq troubles' /\ (Stale(t) => troubles' # {})
  /\ op[t].kind = "read" => Gone(t)
  /\ op[t].kind # "read" =>
       pc'[t] = "apply" /\ op'[t] = op[t] /\ cfg'[t].conns = Resolved(ProcOf[t], cfg[t].conns)

LEMMA ResolveStep ==
    ASSUME Shape, NEW t \in Tasks, Resolve(t)
    PROVE  Shape' /\ Resolves(t)
<1> DEFINE p == ProcOf[t]
           refs == {k \in Keys : RefOf(cfg[t].conns, k)}
           c == [cfg[t] EXCEPT !.conns = Resolved(p, @)]
<1>1. /\ pc[t] = "resolve"
      /\ cache' = [cache EXCEPT ![p] = [k \in Keys |-> IF k \in refs THEN Got(p, k) ELSE @[k]]]
      /\ troubles' = troubles \cup
           IF \E k \in refs : cache[p][k] \notin {NoValue, keyring[k]} THEN {"stale-cache"} ELSE {}
      /\ UNCHANGED <<dirExists, legacy, fileState, file, keyring, avail,
                     todo, intended, refused, deleted, abandoned>>
  BY DEF Resolve
<1>2. p \in Procs /\ \A k \in Keys : Got(p, k) \in Values \cup {NoValue}
  BY InHand DEF Got, Shape, DataInv
<1>3. DataInv'
  <2>1. cache' \in [Procs -> [Keys -> Values \cup {NoValue}]]
    <3> HIDE DEF refs, p
    <3> QED BY <1>1, <1>2 DEF Shape, DataInv
  <2> QED BY <1>1, <2>1 DEF Shape, DataInv
<1>4. troubles \subseteq troubles' /\ (Stale(t) => troubles' # {})
  BY <1>1 DEF Stale
<1>5. CASE op[t].kind = "read"
  <2>1. TaskInv' /\ Others(t) /\ Gone(t) /\ todo'[t] = todo[t]
    BY <1>1, <1>5, EndGone DEF Resolve
  <2> QED BY <1>1, <1>3, <1>4, <1>5, <2>1 DEF Resolves, Shape
<1>6. CASE op[t].kind # "read"
  <2>1. cfg' = [cfg EXCEPT ![t] = c] /\ Goto(t, "apply") /\ op' = op
    BY <1>6 DEF Resolve, Shape, TaskInv
  <2>2. Resolved(p, cfg[t].conns) \in Conns
    BY <1>2, InHand, ResolvedFields
  <2>3. c \in Config /\ c.conns = Resolved(p, cfg[t].conns)
    BY <2>2, InHand DEF Config, Conns
  <2> HIDE DEF c
  <2>4. Arrives(t, "apply", op[t], c, todo[t])
    BY <1>1, <2>1 DEF Goto, Arrives, Shape, TaskInv
  <2>5. TaskOK("apply", op[t], c, todo[t])
    BY <1>6, <2>3, InHand DEF TaskOK, Labels
  <2>6. TaskInv' /\ Others(t) /\ pc'[t] = "apply" /\ op'[t] = op[t] /\ cfg'[t] = c /\ todo'[t] = todo[t]
    BY <2>4, <2>5, Arrival DEF Shape
  <2> QED BY <1>1, <1>3, <1>4, <1>6, <2>3, <2>6 DEF Resolves, Shape
<1> QED BY <1>5, <1>6

-----------------------------------------------------------------------------
(* Edits.                                                                  *)

LEMMA PromisedFields ==
    ASSUME Shape, NEW o \in Operations
    PROVE  /\ Promised(o) \in [Names -> Wanted \cup {NoConn}]
           /\ o.kind \notin {"add", "remove", "tenant"} => Promised(o) = intended
           /\ o.kind \in {"add", "remove", "tenant"} =>
                \A n \in Names : n # o.name => Promised(o)[n] = intended[n]
           /\ o.kind = "remove" => Promised(o)[o.name] = NoConn
           /\ o.kind = "add" =>
                /\ Promised(o)[o.name] # NoConn
                /\ Promised(o)[o.name].secret = o.profile.secret
                /\ Promised(o)[o.name].multi = o.profile.multi
                /\ Promised(o)[o.name].tenant =
                     IF intended[o.name] = NoConn THEN "none" ELSE intended[o.name].tenant
           /\ o.kind = "tenant" =>
                /\ (Promised(o)[o.name] = NoConn) = (intended[o.name] = NoConn)
                /\ intended[o.name] # NoConn =>
                     /\ Promised(o)[o.name].secret = intended[o.name].secret
                     /\ Promised(o)[o.name].multi = intended[o.name].multi
                     /\ Promised(o)[o.name].tenant = o.tenant
<1>0. intended \in [Names -> Wanted \cup {NoConn}]
  BY DEF Shape, DataInv
<1>1. CASE o.kind = "add"
  <2> DEFINE w == [secret |-> o.profile.secret, multi |-> o.profile.multi,
                   tenant |-> IF intended[o.name] = NoConn THEN "none" ELSE intended[o.name].tenant]
  <2>1. o.name \in Names /\ o.profile \in Profile
    BY <1>1, OperationFields
  <2>2. w \in Wanted /\ w # NoConn
    BY <1>0, <2>1, ConnAssumption DEF Wanted, Profile, Tenants
  <2>3. Promised(o) = [intended EXCEPT ![o.name] = w]
    BY <1>0, <1>1, <2>1 DEF Promised
  <2>4. /\ w.secret = o.profile.secret /\ w.multi = o.profile.multi
        /\ w.tenant = IF intended[o.name] = NoConn THEN "none" ELSE intended[o.name].tenant
    OBVIOUS
  <2> HIDE DEF w
  <2> QED BY <1>0, <1>1, <2>1, <2>2, <2>3, <2>4
<1>2. CASE o.kind = "remove"
  <2>1. o.name \in Names /\ Promised(o) = [intended EXCEPT ![o.name] = NoConn]
    BY <1>2, OperationFields DEF Promised
  <2> QED BY <1>0, <1>2, <2>1
<1>3. CASE o.kind = "tenant"
  <2> DEFINE old == intended[o.name]
             w == IF old = NoConn THEN old ELSE [old EXCEPT !.tenant = o.tenant]
  <2>1. o.name \in Names /\ o.tenant \in Tenants
    BY <1>3, OperationFields
  <2>2. Promised(o) = [intended EXCEPT ![o.name] = w]
    BY <1>0, <1>3, <2>1 DEF Promised
  <2>3. /\ w \in Wanted \cup {NoConn} /\ (w = NoConn) = (old = NoConn)
        /\ old # NoConn => w.secret = old.secret /\ w.multi = old.multi /\ w.tenant = o.tenant
    BY <1>0, <2>1, ConnAssumption DEF Wanted
  <2> HIDE DEF w
  <2> QED BY <1>0, <1>3, <2>1, <2>2, <2>3
<1>4. CASE o.kind \notin {"add", "remove", "tenant"}
  BY <1>0, <1>4 DEF Promised
<1> QED BY <1>1, <1>2, <1>3, <1>4

\* What an edit makes of a secret: it leaves it alone, replaces it with the
\* connection, or drops it with the connection whose entries are deleted.
EditsKey(t, k) ==
  LET c == cfg[t].conns
      d == cfg'[t].conns
  IN \/ /\ RefOf(d, k) = RefOf(c, k) /\ SecretOf(d, k) = SecretOf(c, k)
        /\ pc[t] = "delete" => k[2] # op[t].name
     \/ pc[t] = "apply" /\ ~RefOf(d, k) /\ (SecretOf(d, k) = NoValue => k \in abandoned')
     \/ /\ pc[t] = "delete" /\ todo[t] = {} /\ k[2] = op[t].name
        /\ ~RefOf(d, k) /\ SecretOf(d, k) = NoValue

\* And of a connection: what the operation promises, if it was right before.
EditsConn(t, n) ==
  MatchesAt(keyring, cfg[t].conns, intended[n], n) \/ (pc[t] = "delete" /\ n = op[t].name)
    => MatchesAt(keyring, cfg'[t].conns, Promised(op[t])[n], n)

StripBegins(t) ==
  /\ Others(t) /\ pc[t] \in {"apply", "delete"} /\ pc'[t] = "strip"
  /\ op'[t] = op[t] /\ op[t].kind # "read"
  /\ todo'[t] = (IF avail[ProcOf[t]] THEN WithSecrets(cfg'[t].conns) ELSE {})
  /\ refused' = refused \cup (IF avail[ProcOf[t]] THEN {} ELSE WithSecrets(cfg'[t].conns))
  /\ UNCHANGED <<store, intended, troubles, deleted>>
  /\ abandoned \subseteq abandoned'
  /\ ~avail[ProcOf[t]] => WithSecrets(cfg'[t].conns) \subseteq abandoned'

Edits(t) ==
  /\ StripBegins(t)
  /\ \A k \in Keys : EditsKey(t, k)
  /\ \A n \in Names : EditsConn(t, n)

LEMMA StripStep ==
    ASSUME Shape, NEW t \in Tasks, pc[t] \in {"apply", "delete"}, NEW edited, NEW without,
           edited.conns \in Conns, StripCredentials(t, edited, without)
    PROVE  /\ Shape' /\ StripBegins(t) /\ cfg'[t].conns = edited.conns
           /\ without \subseteq abandoned'
<1> DEFINE c == [EmptyConfig EXCEPT !.conns = edited.conns]
           held == WithSecrets(edited.conns)
           d == IF avail[ProcOf[t]] THEN held ELSE {}
<1>1. c \in Config /\ c.conns = edited.conns
  BY EmptyConfigFields DEF Config, Conns
<1>2. held \subseteq Keys
  BY DEF WithSecrets
<1>3. Arrives(t, "strip", op[t], c, d) /\ UNCHANGED <<store, op, intended, troubles, deleted>>
  BY DEF StripCredentials, Goto, Arrives, Shape, TaskInv
<1>4. refused' = refused \cup (IF avail[ProcOf[t]] THEN {} ELSE held)
      /\ abandoned' = abandoned \cup without \cup (IF avail[ProcOf[t]] THEN {} ELSE held)
  BY DEF StripCredentials
<1> HIDE DEF c
<1>5. op[t].kind # "read"
  BY InHand
<1>6. TaskOK("strip", op[t], c, d)
  BY <1>1, <1>2, <1>5, InHand DEF TaskOK, Labels
<1>7. TaskInv' /\ Others(t) /\ pc'[t] = "strip" /\ op'[t] = op[t] /\ cfg'[t] = c /\ todo'[t] = d
  BY <1>3, <1>6, Arrival DEF Shape
<1>8. DataInv'
  BY <1>3 DEF Shape, DataInv, store
<1> QED BY <1>1, <1>3, <1>4, <1>5, <1>7, <1>8 DEF StripBegins, Shape

\* An edit that leaves all secrets and connections as they are.
LEMMA SameConns ==
    ASSUME Shape, NEW t \in Tasks, StripBegins(t), pc[t] = "apply",
           cfg'[t].conns = cfg[t].conns, Promised(op[t]) = intended
    PROVE  Edits(t)
<1>1. \A k \in Keys : EditsKey(t, k)
  BY DEF EditsKey
<1>2. \A n \in Names : EditsConn(t, n)
  <2> SUFFICES ASSUME NEW n \in Names, MatchesAt(keyring, cfg[t].conns, intended[n], n)
               PROVE  MatchesAt(keyring, cfg'[t].conns, Promised(op[t])[n], n)
    BY DEF EditsConn
  <2> QED OBVIOUS
<1> QED BY <1>1, <1>2 DEF Edits

\* One that changes a single connection.
LEMMA ElseSame ==
    ASSUME Shape, NEW t \in Tasks, NEW n \in Names, NEW x \in Conn \cup {NoConn},
           cfg'[t].conns = [cfg[t].conns EXCEPT ![n] = x]
    PROVE  /\ cfg'[t].conns[n] = x
           /\ \A k \in Keys : k[2] # n => /\ RefOf(cfg'[t].conns, k) = RefOf(cfg[t].conns, k)
                                          /\ SecretOf(cfg'[t].conns, k) = SecretOf(cfg[t].conns, k)
           /\ \A m \in Names \ {n} : \A w :
                MatchesAt(keyring, cfg[t].conns, w, m) = MatchesAt(keyring, cfg'[t].conns, w, m)
<1>1. cfg[t].conns \in Conns
  BY InHand
<1>2. cfg'[t].conns[n] = x /\ \A m \in Names : m # n => cfg'[t].conns[m] = cfg[t].conns[m]
  BY <1>1 DEF Conns
<1>3. \A k \in Keys : k[2] # n => cfg'[t].conns[k[2]] = cfg[t].conns[k[2]]
  BY <1>2, KeyParts
<1> QED BY <1>2, <1>3 DEF RefOf, SecretOf, MatchesAt

LEMMA AddStep ==
    ASSUME Shape, NEW t \in Tasks, AddConnection(t)
    PROVE  Shape' /\ Edits(t)
<1> DEFINE n == op[t].name
           c == cfg[t].conns
           tenant == IF c[n] = NoConn THEN "none" ELSE c[n].tenant
           x == NewConn(op[t].profile, tenant)
           edited == [cfg[t] EXCEPT !.conns = Upsert(@, n, op[t].profile)]
           without == {<<kd, n>> : kd \in {y \in Kinds : op[t].profile.secret[y] = NoValue}}
<1>1. pc[t] = "apply" /\ op[t].kind = "add" /\ StripCredentials(t, edited, without)
  BY DEF AddConnection, Applying
<1>2. c \in Conns /\ op[t] \in Operations /\ cfg[t] \in Config
  BY InHand
<1>3. n \in Names /\ op[t].profile \in Profile
  BY <1>1, <1>2, OperationFields
<1>4. tenant \in Tenants
  BY <1>2, <1>3 DEF Conns, Conn, Tenants
<1>5. /\ x \in Conn /\ x # NoConn /\ x.secret = op[t].profile.secret
      /\ x.multi = op[t].profile.multi /\ x.tenant = tenant /\ \A kd \in Kinds : ~x.ref[kd]
  <2> HIDE DEF tenant
  <2> QED BY <1>3, <1>4, NewConnFields
<1> HIDE DEF x
<1>6. edited.conns = [c EXCEPT ![n] = x] /\ edited.conns \in Conns
  BY <1>2, <1>3, <1>5 DEF Upsert, x, Config, Conns
<1> HIDE DEF edited, without
<1>7. Shape' /\ StripBegins(t) /\ cfg'[t].conns = edited.conns /\ without \subseteq abandoned'
  BY <1>1, <1>6, StripStep
<1>8. ASSUME NEW k \in Keys PROVE EditsKey(t, k)
  <2>1. CASE k[2] # n
    BY <1>1, <1>3, <1>5, <1>6, <1>7, <2>1, ElseSame DEF EditsKey
  <2>2. CASE k[2] = n
    <3>1. cfg'[t].conns[n] = x
      BY <1>2, <1>3, <1>6, <1>7 DEF Conns
    <3>2. k[1] \in Kinds /\ k = <<k[1], n>>
      BY <2>2, KeyParts
    <3>3. ~RefOf(cfg'[t].conns, k) /\ SecretOf(cfg'[t].conns, k) = op[t].profile.secret[k[1]]
      BY <2>2, <3>1, <3>2, <1>5 DEF RefOf, SecretOf
    <3>4. op[t].profile.secret[k[1]] = NoValue => k \in without
      BY <3>2 DEF without
    <3> QED BY <1>1, <1>7, <3>3, <3>4 DEF EditsKey
  <2> QED BY <2>1, <2>2
<1>9. ASSUME NEW m \in Names PROVE EditsConn(t, m)
  <2>1. CASE m # n
    <3>1. Promised(op[t])[m] = intended[m]
      BY <1>1, <1>2, <2>1, PromisedFields
    <3>2. MatchesAt(keyring, cfg[t].conns, intended[m], m) = MatchesAt(keyring, cfg'[t].conns, intended[m], m)
      BY <1>3, <1>5, <1>6, <1>7, <2>1, ElseSame
    <3> QED BY <1>1, <3>1, <3>2 DEF EditsConn
  <2>2. CASE m = n
    <3>1. cfg'[t].conns[n] = x
      BY <1>2, <1>3, <1>6, <1>7 DEF Conns
    <3>2. \A kd \in Kinds : ~x.ref[kd] /\ x.secret[kd] = op[t].profile.secret[kd]
      BY <1>5
    <3> DEFINE w == Promised(op[t])[n]
    <3>3. /\ w # NoConn /\ w.secret = op[t].profile.secret /\ w.multi = op[t].profile.multi
          /\ w.tenant = IF intended[n] = NoConn THEN "none" ELSE intended[n].tenant
      BY <1>1, <1>2, PromisedFields
    <3>4. MatchesAt(keyring, c, intended[n], n) => w.tenant = tenant
      BY <3>3 DEF MatchesAt
    <3> HIDE DEF w
    <3>5. MatchesAt(keyring, c, intended[n], n) => MatchesAt(keyring, cfg'[t].conns, w, n)
      BY <1>5, <3>1, <3>2, <3>3, <3>4 DEF MatchesAt
    <3> QED BY <1>1, <2>2, <3>5 DEF EditsConn, w
  <2> QED BY <2>1, <2>2
<1> QED BY <1>7, <1>8, <1>9 DEF Edits

LEMMA DeletedStep ==
    ASSUME Shape, NEW t \in Tasks, SecretsDeleted(t)
    PROVE  Shape' /\ Edits(t)
<1> DEFINE n == op[t].name
           c == cfg[t].conns
           edited == [cfg[t] EXCEPT !.conns[n] = NoConn]
<1>1. pc[t] = "delete" /\ todo[t] = {} /\ StripCredentials(t, edited, {})
  BY DEF SecretsDeleted
<1>2. c \in Conns /\ op[t] \in Operations /\ cfg[t] \in Config
  BY InHand
<1>3. op[t].kind = "remove" /\ n \in Names
  BY <1>1, <1>2, OperationFields DEF Shape, TaskInv, TaskOK
<1>4. edited.conns = [c EXCEPT ![n] = NoConn] /\ edited.conns \in Conns
  BY <1>2, <1>3 DEF Config, Conns
<1> HIDE DEF edited
<1>5. Shape' /\ StripBegins(t) /\ cfg'[t].conns = edited.conns
  BY <1>1, <1>4, StripStep
<1>6. cfg'[t].conns[n] = NoConn
  BY <1>2, <1>3, <1>4, <1>5 DEF Conns
<1>7. ASSUME NEW k \in Keys PROVE EditsKey(t, k)
  <2>1. CASE k[2] # n
    BY <1>3, <1>4, <1>5, <2>1, ElseSame DEF EditsKey
  <2>2. CASE k[2] = n
    BY <1>1, <1>6, <2>2 DEF EditsKey, RefOf, SecretOf
  <2> QED BY <2>1, <2>2
<1>8. ASSUME NEW m \in Names PROVE EditsConn(t, m)
  <2>1. CASE m # n
    <3>1. Promised(op[t])[m] = intended[m]
      BY <1>2, <1>3, <2>1, PromisedFields
    <3>2. MatchesAt(keyring, cfg[t].conns, intended[m], m) = MatchesAt(keyring, cfg'[t].conns, intended[m], m)
      BY <1>3, <1>4, <1>5, <2>1, ElseSame
    <3> QED BY <2>1, <3>1, <3>2 DEF EditsConn
  <2>2. CASE m = n
    <3>1. Promised(op[t])[n] = NoConn
      BY <1>2, <1>3, PromisedFields
    <3> QED BY <2>2, <3>1, <1>6 DEF EditsConn, MatchesAt
  <2> QED BY <2>1, <2>2
<1> QED BY <1>5, <1>7, <1>8 DEF Edits

LEMMA TenantStep ==
    ASSUME Shape, NEW t \in Tasks, SwitchTenant(t)
    PROVE  Shape' /\ (Edits(t) \/ Leaves(t))
<1> DEFINE n == op[t].name
           c == cfg[t].conns
           x == [c[n] EXCEPT !.tenant = op[t].tenant]
           edited == [cfg[t] EXCEPT !.conns[n].tenant = op[t].tenant]
           known == c[n] # NoConn /\ c[n].multi
<1>1. pc[t] = "apply" /\ op[t].kind = "tenant"
  BY DEF SwitchTenant, Applying
<1>2. c \in Conns /\ op[t] \in Operations /\ cfg[t] \in Config
  BY InHand
<1>3. n \in Names /\ op[t].tenant \in Tenants
  BY <1>1, <1>2, OperationFields
<1>4. CASE ~known
  BY <1>1, <1>4, LeaveStep DEF SwitchTenant
<1>5. CASE known
  <2>1. c[n] \in Conn /\ c[n] # NoConn
    BY <1>2, <1>3, <1>5 DEF Conns
  <2>2. /\ x \in Conn /\ x # NoConn /\ x.secret = c[n].secret /\ x.ref = c[n].ref
        /\ x.multi = c[n].multi /\ x.tenant = op[t].tenant
    BY <1>3, <2>1, TenantChanges
  <2>3. edited.conns = [c EXCEPT ![n] = x]
    BY <1>2, <1>3 DEF Config, Conns
  <2> HIDE DEF x
  <2>4. edited.conns \in Conns
    BY <1>2, <1>3, <2>2, <2>3 DEF Conns
  <2>5. StripCredentials(t, edited, {})
    BY <1>5 DEF SwitchTenant
  <2> HIDE DEF edited
  <2>6. Shape' /\ StripBegins(t) /\ cfg'[t].conns = edited.conns
    BY <1>1, <2>4, <2>5, StripStep
  <2>7. cfg'[t].conns[n] = x
    BY <1>2, <1>3, <2>3, <2>6 DEF Conns
  <2>8. ASSUME NEW k \in Keys PROVE EditsKey(t, k)
    <3>1. CASE k[2] # n
      BY <1>1, <1>3, <2>2, <2>3, <2>6, <3>1, ElseSame DEF EditsKey
    <3>2. CASE k[2] = n
      <4>1. (RefOf(cfg'[t].conns, k) = RefOf(c, k)) /\ SecretOf(cfg'[t].conns, k) = SecretOf(c, k)
        BY <2>1, <2>2, <2>7, <3>2 DEF RefOf, SecretOf
      <4> QED BY <1>1, <4>1 DEF EditsKey
    <3> QED BY <3>1, <3>2
  <2>9. ASSUME NEW m \in Names PROVE EditsConn(t, m)
    <3>1. CASE m # n
      <4>1. Promised(op[t])[m] = intended[m]
        BY <1>1, <1>2, <3>1, PromisedFields
      <4>2. MatchesAt(keyring, cfg[t].conns, intended[m], m) = MatchesAt(keyring, cfg'[t].conns, intended[m], m)
        BY <1>3, <2>2, <2>3, <2>6, <3>1, ElseSame
      <4> QED BY <1>1, <4>1, <4>2 DEF EditsConn
    <3>2. CASE m = n
      <4> DEFINE w == Promised(op[t])[n]
      <4>1. /\ (w = NoConn) = (intended[n] = NoConn)
            /\ intended[n] # NoConn =>
                 w.secret = intended[n].secret /\ w.multi = intended[n].multi /\ w.tenant = op[t].tenant
        BY <1>1, <1>2, PromisedFields
      <4> HIDE DEF w
      <4>2. MatchesAt(keyring, c, intended[n], n) => MatchesAt(keyring, cfg'[t].conns, w, n)
        BY <2>1, <2>2, <2>7, <4>1 DEF MatchesAt
      <4> QED BY <1>1, <3>2, <4>2 DEF EditsConn, w
    <3> QED BY <3>1, <3>2
  <2> QED BY <2>6, <2>8, <2>9 DEF Edits
<1> QED BY <1>4, <1>5

LEMMA SettingStep ==
    ASSUME Shape, NEW t \in Tasks, SaveAISettings(t) \/ ChooseLauncher(t) \/ MigrateCredentials(t)
    PROVE  Shape' /\ (Edits(t) \/ Leaves(t))
<1>1. pc[t] = "apply" /\ op[t].kind \in {"ai", "launcher", "migrate"}
  BY DEF SaveAISettings, ChooseLauncher, MigrateCredentials, Applying
<1>2. CASE NoSave(t)
  BY <1>1, <1>2, LeaveStep
<1>3. CASE ~NoSave(t)
  <2>1. cfg[t].conns \in Conns /\ cfg[t] \in Config /\ op[t] \in Operations
    BY InHand
  <2>2. PICK edited : StripCredentials(t, edited, {}) /\ edited.conns = cfg[t].conns
    <3>1. /\ [cfg[t] EXCEPT !.ai = TRUE].conns = cfg[t].conns
          /\ [cfg[t] EXCEPT !.choice = TRUE].conns = cfg[t].conns
      BY <2>1 DEF Config
    <3> QED BY <1>3, <3>1 DEF SaveAISettings, ChooseLauncher, MigrateCredentials
  <2>3. Shape' /\ StripBegins(t) /\ cfg'[t].conns = cfg[t].conns
    BY <1>1, <2>1, <2>2, StripStep
  <2>4. Promised(op[t]) = intended
    BY <1>1, <2>1, PromisedFields
  <2> QED BY <1>1, <2>3, <2>4, SameConns
<1> QED BY <1>2, <1>3

\* A removal: the entries of its connection go first, one by one.
Removes(t) ==
  /\ Others(t) /\ pc[t] = "apply" /\ pc'[t] = "delete" /\ op[t].kind = "remove"
  /\ op'[t] = op[t] /\ cfg'[t] = cfg[t]
  /\ todo'[t] = {k \in Keys : k[2] = op[t].name /\ RefOf(cfg[t].conns, k)}
  /\ UNCHANGED <<store, history>>

LEMMA RemoveStep ==
    ASSUME Shape, NEW t \in Tasks, RemoveConnection(t)
    PROVE  Shape' /\ (Removes(t) \/ Leaves(t))
<1>1. pc[t] = "apply" /\ op[t].kind = "remove"
  BY DEF RemoveConnection, Applying
<1>2. CASE cfg[t].conns[op[t].name] = NoConn
  BY <1>1, <1>2, LeaveStep DEF RemoveConnection
<1>3. CASE cfg[t].conns[op[t].name] # NoConn
  <2> DEFINE d == {k \in Keys : k[2] = op[t].name /\ RefOf(cfg[t].conns, k)}
  <2>1. Arrives(t, "delete", op[t], cfg[t], d) /\ UNCHANGED <<store, history>>
    BY <1>3 DEF RemoveConnection, DeleteCredential, Goto, Arrives, Shape, TaskInv
  <2>2. TaskOK("delete", op[t], cfg[t], d)
    BY <1>1, <1>3, InHand DEF TaskOK, Labels
  <2>3. /\ TaskInv' /\ Others(t) /\ pc'[t] = "delete" /\ op'[t] = op[t]
        /\ cfg'[t] = cfg[t] /\ todo'[t] = d
    BY <2>1, <2>2, Arrival DEF Shape
  <2>4. DataInv'
    BY <2>1 DEF Shape, DataInv, store, history
  <2> QED BY <1>1, <2>1, <2>3, <2>4 DEF Removes, Shape
<1> QED BY <1>2, <1>3

Deletes(t, k) ==
  /\ Others(t) /\ pc[t] = "delete" /\ pc'[t] = "delete" /\ op[t].kind = "remove"
  /\ op'[t] = op[t] /\ cfg'[t] = cfg[t] /\ k \in Keys /\ k[2] = op[t].name
  /\ todo'[t] = todo[t] \ {k}
  /\ \/ /\ keyring' = [keyring EXCEPT ![k] = NoValue] /\ deleted' = deleted \cup {k}
        /\ abandoned' = abandoned
     \/ abandoned' = abandoned \cup {k} /\ UNCHANGED <<keyring, deleted>>
  /\ UNCHANGED <<dirExists, legacy, fileState, file, avail, intended, troubles, refused>>

LEMMA DeleteStep ==
    ASSUME Shape, NEW t \in Tasks, DeleteSecret(t)
    PROVE  Shape' /\ \E k \in todo[t] : Deletes(t, k)
<1> DEFINE k == CHOOSE x \in todo[t] : TRUE
           p == ProcOf[t]
<1>1. k \in todo[t] /\ k \in Keys /\ p \in Procs
  BY InHand DEF DeleteSecret
<1>2. /\ pc[t] = "delete" /\ cache' = [cache EXCEPT ![p][k] = NoValue]
      /\ \/ /\ keyring' = [keyring EXCEPT ![k] = NoValue] /\ deleted' = deleted \cup {k}
            /\ abandoned' = abandoned
         \/ abandoned' = abandoned \cup {k} /\ UNCHANGED <<keyring, deleted>>
      /\ todo' = [todo EXCEPT ![t] = @ \ {k}]
      /\ UNCHANGED <<dirExists, legacy, fileState, file, avail, pc, op, cfg, intended, troubles, refused>>
  BY DEF DeleteSecret
<1> HIDE DEF k, p
<1>3. TaskOK("delete", op[t], cfg[t], todo[t])
  BY <1>2 DEF Shape, TaskInv
<1>4. Arrives(t, "delete", op[t], cfg[t], todo[t] \ {k})
  BY <1>2 DEF Arrives, Shape, TaskInv
<1>5. TaskOK("delete", op[t], cfg[t], todo[t] \ {k})
  BY <1>3 DEF TaskOK
<1>6. /\ TaskInv' /\ Others(t) /\ pc'[t] = "delete" /\ op'[t] = op[t]
      /\ cfg'[t] = cfg[t] /\ todo'[t] = todo[t] \ {k}
  BY <1>4, <1>5, Arrival DEF Shape
<1>7. DataInv'
  BY <1>1, <1>2 DEF Shape, DataInv
<1>8. op[t].kind = "remove" /\ k[2] = op[t].name
  BY <1>1, <1>3 DEF TaskOK
<1>9. Deletes(t, k)
  BY <1>1, <1>2, <1>6, <1>8 DEF Deletes, p
<1> QED BY <1>1, <1>6, <1>7, <1>9 DEF Shape

\* A secret that is moved to the keyring, refused by it, or dropped.
Stores(t, k) ==
  /\ Others(t) /\ pc[t] = "strip" /\ pc'[t] = "strip" /\ op[t].kind # "read" /\ op'[t] = op[t]
  /\ k \in WithSecrets(cfg[t].conns) /\ cfg[t].conns[k[2]] # NoConn
  /\ todo'[t] = todo[t] \ {k}
  /\ UNCHANGED <<dirExists, legacy, fileState, file, avail, intended, deleted>>
  /\ \/ /\ keyring' = [keyring EXCEPT ![k] = SecretOf(cfg[t].conns, k)]
        /\ cfg'[t].conns = Stripped(cfg[t].conns, k)
        /\ UNCHANGED <<troubles, refused, abandoned>>
     \/ /\ refused' = refused \cup {k} /\ abandoned' = abandoned \cup {k}
        /\ cfg'[t] = cfg[t] /\ UNCHANGED <<keyring, troubles>>
     \/ /\ troubles' = troubles \cup {"dropped"} /\ cfg'[t].conns = Stripped(cfg[t].conns, k)
        /\ UNCHANGED <<keyring, refused, abandoned>>

LEMMA StoreStep ==
    ASSUME Shape, NEW t \in Tasks, StoreSecret(t)
    PROVE  Shape' /\ \E k \in todo[t] : Stores(t, k)
<1> DEFINE k == CHOOSE x \in todo[t] : TRUE
           p == ProcOf[t]
           v == SecretOf(cfg[t].conns, k)
           c == [cfg[t] EXCEPT !.conns = Stripped(@, k)]
<1>1. k \in todo[t] /\ k \in Keys /\ p \in Procs
  BY InHand DEF StoreSecret
<1>2. /\ pc[t] = "strip" /\ todo' = [todo EXCEPT ![t] = @ \ {k}]
      /\ UNCHANGED <<dirExists, legacy, fileState, file, avail, pc, op, intended, deleted>>
      /\ \/ /\ keyring' = [keyring EXCEPT ![k] = v] /\ cache' = [cache EXCEPT ![p][k] = v]
            /\ cfg' = [cfg EXCEPT ![t].conns = Stripped(@, k)]
            /\ UNCHANGED <<troubles, refused, abandoned>>
         \/ /\ refused' = refused \cup {k} /\ abandoned' = abandoned \cup {k}
            /\ UNCHANGED <<keyring, cache, cfg, troubles>>
         \/ /\ cache' = [cache EXCEPT ![p][k] = v]
            /\ cfg' = [cfg EXCEPT ![t].conns = Stripped(@, k)]
            /\ troubles' = troubles \cup {"dropped"} /\ UNCHANGED <<keyring, refused, abandoned>>
  BY DEF StoreSecret
<1> HIDE DEF k, p
<1>3. cfg[t].conns \in Conns /\ cfg[t] \in Config /\ op[t] \in Operations /\ op[t].kind # "read"
  BY <1>2, InHand
<1>4. TaskOK("strip", op[t], cfg[t], todo[t])
  BY <1>2 DEF Shape, TaskInv
<1>5. k \in WithSecrets(cfg[t].conns) /\ cfg[t].conns[k[2]] # NoConn
  BY <1>1, <1>4 DEF TaskOK, WithSecrets, SecretOf
<1>6. v \in Values \cup {NoValue}
  BY <1>1, <1>3, <1>5, KeyParts DEF SecretOf, Conns, Conn, Secrets
<1> HIDE DEF v
<1>7. Stripped(cfg[t].conns, k) \in Conns
      /\ \A j \in Keys \ {k} : SecretOf(Stripped(cfg[t].conns, k), j) = SecretOf(cfg[t].conns, j)
  BY <1>1, <1>3, <1>5, StrippedFields
<1>8. c \in Config /\ c.conns = Stripped(cfg[t].conns, k)
  BY <1>3, <1>7 DEF Config, Conns
<1>9. DataInv'
  <2>1. keyring' \in [Keys -> Values \cup {NoValue}]
    BY <1>1, <1>2, <1>6 DEF Shape, DataInv
  <2>2. cache' = cache \/ cache' = [cache EXCEPT ![p][k] = v]
    BY <1>2
  <2>3. cache' \in [Procs -> [Keys -> Values \cup {NoValue}]]
    BY <1>1, <1>6, <2>2 DEF Shape, DataInv
  <2> QED BY <1>2, <2>1, <2>3 DEF Shape, DataInv
<1>10. CASE UNCHANGED cfg /\ refused' = refused \cup {k} /\ abandoned' = abandoned \cup {k} /\ UNCHANGED <<keyring, troubles>>
  <2>1. Arrives(t, "strip", op[t], cfg[t], todo[t] \ {k}) /\ TaskOK("strip", op[t], cfg[t], todo[t] \ {k})
    BY <1>2, <1>4, <1>10 DEF Arrives, Shape, TaskInv, TaskOK
  <2>2. TaskInv' /\ Others(t) /\ pc'[t] = "strip" /\ op'[t] = op[t] /\ cfg'[t] = cfg[t] /\ todo'[t] = todo[t] \ {k}
    BY <2>1, Arrival DEF Shape
  <2>3. Stores(t, k)
    BY <1>2, <1>3, <1>5, <1>10, <2>2 DEF Stores
  <2> QED BY <1>1, <1>9, <2>2, <2>3 DEF Shape
<1>11. CASE cfg' = [cfg EXCEPT ![t].conns = Stripped(@, k)]
            /\ (\/ keyring' = [keyring EXCEPT ![k] = v] /\ UNCHANGED <<troubles, refused, abandoned>>
                \/ troubles' = troubles \cup {"dropped"} /\ UNCHANGED <<keyring, refused, abandoned>>)
  <2>1. cfg' = [cfg EXCEPT ![t] = c]
    BY <1>11 DEF Shape, TaskInv
  <2> HIDE DEF c
  <2>2. todo[t] \ {k} \subseteq WithSecrets(c.conns)
    BY <1>4, <1>7, <1>8 DEF TaskOK, WithSecrets
  <2>3. Arrives(t, "strip", op[t], c, todo[t] \ {k})
    BY <1>2, <2>1 DEF Arrives, Shape, TaskInv
  <2>4. TaskOK("strip", op[t], c, todo[t] \ {k})
    BY <1>4, <1>8, <2>2 DEF TaskOK
  <2>5. TaskInv' /\ Others(t) /\ pc'[t] = "strip" /\ op'[t] = op[t] /\ cfg'[t] = c /\ todo'[t] = todo[t] \ {k}
    BY <2>3, <2>4, Arrival DEF Shape
  <2>6. Stores(t, k)
    BY <1>2, <1>3, <1>5, <1>8, <1>11, <2>5 DEF Stores, v
  <2> QED BY <1>1, <1>9, <2>5, <2>6 DEF Shape
<1> QED BY <1>2, <1>10, <1>11

\* The file is emptied, then written, or not.
Truncates(t) ==
  /\ Others(t) /\ pc[t] = "strip" /\ todo[t] = {} /\ pc'[t] = "write" /\ op[t].kind # "read"
  /\ op'[t] = op[t] /\ cfg'[t] = cfg[t] /\ fileState' = "empty"
  /\ UNCHANGED <<dirExists, legacy, keyring, avail, history>>

LEMMA TruncateStep ==
    ASSUME Shape, NEW t \in Tasks, Truncate(t)
    PROVE  Shape' /\ Truncates(t)
<1>1. op[t].kind # "read"
  BY InHand DEF Truncate
<1>2. TaskInv' /\ Others(t) /\ pc'[t] = "write" /\ op'[t] = op[t] /\ cfg'[t] = cfg[t]
  BY <1>1, GotoMoves DEF Truncate, Labels
<1>3. DataInv'
  BY EmptyConfigFields DEF Truncate, Shape, DataInv, history
<1> QED BY <1>1, <1>2, <1>3 DEF Truncates, Truncate, Shape

Writes(t) ==
  /\ Others(t) /\ pc[t] = "write" /\ op[t].kind # "read" /\ Gone(t)
  /\ \/ fileState' = "ok" /\ file' = cfg[t]
     \/ fileState # "empty" /\ fileState' = "garbled"
  /\ intended' = Promised(op[t])
  /\ UNCHANGED <<dirExists, legacy, keyring, avail, troubles, refused, deleted, abandoned>>

LEMMA WriteStep ==
    ASSUME Shape, NEW t \in Tasks, Write(t)
    PROVE  Shape' /\ Writes(t)
<1>1. op[t].kind # "read" /\ op[t] \in Operations /\ cfg[t] \in Config
  BY InHand DEF Write
<1>2. TaskInv' /\ Others(t) /\ Gone(t)
  BY EndGone DEF Write
<1>3. Promised(op[t]) \in [Names -> Wanted \cup {NoConn}]
  BY <1>1, PromisedFields
<1>4. DataInv'
  BY <1>1, <1>3, EmptyConfigFields DEF Write, Shape, DataInv
<1> QED BY <1>1, <1>2, <1>4 DEF Writes, Write, Shape

Fails(t) ==
  /\ Others(t) /\ pc[t] = "write" /\ Gone(t) /\ troubles' = troubles \cup {"failed"}
  /\ UNCHANGED <<store, intended, refused, deleted, abandoned>>

LEMMA FailStep ==
    ASSUME Shape, NEW t \in Tasks, WriteFails(t)
    PROVE  Shape' /\ Fails(t)
<1>1. TaskInv' /\ Others(t) /\ Gone(t)
  BY EndGone DEF WriteFails
<1>2. DataInv'
  BY DEF WriteFails, Shape, DataInv, store
<1> QED BY <1>1, <1>2 DEF Fails, WriteFails, Shape

\* A process ends.
Exits(p) ==
  /\ \A t \in Tasks :
       IF ProcOf[t] = p THEN Gone(t)
       ELSE pc'[t] = pc[t] /\ op'[t] = op[t] /\ cfg'[t] = cfg[t] /\ todo'[t] = todo[t]
  /\ troubles' = IF \E t \in Tasks : ProcOf[t] = p /\ (Writer(t) \/ Opening(t))
                   THEN troubles \cup {"crash"} ELSE troubles
  /\ UNCHANGED <<dirExists, legacy, fileState, file, keyring, avail,
                 intended, refused, deleted, abandoned>>

LEMMA ExitStep ==
    ASSUME Shape, NEW p \in Procs, Exit(p)
    PROVE  Shape' /\ Exits(p)
<1> DEFINE mine == {t \in Tasks : ProcOf[t] = p}
           cut  == {t \in mine : Writer(t) \/ Opening(t)}
<1>1. /\ pc' = [t \in Tasks |-> IF t \in mine THEN "idle" ELSE pc[t]]
      /\ op' = [t \in Tasks |-> IF t \in mine THEN [kind |-> "read"] ELSE op[t]]
      /\ cfg' = [t \in Tasks |-> IF t \in mine THEN EmptyConfig ELSE cfg[t]]
      /\ todo' = [t \in Tasks |-> IF t \in mine THEN {} ELSE todo[t]]
      /\ cache' = [cache EXCEPT ![p] = [k \in Keys |-> NoValue]]
      /\ troubles' = IF cut # {} THEN troubles \cup {"crash"} ELSE troubles
      /\ UNCHANGED <<dirExists, legacy, fileState, file, keyring, avail,
                     intended, refused, deleted, abandoned>>
  BY DEF Exit
<1>2. TaskOK("idle", [kind |-> "read"], EmptyConfig, {})
  BY ReadOperation, EmptyConfigFields DEF TaskOK, Labels
<1>3. TaskInv'
  <2>1. /\ pc' = [t \in Tasks |-> pc'[t]] /\ op' = [t \in Tasks |-> op'[t]]
        /\ cfg' = [t \in Tasks |-> cfg'[t]] /\ todo' = [t \in Tasks |-> todo'[t]]
    BY <1>1
  <2>2. ASSUME NEW t \in Tasks PROVE TaskOK(pc'[t], op'[t], cfg'[t], todo'[t])
    <3>1. CASE t \in mine
      BY <1>1, <1>2, <3>1
    <3>2. CASE t \notin mine
      BY <1>1, <3>2 DEF Shape, TaskInv
    <3> QED BY <3>1, <3>2
  <2> QED BY <2>1, <2>2 DEF TaskInv, TaskOK
<1>4. DataInv'
  BY <1>1 DEF Shape, DataInv
<1>5. Exits(p)
  <2>1. ASSUME NEW t \in Tasks
        PROVE  IF ProcOf[t] = p THEN Gone(t)
               ELSE pc'[t] = pc[t] /\ op'[t] = op[t] /\ cfg'[t] = cfg[t] /\ todo'[t] = todo[t]
    BY <1>1 DEF Gone
  <2>2. cut # {} <=> \E t \in Tasks : ProcOf[t] = p /\ (Writer(t) \/ Opening(t))
    OBVIOUS
  <2> HIDE DEF cut, mine
  <2> QED BY <1>1, <2>1, <2>2 DEF Exits
<1> QED BY <1>3, <1>4, <1>5 DEF Shape

\* All the steps of a task.
Does(t) ==
  \/ Starts(t) \/ Opens(t) \/ Loads(t) \/ Leaves(t) \/ Resolves(t) \/ Removes(t)
  \/ \E k \in todo[t] : Deletes(t, k)
  \/ Edits(t)
  \/ \E k \in todo[t] : Stores(t, k)
  \/ Truncates(t) \/ Writes(t) \/ Fails(t)

Stutters == UNCHANGED <<store, pc, op, cfg, todo, history>>

LEMMA StepIsKnown ==
    ASSUME Shape, [Next]_vars
    PROVE  Shape' /\ ((\E t \in Tasks : Does(t)) \/ (\E p \in Procs : Exits(p)) \/ Stutters)
<1>1. ASSUME NEW t \in Tasks, Start(t) \/ Step(t) \/ WriteFails(t)
      PROVE  Shape' /\ Does(t)
  BY <1>1, StartStep, OpenStep, LoadStep, ResolveStep, AddStep, RemoveStep, DeleteStep, DeletedStep,
     TenantStep, SettingStep, StoreStep, TruncateStep, WriteStep, FailStep DEF Step, Does
<1>2. ASSUME NEW p \in Procs, Exit(p)
      PROVE  Shape' /\ Exits(p)
  BY <1>2, ExitStep
<1>3. CASE UNCHANGED vars
  <2>1. Stutters
    BY <1>3 DEF vars, Stutters
  <2>2. Shape'
    BY <2>1 DEF Stutters, store, history, Shape, DataInv, TaskInv
  <2> QED BY <2>1, <2>2
<1> QED BY <1>1, <1>2, <1>3 DEF Next

-----------------------------------------------------------------------------
(* Secrets in clear, and where the directory and the file are.             *)

LEMMA PlainStep ==
    ASSUME Shape, PlainInv, [Next]_vars
    PROVE  PlainInv'
<1>1. ASSUME NEW t \in Tasks, Does(t) PROVE PlainInv'
  <2> DEFINE New == /\ pc'[t] = "strip" => WithSecrets(cfg'[t].conns) \subseteq refused' \cup todo'[t]
                    /\ pc'[t] = "write" => WithSecrets(cfg'[t].conns) \subseteq refused'
             File == fileState' = "ok" => WithSecrets(file'.conns) \subseteq refused'
  <2>1. Others(t)
    BY <1>1 DEF Does, Starts, Opens, Loads, Leaves, Resolves, Removes, Deletes, Edits, StripBegins,
                Stores, Truncates, Writes, Fails
  <2>2. refused \subseteq refused' /\ New /\ File
    <3>1. CASE Starts(t) \/ Loads(t) \/ Leaves(t) \/ Resolves(t) \/ Removes(t) \/ Fails(t)
      BY <3>1 DEF Starts, Loads, Leaves, Resolves, Removes, Fails, Gone, PlainInv, store, history
    <3>2. CASE Opens(t)
      BY <3>2 DEF Opens, PlainInv
    <3>3. CASE \E k \in todo[t] : Deletes(t, k)
      BY <3>3 DEF Deletes, PlainInv
    <3>4. CASE Edits(t)
      BY <3>4 DEF Edits, StripBegins, PlainInv, store
    <3>5. ASSUME NEW k \in todo[t], Stores(t, k) PROVE refused \subseteq refused' /\ New /\ File
      <4>1. WithSecrets(cfg[t].conns) \subseteq refused \cup todo[t]
        BY <3>5 DEF Stores, PlainInv
      <4>2. CASE refused' = refused \cup {k} /\ cfg'[t] = cfg[t]
        BY <3>5, <4>1, <4>2 DEF Stores, PlainInv
      <4>3. CASE UNCHANGED refused /\ cfg'[t].conns = Stripped(cfg[t].conns, k)
        <5>1. k \in Keys /\ cfg[t].conns \in Conns
          BY <3>5, InHand
        <5>2. WithSecrets(cfg'[t].conns) \subseteq WithSecrets(cfg[t].conns) \ {k}
          BY <3>5, <4>3, <5>1, StrippedFields DEF Stores, WithSecrets
        <5> QED BY <3>5, <4>1, <4>3, <5>2 DEF Stores, PlainInv
      <4> QED BY <3>5, <4>2, <4>3 DEF Stores
    <3>6. CASE Truncates(t)
      BY <3>6 DEF Truncates, PlainInv, history
    <3>7. CASE Writes(t)
      BY <3>7 DEF Writes, Gone, PlainInv
    <3> QED BY <1>1, <3>1, <3>2, <3>3, <3>4, <3>5, <3>6, <3>7 DEF Does
  <2>3. ASSUME NEW u \in Tasks
        PROVE  /\ pc'[u] = "strip" => WithSecrets(cfg'[u].conns) \subseteq refused' \cup todo'[u]
               /\ pc'[u] = "write" => WithSecrets(cfg'[u].conns) \subseteq refused'
    <3>1. CASE u = t
      BY <2>2, <3>1
    <3>2. CASE u # t
      BY <2>1, <2>2, <3>2 DEF Others, PlainInv
    <3> QED BY <3>1, <3>2
  <2>4. WithSecrets(file.conns)' = WithSecrets(file'.conns)
        /\ \A u \in Tasks : WithSecrets(cfg[u].conns)' = WithSecrets(cfg'[u].conns)
    BY DEF WithSecrets, SecretOf
  <2> QED BY <2>2, <2>3, <2>4 DEF PlainInv
<1>2. ASSUME NEW p \in Procs, Exits(p) PROVE PlainInv'
  BY <1>2 DEF Exits, Gone, PlainInv, WithSecrets, SecretOf
<1>3. CASE Stutters
  BY <1>3 DEF Stutters, store, history, PlainInv, WithSecrets, SecretOf
<1> QED BY <1>1, <1>2, <1>3, StepIsKnown

\* A step starts at most its own task.
LEMMA NobodyElseStarts ==
    ASSUME Shape, NEW t \in Tasks, Does(t)
    PROVE  /\ Others(t)
           /\ ~Starts(t) => /\ pc'[t] # "idle" => pc[t] # "idle"
                            /\ Writer(t)' => Writer(t)
                            /\ Opening(t)' => Opening(t)
  BY DEF Does, Starts, Opens, Loads, Leaves, Resolves, Removes, Deletes, Edits, StripBegins,
         Stores, Truncates, Writes, Fails, Gone, Writer, Opening

LEMMA PlaceStep ==
    ASSUME Shape, PlaceInv, [Next]_vars
    PROVE  PlaceInv'
<1>1. ASSUME NEW t \in Tasks, Does(t) PROVE PlaceInv'
  <2>0. Others(t) /\ pc[t] \in Labels /\ (pc[t] \in {"apply", "delete", "strip", "write"} => op[t].kind # "read")
        /\ fileState \in {"missing", "empty", "garbled", "ok"}
    BY <1>1, NobodyElseStarts, InHand DEF Shape, DataInv
  <2>1. CASE Starts(t)
    <3>1. \A u \in Tasks \ {t} : (Writer(u)' <=> Writer(u)) /\ (Opening(u)' <=> Opening(u))
      BY <2>0 DEF Others, Writer, Opening
    <3>2. /\ ~dirExists' => fileState' = "missing" /\ \A u \in Tasks : pc'[u] \in {"idle", "dir", "copy"}
          /\ \A u \in Tasks : pc'[u] \in {"copy", "copy_file", "copy_data"} => legacy'
          /\ fileState' = "empty" => (\/ \E u \in Tasks : pc'[u] \in {"write", "copy_data"}
                                      \/ troubles' \cap {"crash", "failed", "overlap"} # {})
      BY <2>0, <2>1 DEF Starts, Others, PlaceInv, store
    <3>3. ASSUME "overlap" \notin troubles'
          PROVE  /\ \A v, u \in Tasks : Writer(v)' /\ Writer(u)' => v = u
                 /\ \A v, u \in Tasks : Opening(v)' /\ pc'[u] # "idle" => v = u
                 /\ fileState' # "garbled"
                 /\ \A v \in Tasks :
                      /\ pc'[v] = "write" => fileState' = "empty"
                      /\ pc'[v] \in {"dir", "copy"} => ~dirExists'
                      /\ pc'[v] = "copy_file" => dirExists' /\ fileState' = "missing"
                      /\ pc'[v] = "copy_data" => dirExists' /\ fileState' = "empty"
      <4>1. "overlap" \notin troubles /\ ~Overlap(t, op'[t])
        BY <2>1, <3>3 DEF Starts
      <4>2. \A u \in Tasks \ {t} : ~Opening(u) /\ (Writer(u) => op'[t].kind = "read" /\ dirExists)
        BY <4>1 DEF Overlap
      <4>3. \A v, u \in Tasks : Writer(v)' /\ Writer(u)' => v = u
        BY <3>1, <4>1, <4>2 DEF PlaceInv, Writer
      <4>4. \A u \in Tasks : Opening(u)' => u = t /\ ~dirExists
        BY <2>0, <2>1, <3>1, <4>2 DEF Starts, Opening
      <4>5. ~dirExists => \A u \in Tasks \ {t} : pc'[u] = "idle"
        BY <2>0, <4>2 DEF Others, PlaceInv, Opening
      <4>6. \A v, u \in Tasks : Opening(v)' /\ pc'[u] # "idle" => v = u
        BY <4>4, <4>5
      <4> QED BY <2>0, <2>1, <4>1, <4>3, <4>6 DEF Starts, Others, PlaceInv, store
    <3> QED BY <3>2, <3>3 DEF PlaceInv
  <2>2. CASE ~Starts(t)
    <3>1. \A u \in Tasks : /\ Writer(u)' => Writer(u)
                           /\ Opening(u)' => Opening(u)
                           /\ pc'[u] # "idle" => pc[u] # "idle"
      BY <1>1, <2>2, NobodyElseStarts DEF Others, Writer, Opening
    <3>2. troubles \subseteq troubles' /\ legacy' = legacy
      BY <1>1, <2>2 DEF Does, Opens, Loads, Leaves, Resolves, Removes, Deletes, Edits, StripBegins,
                        Stores, Truncates, Writes, Fails, store, history
    <3>3. /\ ~dirExists' => fileState' = "missing" /\ \A u \in Tasks : pc'[u] \in {"idle", "dir", "copy"}
          /\ \A u \in Tasks : pc'[u] \in {"copy", "copy_file", "copy_data"} => legacy'
          /\ fileState' = "empty" => (\/ \E u \in Tasks : pc'[u] \in {"write", "copy_data"}
                                      \/ troubles' \cap {"crash", "failed", "overlap"} # {})
      <4>1. CASE Opens(t)
        BY <2>0, <4>1 DEF Opens, Others, PlaceInv
      <4>2. CASE Loads(t) \/ Leaves(t) \/ Resolves(t) \/ Removes(t) \/ (\E k \in todo[t] : Deletes(t, k))
                 \/ Edits(t) \/ (\E k \in todo[t] : Stores(t, k))
        <5>1. UNCHANGED <<dirExists, fileState>> /\ troubles \subseteq troubles'
              /\ pc[t] \in {"load", "resolve", "apply", "delete", "strip"}
              /\ pc'[t] \in {"idle", "resolve", "apply", "delete", "strip"}
          BY <4>2 DEF Loads, Leaves, Resolves, Removes, Deletes, Edits, StripBegins, Stores, Gone, store, history
        <5> QED BY <2>0, <3>2, <5>1 DEF Others, PlaceInv
      <4>3. CASE Truncates(t) \/ Writes(t) \/ Fails(t)
        <5>1. dirExists' = dirExists /\ pc[t] \in {"strip", "write"} /\ pc'[t] \in {"idle", "write"}
              /\ (fileState' = "empty" => pc'[t] = "write" \/ "failed" \in troubles')
          BY <4>3 DEF Truncates, Writes, Fails, Gone, store
        <5> QED BY <2>0, <3>2, <5>1 DEF Others, PlaceInv
      <4> QED BY <1>1, <2>2, <4>1, <4>2, <4>3 DEF Does
    <3>4. ASSUME "overlap" \notin troubles'
          PROVE  /\ fileState' # "garbled"
                 /\ \A v \in Tasks :
                      /\ pc'[v] = "write" => fileState' = "empty"
                      /\ pc'[v] \in {"dir", "copy"} => ~dirExists'
                      /\ pc'[v] = "copy_file" => dirExists' /\ fileState' = "missing"
                      /\ pc'[v] = "copy_data" => dirExists' /\ fileState' = "empty"
      <4>0. "overlap" \notin troubles
        BY <3>2, <3>4
      <4>1. CASE Opens(t)
        <5>1. Opening(t) /\ \A u \in Tasks \ {t} : pc[u] = "idle"
          BY <4>0, <4>1 DEF Opens, Opening, PlaceInv
        <5>2. \A u \in Tasks \ {t} : pc'[u] = "idle"
          BY <2>0, <5>1 DEF Others
        <5> QED BY <2>0, <4>0, <4>1, <5>1, <5>2 DEF Opens, PlaceInv
      <4>2. CASE Loads(t) \/ Leaves(t) \/ Resolves(t) \/ Removes(t) \/ (\E k \in todo[t] : Deletes(t, k))
                 \/ Edits(t) \/ (\E k \in todo[t] : Stores(t, k))
        <5>1. UNCHANGED <<dirExists, fileState>> /\ pc'[t] \in {"idle", "resolve", "apply", "delete", "strip"}
          BY <4>2 DEF Loads, Leaves, Resolves, Removes, Deletes, Edits, StripBegins, Stores, Gone, store, history
        <5> QED BY <2>0, <4>0, <5>1 DEF Others, PlaceInv
      <4>3. CASE Truncates(t) \/ Writes(t) \/ Fails(t)
        <5>1. Writer(t) /\ pc[t] \in {"strip", "write"}
          BY <2>0, <4>3 DEF Truncates, Writes, Fails, Writer
        <5>2. \A u \in Tasks \ {t} : ~Writer(u) /\ ~Opening(u)
          BY <4>0, <5>1 DEF PlaceInv, Writer
        <5>3. \A u \in Tasks \ {t} : pc'[u] \notin {"write", "dir", "copy", "copy_file", "copy_data"}
          <6>1. \A u \in Tasks \ {t} : pc[u] # "write"
            BY <5>2, InHand DEF Writer
          <6> QED BY <2>0, <5>2, <6>1 DEF Others, Opening
        <5> QED BY <2>0, <4>0, <4>3, <5>3 DEF Truncates, Writes, Fails, Gone, PlaceInv, store
      <4> QED BY <1>1, <2>2, <4>1, <4>2, <4>3 DEF Does
    <3>5. ASSUME "overlap" \notin troubles'
          PROVE  /\ \A v, u \in Tasks : Writer(v)' /\ Writer(u)' => v = u
                 /\ \A v, u \in Tasks : Opening(v)' /\ pc'[u] # "idle" => v = u
      BY <3>1, <3>2, <3>5 DEF PlaceInv
    <3> QED BY <3>3, <3>4, <3>5 DEF PlaceInv
  <2> QED BY <2>1, <2>2
<1>2. ASSUME NEW p \in Procs, Exits(p) PROVE PlaceInv'
  <2>1. \A u \in Tasks : /\ pc'[u] # "idle" => pc'[u] = pc[u] /\ op'[u] = op[u]
                         /\ pc'[u] = "idle" /\ pc[u] # "idle" => ProcOf[u] = p
    BY <1>2 DEF Exits, Gone
  <2>2. \A u \in Tasks : (Writer(u)' => Writer(u)) /\ (Opening(u)' => Opening(u))
    BY <2>1 DEF Writer, Opening
  <2>3. UNCHANGED <<dirExists, legacy, fileState>> /\ troubles \subseteq troubles'
        /\ \A u \in Tasks : ProcOf[u] = p /\ (Writer(u) \/ Opening(u)) => "crash" \in troubles'
    BY <1>2 DEF Exits
  <2>4. \A u \in Tasks : pc[u] \in {"write", "copy_data"} =>
          (Writer(u) \/ Opening(u)) /\ (pc'[u] = pc[u] \/ "crash" \in troubles')
    BY <2>1, <2>3, InHand DEF Writer, Opening
  <2>5. fileState' = "empty" => (\/ \E u \in Tasks : pc'[u] \in {"write", "copy_data"}
                                 \/ troubles' \cap {"crash", "failed", "overlap"} # {})
    BY <2>3, <2>4 DEF PlaceInv
  <2> QED BY <2>1, <2>2, <2>3, <2>5 DEF PlaceInv
<1>3. CASE Stutters
  BY <1>3 DEF Stutters, store, history, PlaceInv, Writer, Opening
<1> QED BY <1>1, <1>2, <1>3, StepIsKnown

-----------------------------------------------------------------------------
(* References without a secret.                                            *)

LEMMA LostStep ==
    ASSUME Shape, PlaceInv, LostInv, [Next]_vars
    PROVE  LostInv'
<1>1. ASSUME NEW t \in Tasks, Does(t), "dropped" \notin troubles' PROVE LostInv'
  <2>0. Others(t) /\ TaskOK(pc[t], op[t], cfg[t], todo[t])
    BY <1>1, NobodyElseStarts DEF Shape, TaskInv
  <2>1. troubles \subseteq troubles' /\ "dropped" \notin troubles /\ deleted \subseteq deleted'
    BY <1>1 DEF Does, Starts, Opens, Loads, Leaves, Resolves, Removes, Deletes, Edits, StripBegins,
                Stores, Truncates, Writes, Fails, store, history
  <2>2. Calm' => Calm /\ "overlap" \notin troubles
    BY <2>1 DEF Calm
  <2>3. ASSUME Calm', Writer(t) PROVE \A u \in Tasks \ {t} : ~Writer(u)
    BY <2>2, <2>3 DEF PlaceInv
  <2>4. CASE Starts(t) \/ Opens(t) \/ Leaves(t) \/ Fails(t)
    <3>1. keyring' = keyring /\ ~Holds(t)'
      BY <2>4 DEF Starts, Opens, Leaves, Fails, Gone, Holds, store
    <3>2. ~Late(t) \/ ~Calm'
      BY <2>4 DEF Starts, Opens, Leaves, Fails, Late, Calm
    <3>3. fileState' = "ok" => \A k \in Keys : Lost(keyring, file'.conns, k) =>
                                fileState = "ok" /\ Lost(keyring, file.conns, k)
      BY <2>4, LegacyConfigFields DEF Starts, Opens, Leaves, Fails, store, Lost
    <3>4. \A k \in Keys : LostInFile(k) => LostInFile(k)'
      BY <2>0, <2>1, <2>2, <3>2 DEF LostInFile, Others, Late
    <3>5. \A u \in Tasks \ {t}, k \in Keys : LostInCopy(u, k) => LostInCopy(u, k)'
      BY <2>0, <2>1, <2>2 DEF LostInCopy, Others
    <3>6. \A u \in Tasks \ {t}, k \in Keys : Holds(u)' /\ Lost(keyring', cfg'[u].conns, k) => LostInCopy(u, k)'
      BY <2>0, <2>1, <3>1, <3>5 DEF LostInv, Holds, Others
    <3> QED BY <2>1, <3>1, <3>3, <3>4, <3>6 DEF LostInv
  <2>5. CASE Loads(t) \/ Resolves(t) \/ Removes(t) \/ Edits(t)
    <3>1. UNCHANGED <<fileState, file, keyring, deleted>> /\ (Late(t) => Late(t)' /\ op'[t] = op[t])
      BY <2>5 DEF Loads, Resolves, Removes, Edits, StripBegins, store, history, Late
    <3>2. \A k \in Keys : LostInFile(k) => LostInFile(k)'
      BY <2>0, <2>2, <3>1 DEF LostInFile, Others, Late
    <3>3. \A u \in Tasks \ {t}, k \in Keys : LostInCopy(u, k) => LostInCopy(u, k)'
      BY <2>0, <2>2, <3>1 DEF LostInCopy, Others
    <3>4. ASSUME NEW k \in Keys, Holds(t)', Lost(keyring', cfg'[t].conns, k) PROVE LostInCopy(t, k)'
      <4>1. CASE Loads(t)
        <5>1. /\ fileState = "ok" /\ Lost(keyring, file.conns, k)
              /\ op[t].kind # "read" /\ pc[t] = "load"
          BY <3>1, <3>4, <4>1, EmptyConfigFields DEF Loads, Current, Lost, Holds
        <5>2. LostInFile(k)
          BY <2>1, <5>1 DEF LostInv
        <5>3. ~Calm'
          BY <2>2, <2>3, <5>1, <5>2, InHand DEF LostInFile, Late, Writer
        <5> QED BY <3>1, <5>2, <5>3 DEF LostInFile, LostInCopy
      <4>2. CASE Resolves(t)
        <5>1. op[t].kind # "read" /\ pc[t] = "resolve" /\ cfg'[t].conns = Resolved(ProcOf[t], cfg[t].conns)
          BY <3>4, <4>2 DEF Resolves, Holds, Gone
        <5>2. Lost(keyring, cfg[t].conns, k)
          BY <3>1, <3>4, <5>1, InHand, ResolvedFields DEF Lost
        <5>3. LostInCopy(t, k)
          BY <2>1, <5>1, <5>2 DEF LostInv, Holds
        <5> QED BY <2>2, <3>1, <5>1, <5>3 DEF LostInCopy
      <4>3. CASE Removes(t)
        <5>1. LostInCopy(t, k) /\ pc[t] = "apply"
          BY <2>1, <3>1, <3>4, <4>3 DEF LostInv, Holds, Removes
        <5> QED BY <2>2, <3>1, <5>1 DEF LostInCopy
      <4>4. CASE Edits(t)
        <5>1. /\ RefOf(cfg[t].conns, k) = RefOf(cfg'[t].conns, k)
              /\ SecretOf(cfg[t].conns, k) = SecretOf(cfg'[t].conns, k)
              /\ pc[t] = "delete" => k[2] # op[t].name
          BY <3>4, <4>4 DEF Edits, EditsKey, Lost
        <5>2. LostInCopy(t, k)
          BY <2>1, <3>1, <3>4, <4>4, <5>1 DEF LostInv, Holds, Lost, Edits, StripBegins
        <5> QED BY <2>2, <3>1, <5>1, <5>2 DEF LostInCopy
      <4> QED BY <2>5, <4>1, <4>2, <4>3, <4>4
    <3>5. \A u \in Tasks \ {t}, k \in Keys : Holds(u)' /\ Lost(keyring', cfg'[u].conns, k) => LostInCopy(u, k)'
      BY <2>0, <2>1, <3>1, <3>3 DEF LostInv, Holds, Others
    <3> QED BY <2>1, <3>1, <3>2, <3>4, <3>5 DEF LostInv
  <2>6. ASSUME NEW j \in todo[t], Deletes(t, j) PROVE LostInv'
    <3>1. Writer(t) /\ Late(t)' /\ op'[t].kind = "remove" /\ op'[t].name = j[2] /\ pc'[t] = "delete"
          /\ op'[t].name = op[t].name /\ cfg'[t] = cfg[t] /\ j \in Keys
          /\ UNCHANGED <<fileState, file>> /\ Holds(t)
      BY <2>6 DEF Deletes, Writer, Late, Holds
    <3>2. keyring' = keyring \/ (keyring' = [keyring EXCEPT ![j] = NoValue] /\ j \in deleted')
      BY <2>6 DEF Deletes
    <3>3. \A k \in Keys \ {j} : keyring'[k] = keyring[k]
      BY <3>2 DEF Shape, DataInv
    <3>4. \A k \in Keys : LostInFile(k) => LostInFile(k)'
      BY <2>0, <2>1, <2>2, <2>6 DEF LostInFile, Others, Late, Deletes
    <3>5. j \in deleted' => LostInFile(j)' /\ LostInCopy(t, j)'
      BY <3>1 DEF LostInFile, LostInCopy
    <3>6. \A k \in Keys : Lost(keyring', file.conns, k) => (k = j /\ j \in deleted') \/ Lost(keyring, file.conns, k)
      BY <3>2, <3>3 DEF Lost
    <3>7. \A u \in Tasks, k \in Keys : Lost(keyring', cfg[u].conns, k) =>
            (k = j /\ j \in deleted') \/ Lost(keyring, cfg[u].conns, k)
      BY <3>2, <3>3 DEF Lost
    <3>8. ASSUME NEW u \in Tasks, NEW k \in Keys, Holds(u)', Lost(keyring', cfg'[u].conns, k)
          PROVE  LostInCopy(u, k)'
      <4>1. cfg'[u] = cfg[u] /\ Holds(u) /\ pc'[u] = pc[u] /\ op'[u] = op[u]
        BY <2>0, <2>6, <3>1, <3>8 DEF Others, Holds, Deletes
      <4>2. (k = j /\ j \in deleted') \/ LostInCopy(u, k)
        BY <2>1, <3>7, <3>8, <4>1 DEF LostInv
      <4>3. u # t => ~Calm'
        BY <2>3, <3>1, <4>1 DEF Holds, Writer
      <4> QED BY <2>1, <2>2, <3>1, <3>5, <4>1, <4>2, <4>3 DEF LostInCopy
    <3> QED BY <2>1, <3>1, <3>4, <3>5, <3>6, <3>8 DEF LostInv
  <2>7. ASSUME NEW j \in todo[t], Stores(t, j) PROVE LostInv'
    <3> DEFINE c == cfg[t].conns
    <3>1. /\ c \in Conns /\ j \in Keys /\ c[j[2]] # NoConn /\ SecretOf(c, j) # NoValue
          /\ pc'[t] = "strip" /\ pc[t] = "strip" /\ op'[t] = op[t] /\ Holds(t)
          /\ UNCHANGED <<fileState, file, deleted>>
      BY <2>7, InHand DEF Stores, WithSecrets, Holds
    <3>2. \/ keyring' = [keyring EXCEPT ![j] = SecretOf(c, j)] /\ cfg'[t].conns = Stripped(c, j)
          \/ keyring' = keyring /\ cfg'[t].conns = c
      BY <1>1, <2>7 DEF Stores
    <3>3. \A k \in Keys : keyring'[k] = NoValue => keyring[k] = NoValue
      BY <3>1, <3>2 DEF Shape, DataInv
    <3>4. \A k \in Keys : Lost(keyring', cfg'[t].conns, k) => Lost(keyring, c, k)
      <4>1. CASE keyring' = keyring /\ cfg'[t].conns = c
        BY <4>1
      <4>2. CASE keyring' = [keyring EXCEPT ![j] = SecretOf(c, j)] /\ cfg'[t].conns = Stripped(c, j)
        <5>1. keyring'[j] # NoValue
          BY <3>1, <4>2 DEF Shape, DataInv
        <5>2. \A k \in Keys \ {j} : /\ RefOf(cfg'[t].conns, k) = RefOf(c, k)
                                    /\ SecretOf(cfg'[t].conns, k) = SecretOf(c, k)
          BY <3>1, <4>2, StrippedFields
        <5> QED BY <3>3, <5>1, <5>2 DEF Lost
      <4> QED BY <3>2, <4>1, <4>2
    <3>5. \A k \in Keys : LostInFile(k) => LostInFile(k)'
      BY <2>0, <2>2, <3>1 DEF LostInFile, Others, Late
    <3>6. \A u \in Tasks, k \in Keys : LostInCopy(u, k) => LostInCopy(u, k)'
      BY <2>0, <2>2, <3>1 DEF LostInCopy, Others
    <3>7. \A k \in Keys : Lost(keyring', file.conns, k) => Lost(keyring, file.conns, k)
      BY <3>3 DEF Lost
    <3>8. ASSUME NEW u \in Tasks, NEW k \in Keys, Holds(u)', Lost(keyring', cfg'[u].conns, k)
          PROVE  LostInCopy(u, k)'
      <4>1. Holds(u) /\ (u # t => cfg'[u] = cfg[u])
        BY <2>0, <3>1, <3>8 DEF Others, Holds
      <4>2. Lost(keyring, cfg[u].conns, k)
        BY <3>3, <3>4, <3>8, <4>1 DEF Lost
      <4> QED BY <2>1, <3>6, <4>1, <4>2 DEF LostInv
    <3> QED BY <2>1, <3>1, <3>5, <3>7, <3>8 DEF LostInv
  <2>8. CASE Truncates(t)
    <3>1. fileState' = "empty" /\ keyring' = keyring /\ deleted' = deleted /\ cfg'[t] = cfg[t]
          /\ pc[t] = "strip" /\ pc'[t] = "write" /\ op'[t] = op[t]
      BY <2>8 DEF Truncates, history
    <3>2. ASSUME NEW u \in Tasks, NEW k \in Keys, Holds(u)', Lost(keyring', cfg'[u].conns, k)
          PROVE  LostInCopy(u, k)'
      <4>1. Holds(u) /\ cfg'[u] = cfg[u]
        BY <2>0, <3>1, <3>2 DEF Others, Holds
      <4>2. LostInCopy(u, k)
        BY <2>1, <3>1, <3>2, <4>1 DEF LostInv
      <4> QED BY <2>0, <2>2, <3>1, <4>2 DEF LostInCopy, Others
    <3> QED BY <3>1, <3>2 DEF LostInv
  <2>9. CASE Writes(t)
    <3>1. /\ keyring' = keyring /\ deleted' = deleted /\ ~Holds(t)' /\ Holds(t) /\ pc[t] = "write"
          /\ fileState' = "ok" => file' = cfg[t]
      BY <2>9 DEF Writes, Gone, Holds
    <3>2. ASSUME NEW u \in Tasks, NEW k \in Keys, Holds(u)', Lost(keyring', cfg'[u].conns, k)
          PROVE  LostInCopy(u, k)'
      <4>1. u # t /\ Holds(u) /\ cfg'[u] = cfg[u]
        BY <2>0, <3>1, <3>2 DEF Others, Holds
      <4>2. LostInCopy(u, k)
        BY <2>1, <3>1, <3>2, <4>1 DEF LostInv
      <4> QED BY <2>0, <2>2, <3>1, <4>1, <4>2 DEF LostInCopy, Others
    <3>3. ASSUME NEW k \in Keys, fileState' = "ok", Lost(keyring', file'.conns, k) PROVE LostInFile(k)'
      <4>1. LostInCopy(t, k)
        BY <2>1, <3>1, <3>3 DEF LostInv
      <4> QED BY <2>2, <3>1, <4>1 DEF LostInCopy, LostInFile
    <3> QED BY <3>2, <3>3 DEF LostInv
  <2> QED BY <1>1, <2>4, <2>5, <2>6, <2>7, <2>8, <2>9 DEF Does
<1>2. ASSUME NEW p \in Procs, Exits(p) PROVE LostInv'
  <2>1. /\ UNCHANGED <<fileState, file, keyring, deleted>> /\ troubles \subseteq troubles'
        /\ \A u \in Tasks : Writer(u) /\ ProcOf[u] = p => ~Calm'
    BY <1>2 DEF Exits, Calm
  <2>2. \A u \in Tasks : Late(u) => Writer(u)
    BY InHand DEF Late, Writer
  <2>3. \A u \in Tasks : ProcOf[u] # p => pc'[u] = pc[u] /\ op'[u] = op[u] /\ cfg'[u] = cfg[u]
    BY <1>2 DEF Exits
  <2>4. \A u \in Tasks : ProcOf[u] = p => ~Holds(u)'
    BY <1>2 DEF Exits, Gone, Holds
  <2>5. Calm' => Calm
    BY <2>1 DEF Calm
  <2>6. \A k \in Keys : LostInFile(k) => LostInFile(k)'
    BY <2>1, <2>2, <2>3, <2>5 DEF LostInFile, Late
  <2>7. ASSUME NEW u \in Tasks, NEW k \in Keys, "dropped" \notin troubles', Holds(u)', Lost(keyring', cfg'[u].conns, k)
        PROVE  LostInCopy(u, k)'
    <3>1. ProcOf[u] # p /\ Holds(u)
      BY <2>3, <2>4, <2>7 DEF Holds
    <3>2. LostInCopy(u, k)
      BY <2>1, <2>3, <2>7, <3>1 DEF LostInv
    <3> QED BY <2>1, <2>3, <2>5, <3>1, <3>2 DEF LostInCopy
  <2> QED BY <2>1, <2>6, <2>7 DEF LostInv
<1>3. CASE Stutters
  BY <1>3 DEF Stutters, store, history, LostInv, LostInFile, LostInCopy, Calm, Late, Holds, Lost
<1>4. CASE "dropped" \in troubles'
  BY <1>4 DEF LostInv
<1> QED BY <1>1, <1>2, <1>3, <1>4, StepIsKnown

-----------------------------------------------------------------------------
(* Entries without a reference.                                            *)

\* Without trouble a task that edits is the only one.
LEMMA OneEditor ==
    ASSUME Shape, PlaceInv, Pure, NEW t \in Tasks, Writer(t)
    PROVE  \A u \in Tasks \ {t} : (op[u].kind # "read" => pc[u] = "idle") /\ ~Late(u) /\ ~Opening(u)
<1>1. "overlap" \notin troubles /\ \A u \in Tasks \ {t} : ~Writer(u) /\ ~Opening(u)
  BY DEF Pure, PlaceInv, Writer
<1> QED BY <1>1, InHand DEF Writer, Late

\* What a process that exits in the middle of nothing leaves.
LEMMA CalmExit ==
    ASSUME Shape, NEW p \in Procs, Exits(p), Pure'
    PROVE  /\ Pure /\ UNCHANGED <<dirExists, legacy, fileState, file, keyring, avail, intended, abandoned>>
           /\ \A u \in Tasks : \/ pc'[u] = pc[u] /\ op'[u] = op[u] /\ cfg'[u] = cfg[u] /\ todo'[u] = todo[u]
                               \/ pc'[u] = "idle" /\ op'[u].kind = "read" /\ ~Late(u) /\ ~Opening(u)
<1>1. troubles' = troubles /\ \A u \in Tasks : ProcOf[u] = p => ~Writer(u) /\ ~Opening(u)
  BY DEF Exits, Pure
<1>2. \A u \in Tasks : Late(u) => Writer(u)
  BY InHand DEF Late, Writer
<1> QED BY <1>1, <1>2, ReadOperation DEF Exits, Gone, Pure

LEMMA OrphanStep ==
    ASSUME Shape, PlaceInv, OrphanInv, [Next]_vars
    PROVE  OrphanInv'
<1> SUFFICES ASSUME Pure', NEW k \in Keys, keyring'[k] # NoValue, k \notin abandoned'
             PROVE  /\ (\A u \in Tasks : ~Late(u)') => RefOf(Current', k)
                    /\ \A u \in Tasks : op'[u].kind # "read" => Referenced(u, k)'
  BY DEF OrphanInv
<1>1. ASSUME NEW t \in Tasks, Does(t)
      PROVE  /\ (\A u \in Tasks : ~Late(u)') => RefOf(Current', k)
             /\ \A u \in Tasks : op'[u].kind # "read" => Referenced(u, k)'
  <2>0. Others(t) /\ TaskOK(pc[t], op[t], cfg[t], todo[t])
    BY <1>1, NobodyElseStarts DEF Shape, TaskInv
  <2>1. Pure /\ "overlap" \notin troubles /\ k \notin abandoned
    BY <1>1 DEF Does, Starts, Opens, Loads, Leaves, Resolves, Removes, Deletes, Edits, StripBegins,
                Stores, Truncates, Writes, Fails, store, history, Pure
  <2>2. \A u \in Tasks \ {t} : Referenced(u, k) => Referenced(u, k)'
    BY <2>0 DEF Others, Referenced
  <2>3. CASE Starts(t) \/ Leaves(t) \/ Opens(t)
    <3>1. keyring' = keyring /\ ~Late(t) /\ pc'[t] \in {"idle", "dir", "copy", "copy_file", "copy_data", "load"}
      BY <2>3 DEF Starts, Leaves, Opens, Gone, store, Late
    <3>2. RefOf(Current, k) => RefOf(Current', k)
      BY <2>1, <2>3, EmptyConfigFields DEF Starts, Leaves, Opens, store, Current, PlaceInv
    <3>3. (\A u \in Tasks : ~Late(u)') => \A u \in Tasks : ~Late(u)
      BY <2>0, <3>1 DEF Others, Late
    <3>4. Referenced(t, k)'
      BY <3>1 DEF Referenced
    <3>5. \A u \in Tasks \ {t} : op'[u].kind # "read" => Referenced(u, k)'
      BY <2>0, <2>1, <2>2, <3>1 DEF OrphanInv, Others
    <3> QED BY <2>1, <3>1, <3>2, <3>3, <3>4, <3>5 DEF OrphanInv
  <2>4. CASE Loads(t) \/ Resolves(t)
    <3>1. keyring' = keyring /\ Current' = Current /\ ~Late(t)
      BY <2>4 DEF Loads, Resolves, store, Current, Late
    <3>2. (\A u \in Tasks : ~Late(u)') => \A u \in Tasks : ~Late(u)
      BY <2>0, <3>1 DEF Others, Late
    <3>3. \A u \in Tasks \ {t} : op'[u].kind # "read" => Referenced(u, k)'
      BY <2>0, <2>1, <2>2, <3>1 DEF OrphanInv, Others
    <3>4. ASSUME op'[t].kind # "read" PROVE Referenced(t, k)'
      <4>1. op[t].kind # "read" /\ Writer(t)
        BY <2>4, <3>4, ReadOperation DEF Loads, Resolves, Gone, Writer
      <4>2. CASE Loads(t)
        <5>1. \A u \in Tasks : ~Late(u)
          BY <2>1, <3>1, <4>1, OneEditor
        <5> QED BY <2>1, <3>1, <4>2, <5>1 DEF OrphanInv, Loads, Referenced
      <4>3. CASE Resolves(t)
        <5>1. RefOf(cfg[t].conns, k)
          BY <2>1, <3>1, <4>1, <4>3 DEF OrphanInv, Referenced, Resolves
        <5>2. RefOf(cfg'[t].conns, k) /\ pc'[t] = "apply"
          BY <4>1, <4>3, <5>1, InHand, ResolvedFields DEF Resolves
        <5> QED BY <5>2 DEF Referenced
      <4> QED BY <2>4, <4>2, <4>3
    <3> QED BY <2>1, <3>1, <3>2, <3>3, <3>4 DEF OrphanInv
  <2>5. CASE Writer(t) /\ Late(t)' /\ (op'[t].kind # "read" => Referenced(t, k)')
    <3>1. \A u \in Tasks \ {t} : op'[u].kind # "read" => pc'[u] = "idle"
      BY <2>0, <2>1, <2>5, OneEditor DEF Others
    <3>2. \A u \in Tasks \ {t} : op'[u].kind # "read" => Referenced(u, k)'
      BY <3>1 DEF Referenced
    <3> QED BY <2>5, <3>2
  <2>6. CASE Removes(t)
    <3>1. keyring' = keyring /\ RefOf(cfg[t].conns, k) /\ Writer(t)
      BY <2>1, <2>6 DEF Removes, OrphanInv, Referenced, Writer, store
    <3>2. Referenced(t, k)' /\ Late(t)'
      BY <2>6, <3>1 DEF Removes, Referenced, Late
    <3> QED BY <2>5, <3>1, <3>2
  <2>7. ASSUME NEW j \in todo[t], Deletes(t, j)
        PROVE  Writer(t) /\ Late(t)' /\ Referenced(t, k)'
    <3>1. k # j /\ keyring[k] # NoValue
      BY <2>7 DEF Deletes, Shape, DataInv
    <3>2. Referenced(t, k)
      BY <2>1, <2>7, <3>1 DEF OrphanInv, Deletes
    <3> QED BY <2>7, <3>1, <3>2 DEF Deletes, Referenced, Writer, Late
  <2>8. CASE Edits(t)
    <3>1. keyring' = keyring /\ Writer(t) /\ Late(t)' /\ pc'[t] = "strip"
      BY <2>8 DEF Edits, StripBegins, store, Writer, Late
    <3>2. Referenced(t, k) /\ EditsKey(t, k)
      BY <2>1, <2>8, <3>1 DEF OrphanInv, Edits, StripBegins
    <3>3. RefOf(cfg'[t].conns, k) \/ k \in todo'[t]
      <4>1. CASE pc[t] = "apply" /\ SecretOf(cfg'[t].conns, k) # NoValue
        BY <2>8, <4>1 DEF Edits, StripBegins, WithSecrets
      <4>2. CASE pc[t] = "apply" /\ SecretOf(cfg'[t].conns, k) = NoValue
        BY <3>2, <4>2 DEF EditsKey, Referenced
      <4>3. CASE pc[t] = "delete"
        BY <3>2, <4>3 DEF EditsKey, Referenced
      <4> QED BY <2>8, <4>1, <4>2, <4>3 DEF Edits, StripBegins
    <3>4. Referenced(t, k)'
      BY <3>1, <3>3 DEF Referenced
    <3> QED BY <2>5, <3>1, <3>4
  <2>9. ASSUME NEW j \in todo[t], Stores(t, j)
        PROVE  Writer(t) /\ Late(t)' /\ Referenced(t, k)'
    <3>0. cfg[t].conns \in Conns /\ j \in Keys
      BY <2>9, InHand
    <3>1. CASE k = j
      <4>1. cfg'[t].conns = Stripped(cfg[t].conns, j)
        BY <2>9, <3>1 DEF Stores, Pure
      <4>2. RefOf(cfg'[t].conns, k)
        BY <2>9, <3>0, <3>1, <4>1, StrippedFields DEF Stores
      <4> QED BY <2>9, <4>2 DEF Stores, Referenced, Writer, Late
    <3>2. CASE k # j
      <4>1. keyring[k] # NoValue
        BY <2>9, <3>2 DEF Stores, Shape, DataInv
      <4>2. RefOf(cfg[t].conns, k) \/ k \in todo[t]
        BY <2>1, <2>9, <4>1 DEF OrphanInv, Stores, Referenced
      <4>3. RefOf(cfg[t].conns, k) => RefOf(cfg'[t].conns, k)
        BY <2>9, <3>0, <3>2, StrippedFields DEF Stores
      <4> QED BY <2>9, <3>2, <4>2, <4>3 DEF Stores, Referenced, Writer, Late
    <3> QED BY <3>1, <3>2
  <2>10. CASE Truncates(t)
    <3>1. Writer(t) /\ Late(t)' /\ keyring' = keyring
      BY <2>10 DEF Truncates, Writer, Late
    <3>2. Referenced(t, k)'
      BY <2>1, <2>10, <3>1 DEF OrphanInv, Truncates, Referenced
    <3> QED BY <2>5, <3>1, <3>2
  <2>11. CASE Writes(t)
    <3>1. Writer(t) /\ keyring' = keyring /\ fileState' = "ok" /\ file' = cfg[t] /\ op'[t].kind = "read"
      BY <2>1, <2>11, ReadOperation DEF Writes, Writer, Gone, PlaceInv
    <3>2. RefOf(cfg[t].conns, k)
      BY <2>1, <2>11, <3>1 DEF OrphanInv, Referenced, Writes
    <3>3. \A u \in Tasks \ {t} : op'[u].kind # "read" => pc'[u] = "idle"
      BY <2>0, <2>1, <3>1, OneEditor DEF Others
    <3> QED BY <3>1, <3>2, <3>3 DEF Current, Referenced
  <2>12. ~Fails(t)
    BY DEF Fails, Pure
  <2> QED BY <1>1, <2>3, <2>4, <2>5, <2>6, <2>7, <2>8, <2>9, <2>10, <2>11, <2>12 DEF Does
<1>2. ASSUME NEW p \in Procs, Exits(p)
      PROVE  /\ (\A u \in Tasks : ~Late(u)') => RefOf(Current', k)
             /\ \A u \in Tasks : op'[u].kind # "read" => Referenced(u, k)'
  BY <1>2, CalmExit DEF OrphanInv, Current, Late, Referenced
<1>3. CASE Stutters
  BY <1>3 DEF Stutters, store, history, OrphanInv, Current, Late, Referenced, Pure
<1> QED BY <1>1, <1>2, <1>3, StepIsKnown

-----------------------------------------------------------------------------
(* Edits are kept.                                                         *)

\* What a connection table and the keyring together have for a key.
View(kr, conns, k) == IF RefOf(conns, k) /\ kr[k] # NoValue THEN kr[k] ELSE SecretOf(conns, k)

\* Two tables that show the same show it to the user, too.
LEMMA SameView ==
    ASSUME NEW kr, NEW c \in Conns, NEW ks, NEW d \in Conns, NEW w, NEW n \in Names,
           MatchesAt(kr, c, w, n), (d[n] = NoConn) = (c[n] = NoConn),
           c[n] # NoConn => d[n].multi = c[n].multi /\ d[n].tenant = c[n].tenant,
           \A kd \in Kinds : View(ks, d, <<kd, n>>) = View(kr, c, <<kd, n>>)
    PROVE  MatchesAt(ks, d, w, n)
<1>1. CASE c[n] = NoConn
  BY <1>1 DEF MatchesAt
<1>2. CASE c[n] # NoConn
  <2>1. ASSUME NEW kd \in Kinds
        PROVE  /\ RefOf(c, <<kd, n>>) = c[n].ref[kd] /\ RefOf(d, <<kd, n>>) = d[n].ref[kd]
               /\ SecretOf(c, <<kd, n>>) = c[n].secret[kd] /\ SecretOf(d, <<kd, n>>) = d[n].secret[kd]
    <3>1. <<kd, n>>[1] = kd /\ <<kd, n>>[2] = n
      OBVIOUS
    <3>2. d[n] # NoConn /\ c[n].ref[kd] \in BOOLEAN /\ d[n].ref[kd] \in BOOLEAN
      BY <1>2 DEF Conns, Conn
    <3> QED BY <1>2, <3>1, <3>2 DEF RefOf, SecretOf
  <2>2. ASSUME NEW kd \in Kinds
        PROVE  w.secret[kd] = IF d[n].ref[kd] /\ ks[<<kd, n>>] # NoValue THEN ks[<<kd, n>>] ELSE d[n].secret[kd]
    <3>1. w.secret[kd] = IF c[n].ref[kd] /\ kr[<<kd, n>>] # NoValue THEN kr[<<kd, n>>] ELSE c[n].secret[kd]
      BY <1>2 DEF MatchesAt
    <3>2. w.secret[kd] = View(kr, c, <<kd, n>>)
      BY <2>1, <3>1 DEF View
    <3>3. w.secret[kd] = View(ks, d, <<kd, n>>)
      BY <3>2
    <3> QED BY <2>1, <3>3 DEF View
  <2> QED BY <1>2, <2>2 DEF MatchesAt
<1> QED BY <1>1, <1>2

\* A table without references shows what is in it.
LEMMA PlainTable ==
    ASSUME NEW kr, NEW c \in Conns, \A k \in Keys : ~RefOf(c, k)
    PROVE  Matches(kr, c, IntendedOf(c)) /\ IntendedOf(c) \in [Names -> Wanted \cup {NoConn}]
<1>1. ASSUME NEW n \in Names
      PROVE  MatchesAt(kr, c, IntendedOf(c)[n], n) /\ IntendedOf(c)[n] \in Wanted \cup {NoConn}
  <2>1. CASE c[n] = NoConn
    BY <2>1 DEF MatchesAt, IntendedOf
  <2>2. CASE c[n] # NoConn
    <3> DEFINE w == [secret |-> c[n].secret, multi |-> c[n].multi, tenant |-> c[n].tenant]
    <3>1. IntendedOf(c)[n] = w
      BY <2>2 DEF IntendedOf
    <3>2. w \in Wanted
      BY <2>2 DEF Conns, Conn, Wanted
    <3>3. w # NoConn
      BY <3>2, ConnAssumption
    <3>4. ASSUME NEW kd \in Kinds PROVE ~c[n].ref[kd]
      <4>1. <<kd, n>> \in Keys /\ <<kd, n>>[1] = kd /\ <<kd, n>>[2] = n
        BY KeyParts
      <4> QED BY <2>2, <4>1 DEF RefOf
    <3>5. w.secret = c[n].secret /\ w.multi = c[n].multi /\ w.tenant = c[n].tenant
      OBVIOUS
    <3> HIDE DEF w
    <3> QED BY <2>2, <3>1, <3>2, <3>3, <3>4, <3>5 DEF MatchesAt
  <2> QED BY <2>1, <2>2
<1>2. IntendedOf(c) = [n \in Names |-> IntendedOf(c)[n]]
  BY DEF IntendedOf
<1> QED BY <1>1, <1>2 DEF Matches

\* Reading secrets that are not stale changes nothing the user sees.
LEMMA ResolvedShows ==
    ASSUME Shape, NEW t \in Tasks, ~Stale(t),
           Matches(keyring, cfg[t].conns, intended)
    PROVE  /\ Matches(keyring, Resolved(ProcOf[t], cfg[t].conns), intended)
           /\ avail[ProcOf[t]] =>
                \A k \in Keys : Fresh(keyring, Resolved(ProcOf[t], cfg[t].conns), k)
<1> DEFINE c == cfg[t].conns
           p == ProcOf[t]
           d == Resolved(p, c)
<1>1. c \in Conns /\ p \in Procs
  BY InHand
<1>2. /\ d \in Conns /\ \A n \in Names : (d[n] = NoConn) = (c[n] = NoConn)
      /\ \A n \in Names : c[n] # NoConn => d[n].multi = c[n].multi /\ d[n].tenant = c[n].tenant
      /\ \A k \in Keys : RefOf(d, k) = RefOf(c, k)
      /\ \A k \in Keys : SecretOf(d, k) =
           IF RefOf(c, k) /\ Got(p, k) # NoValue THEN Got(p, k) ELSE SecretOf(c, k)
  BY <1>1, ResolvedFields
<1>3. \A k \in Keys : RefOf(c, k) => Got(p, k) \in {NoValue, keyring[k]} /\ (avail[p] => Got(p, k) = keyring[k])
  BY DEF Stale, Got
<1> HIDE DEF d
<1>4. \A k \in Keys : View(keyring, d, k) = View(keyring, c, k)
  BY <1>2, <1>3 DEF View
<1>5. ASSUME NEW n \in Names PROVE MatchesAt(keyring, d, intended[n], n)
  <2>1. \A kd \in Kinds : View(keyring, d, <<kd, n>>) = View(keyring, c, <<kd, n>>)
    BY <1>4, KeyParts
  <2>2. MatchesAt(keyring, c, intended[n], n)
    BY DEF Matches
  <2> HIDE DEF c
  <2> QED BY <1>1, <1>2, <2>1, <2>2, SameView
<1>6. avail[p] => \A k \in Keys : Fresh(keyring, d, k)
  BY <1>2, <1>3 DEF Fresh
<1> QED BY <1>5, <1>6 DEF Matches, d

\* Nor does moving a secret to the keyring, if the copy has the one of its entry.
LEMMA StrippedShows ==
    ASSUME Shape, NEW t \in Tasks, NEW k \in todo[t], NEW w, NEW ks,
           SecretOf(cfg[t].conns, k) # NoValue, cfg[t].conns[k[2]] # NoConn,
           Matches(keyring, cfg[t].conns, w), \A j \in todo[t] : Fresh(keyring, cfg[t].conns, j),
           ks[k] = SecretOf(cfg[t].conns, k), \A j \in Keys \ {k} : ks[j] = keyring[j]
    PROVE  /\ Matches(ks, Stripped(cfg[t].conns, k), w)
           /\ \A j \in todo[t] \ {k} : Fresh(ks, Stripped(cfg[t].conns, k), j)
<1> DEFINE c == cfg[t].conns
           d == Stripped(c, k)
<1>1. c \in Conns /\ k \in Keys /\ todo[t] \subseteq Keys
  BY InHand
<1>2. /\ d \in Conns /\ \A n \in Names : (d[n] = NoConn) = (c[n] = NoConn)
      /\ \A n \in Names : c[n] # NoConn => d[n].multi = c[n].multi /\ d[n].tenant = c[n].tenant
      /\ RefOf(d, k) /\ SecretOf(d, k) = NoValue
      /\ \A j \in Keys \ {k} : RefOf(d, j) = RefOf(c, j) /\ SecretOf(d, j) = SecretOf(c, j)
  BY <1>1, StrippedFields
<1>3. ks[k] = SecretOf(c, k) /\ \A j \in Keys \ {k} : ks[j] = keyring[j]
  OBVIOUS
<1> HIDE DEF d
<1>4. View(ks, d, k) = View(keyring, c, k)
  BY <1>2, <1>3 DEF View, Fresh
<1>5. \A j \in Keys : View(ks, d, j) = View(keyring, c, j)
  BY <1>2, <1>3, <1>4 DEF View
<1>6. ASSUME NEW n \in Names PROVE MatchesAt(ks, d, w[n], n)
  <2>1. \A kd \in Kinds : View(ks, d, <<kd, n>>) = View(keyring, c, <<kd, n>>)
    BY <1>5, KeyParts
  <2>2. MatchesAt(keyring, c, w[n], n)
    BY DEF Matches
  <2> HIDE DEF c
  <2> QED BY <1>1, <1>2, <2>1, <2>2, SameView
<1>7. \A j \in todo[t] \ {k} : Fresh(ks, d, j)
  BY <1>1, <1>2, <1>3 DEF Fresh
<1> QED BY <1>6, <1>7 DEF Matches, d

LEMMA PromisedSame ==
    ASSUME NEW t \in Tasks, intended' = intended, op'[t] = op[t]
    PROVE  Promised(op[t])' = Promised(op[t])
  BY DEF Promised

\* A copy nobody touches stays right.
LEMMA CopyStays ==
    ASSUME NEW u \in Tasks, RightCopy(u), UNCHANGED <<keyring, avail, intended>>,
           pc'[u] = pc[u] /\ op'[u] = op[u] /\ cfg'[u] = cfg[u] /\ todo'[u] = todo[u]
    PROVE  RightCopy(u)'
<1>1. Promised(op[u])' = Promised(op[u])
  BY PromisedSame
<1>2. \A k : Fresh(keyring, cfg[u].conns, k) => Fresh(keyring', cfg'[u].conns, k)
  BY DEF Fresh
<1> QED BY <1>1, <1>2 DEF RightCopy, Matches, MatchesAt, Fresh

\* Somebody who edits has opened the directory first.
LEMMA NoLongerPending ==
    ASSUME Shape, PlaceInv, Pure, NEW t \in Tasks, Writer(t), ~Opening(t)
    PROVE  ~Pending /\ dirExists /\ \A u \in Tasks : ~Opening(u)
<1>1. \A u \in Tasks : ~Opening(u)
  BY OneEditor
<1>2. pc[t] \notin {"idle", "dir", "copy"}
  BY DEF Writer, Opening
<1>3. dirExists
  BY <1>2 DEF PlaceInv
<1> QED BY <1>1, <1>3 DEF Pending, Opening

\* A step of a task that changes neither the settings nor what they should be.
LEMMA QuietEdit ==
    ASSUME Shape, Shape', NEW t \in Tasks, Right, Others(t),
           UNCHANGED <<dirExists, legacy, fileState, file, keyring, avail, intended>>,
           ~Late(t), ~Opening(t), pc'[t] \notin {"copy_file", "copy_data"},
           op'[t].kind # "read" => RightCopy(t)'
    PROVE  Right'
<1>1. Pending' <=> Pending
  BY DEF Pending, Others, Opening
<1>2. (\A u \in Tasks : ~Late(u)') => \A u \in Tasks : ~Late(u)
  BY DEF Others, Late
<1>3. ASSUME NEW u \in Tasks, op'[u].kind # "read" PROVE RightCopy(u)'
  <2>1. CASE u = t
    BY <1>3, <2>1
  <2>2. CASE u # t
    <3>1. pc'[u] = pc[u] /\ op'[u] = op[u] /\ cfg'[u] = cfg[u] /\ todo'[u] = todo[u]
      BY <2>2 DEF Others
    <3>2. RightCopy(u)
      BY <1>3, <3>1 DEF Right
    <3> QED BY <3>1, <3>2, CopyStays
  <2> QED BY <2>1, <2>2
<1>4. Matches(keyring, Current, intended) => Matches(keyring', Current', intended')
  BY DEF Current
<1> QED BY <1>1, <1>2, <1>3, <1>4 DEF Right

\* One of the task that edits, which goes on or has just written the file.
LEMMA EditorStep ==
    ASSUME Shape, PlaceInv, Pure, NEW t \in Tasks, Writer(t), ~Opening(t), Others(t),
           UNCHANGED <<dirExists, legacy>>, pc'[t] \notin {"copy_file", "copy_data"},
           op'[t].kind # "read" => RightCopy(t)',
           Late(t)' \/ Matches(keyring', Current', intended')
    PROVE  Right'
<1>1. ~Pending' 
  BY NoLongerPending DEF Pending, Others, Opening
<1>2. ASSUME NEW u \in Tasks, op'[u].kind # "read" PROVE RightCopy(u)'
  <2>1. CASE u # t
    <3>1. pc'[u] = "idle"
      BY <1>2, <2>1, OneEditor DEF Others
    <3> QED BY <3>1 DEF RightCopy
  <2> QED BY <1>2, <2>1
<1> QED BY <1>1, <1>2 DEF Right

\* The directory of the old product becomes the first settings.
LEMMA OpensRight ==
    ASSUME Shape, Shape', PlaceInv, Pure, Right, NEW t \in Tasks, Opens(t)
    PROVE  Right'
<1>1. Opening(t) /\ \A u \in Tasks \ {t} : pc[u] = "idle" /\ pc'[u] = "idle"
  BY DEF Opens, Opening, PlaceInv, Pure, Others
<1>2. ASSUME NEW u \in Tasks PROVE RightCopy(u)'
  <2>1. pc'[u] \in {"idle", "load", "copy", "copy_file", "copy_data"}
    BY <1>1 DEF Opens
  <2> QED BY <2>1 DEF RightCopy
<1>3. UNCHANGED <<legacy, keyring, intended>> /\ \A u \in Tasks : ~Late(u)
  BY <1>1 DEF Opens, Late, Opening
<1>4. CASE pc[t] = "copy_data"
  <2>1. Pending /\ intended = IntendedOf(LegacyConfig.conns)
    BY <1>4 DEF PlaceInv, Pending, Right
  <2>2. ~Pending' /\ Current' = LegacyConfig.conns
    BY <1>1, <1>4 DEF Opens, PlaceInv, Pure, Pending, Current
  <2>3. Matches(keyring, LegacyConfig.conns, IntendedOf(LegacyConfig.conns))
    BY LegacyConfigFields, PlainTable
  <2> QED BY <1>2, <1>3, <2>1, <2>2, <2>3 DEF Right
<1>5. CASE pc[t] # "copy_data"
  <2>1. Pending' <=> Pending
    BY <1>1, <1>3, <1>5 DEF Opens, PlaceInv, Pure, Pending
  <2>2. ~Pending => Current' = Current
    BY <1>5 DEF Opens, PlaceInv, Pure, Pending, Current
  <2> QED BY <1>2, <1>3, <2>1, <2>2 DEF Right
<1> QED BY <1>4, <1>5

LEMMA RemovesRight ==
    ASSUME Shape, PlaceInv, Pure, Right, NEW t \in Tasks, Removes(t)
    PROVE  Right'
<1>1. /\ Writer(t) /\ ~Opening(t) /\ Late(t)' /\ op[t].kind # "read" /\ op'[t] = op[t] /\ cfg'[t] = cfg[t]
      /\ Others(t) /\ pc[t] = "apply" /\ pc'[t] = "delete"
      /\ UNCHANGED <<dirExists, legacy, keyring, avail, intended>>
  BY DEF Removes, Writer, Opening, Late, store, history
<1>2. RightCopy(t)
  BY <1>1 DEF Right
<1>3. RightCopy(t)'
  BY <1>1, <1>2 DEF RightCopy, Matches, MatchesAt, Fresh
<1> QED BY <1>1, <1>3, EditorStep

LEMMA DeletesRight ==
    ASSUME Shape, PlaceInv, Pure, Right, NEW t \in Tasks, NEW j \in todo[t], Deletes(t, j)
    PROVE  Right'
<1>1. /\ Writer(t) /\ ~Opening(t) /\ Late(t)' /\ op[t].kind # "read" /\ op'[t] = op[t] /\ cfg'[t] = cfg[t]
      /\ Others(t) /\ pc[t] = "delete" /\ pc'[t] = "delete"
      /\ UNCHANGED <<dirExists, legacy, avail, intended>> /\ j \in Keys /\ j[2] = op[t].name
  BY DEF Deletes, Writer, Opening, Late
<1>2. RightCopy(t)
  BY <1>1 DEF Right
<1>3. \A k \in Keys : k[2] # op[t].name => keyring'[k] = keyring[k]
  BY <1>1 DEF Deletes, Shape, DataInv
<1>4. ASSUME NEW n \in Names, n # op[t].name PROVE MatchesAt(keyring', cfg[t].conns, intended[n], n)
  <2>1. \A kd \in Kinds : keyring'[<<kd, n>>] = keyring[<<kd, n>>]
    BY <1>3, <1>4, KeyParts
  <2>2. MatchesAt(keyring, cfg[t].conns, intended[n], n)
    BY <1>1, <1>2, <1>4 DEF RightCopy
  <2> QED BY <2>1, <2>2 DEF MatchesAt
<1>5. avail[ProcOf[t]] => \A k \in Keys : k[2] # op[t].name => Fresh(keyring', cfg[t].conns, k)
  BY <1>1, <1>2, <1>3 DEF RightCopy, Fresh
<1>6. RightCopy(t)'
  BY <1>1, <1>4, <1>5 DEF RightCopy
<1> QED BY <1>1, <1>6, EditorStep

LEMMA EditsRight ==
    ASSUME Shape, PlaceInv, Pure, Right, NEW t \in Tasks, Edits(t)
    PROVE  Right'
<1>1. /\ Writer(t) /\ ~Opening(t) /\ Late(t)' /\ op[t].kind # "read" /\ op'[t] = op[t]
      /\ Others(t) /\ pc[t] \in {"apply", "delete"} /\ pc'[t] = "strip"
      /\ UNCHANGED <<dirExists, legacy, keyring, avail, intended>>
  BY DEF Edits, StripBegins, Writer, Opening, Late, store
<1>2. RightCopy(t) /\ Promised(op[t])' = Promised(op[t])
  BY <1>1, PromisedSame DEF Right
<1>3. Matches(keyring, cfg'[t].conns, Promised(op[t]))
  <2> SUFFICES ASSUME NEW n \in Names PROVE MatchesAt(keyring, cfg'[t].conns, Promised(op[t])[n], n)
    BY DEF Matches
  <2>1. EditsConn(t, n)
    BY DEF Edits
  <2>2. MatchesAt(keyring, cfg[t].conns, intended[n], n) \/ (pc[t] = "delete" /\ n = op[t].name)
    BY <1>1, <1>2 DEF RightCopy, Matches
  <2> QED BY <2>1, <2>2 DEF EditsConn
<1>4. ASSUME NEW k \in todo'[t] PROVE Fresh(keyring, cfg'[t].conns, k)
  <2>1. avail[ProcOf[t]] /\ k \in Keys /\ SecretOf(cfg'[t].conns, k) # NoValue
    BY <1>4 DEF Edits, StripBegins, WithSecrets
  <2>2. EditsKey(t, k)
    BY <2>1 DEF Edits
  <2>3. CASE ~RefOf(cfg'[t].conns, k)
    BY <2>3 DEF Fresh
  <2>4. CASE RefOf(cfg'[t].conns, k)
    <3>1. /\ RefOf(cfg'[t].conns, k) = RefOf(cfg[t].conns, k)
          /\ SecretOf(cfg'[t].conns, k) = SecretOf(cfg[t].conns, k)
          /\ pc[t] = "delete" => k[2] # op[t].name
      BY <2>2, <2>4 DEF EditsKey
    <3>2. Fresh(keyring, cfg[t].conns, k)
      BY <1>1, <1>2, <2>1, <3>1 DEF RightCopy
    <3> QED BY <3>1, <3>2 DEF Fresh
  <2> QED BY <2>3, <2>4
<1>5. RightCopy(t)'
  BY <1>1, <1>2, <1>3, <1>4 DEF RightCopy
<1> QED BY <1>1, <1>5, EditorStep

LEMMA StoresRight ==
    ASSUME Shape, PlaceInv, Pure, Right, NEW t \in Tasks, NEW k \in todo[t], Stores(t, k), Pure'
    PROVE  Right'
<1>1. /\ Writer(t) /\ ~Opening(t) /\ Late(t)' /\ op[t].kind # "read" /\ op'[t] = op[t]
      /\ Others(t) /\ pc[t] = "strip" /\ pc'[t] = "strip" /\ todo'[t] = todo[t] \ {k}
      /\ UNCHANGED <<dirExists, legacy, intended>>
      /\ SecretOf(cfg[t].conns, k) # NoValue /\ cfg[t].conns[k[2]] # NoConn
  BY DEF Stores, Writer, Opening, Late, WithSecrets
<1>2. /\ Matches(keyring, cfg[t].conns, Promised(op[t])) /\ Promised(op[t])' = Promised(op[t])
      /\ \A j \in todo[t] : Fresh(keyring, cfg[t].conns, j)
  BY <1>1, PromisedSame DEF Right, RightCopy
<1>3. CASE UNCHANGED keyring /\ cfg'[t] = cfg[t]
  <2>1. RightCopy(t)'
    BY <1>1, <1>2, <1>3 DEF RightCopy
  <2> QED BY <1>1, <2>1, EditorStep
<1>4. CASE keyring' = [keyring EXCEPT ![k] = SecretOf(cfg[t].conns, k)] /\ cfg'[t].conns = Stripped(cfg[t].conns, k)
  <2>1. /\ Matches(keyring', cfg'[t].conns, Promised(op[t]))
        /\ \A j \in todo[t] \ {k} : Fresh(keyring', cfg'[t].conns, j)
    <3>1. keyring'[k] = SecretOf(cfg[t].conns, k) /\ \A j \in Keys \ {k} : keyring'[j] = keyring[j]
      BY <1>4, InHand DEF Shape, DataInv
    <3>2. /\ Matches(keyring', Stripped(cfg[t].conns, k), Promised(op[t]))
          /\ \A j \in todo[t] \ {k} : Fresh(keyring', Stripped(cfg[t].conns, k), j)
      BY <1>1, <1>2, <3>1, StrippedShows
    <3> QED BY <1>4, <3>2
  <2>2. RightCopy(t)'
    BY <1>1, <1>2, <2>1 DEF RightCopy
  <2> QED BY <1>1, <2>2, EditorStep
<1> QED BY <1>3, <1>4 DEF Stores, Pure

LEMMA TruncatesRight ==
    ASSUME Shape, PlaceInv, Pure, Right, NEW t \in Tasks, Truncates(t)
    PROVE  Right'
<1>1. /\ Writer(t) /\ ~Opening(t) /\ Late(t)' /\ op[t].kind # "read" /\ op'[t] = op[t] /\ cfg'[t] = cfg[t]
      /\ Others(t) /\ pc[t] = "strip" /\ pc'[t] = "write"
      /\ UNCHANGED <<dirExists, legacy, keyring, avail, intended>>
  BY DEF Truncates, Writer, Opening, Late, history
<1>2. Matches(keyring, cfg[t].conns, Promised(op[t])) /\ Promised(op[t])' = Promised(op[t])
  BY <1>1, PromisedSame DEF Right, RightCopy
<1>3. RightCopy(t)'
  BY <1>1, <1>2 DEF RightCopy
<1> QED BY <1>1, <1>3, EditorStep

LEMMA WritesRight ==
    ASSUME Shape, PlaceInv, Pure, Right, NEW t \in Tasks, Writes(t)
    PROVE  Right'
<1>1. /\ Writer(t) /\ ~Opening(t) /\ op[t].kind # "read" /\ Others(t) /\ pc[t] = "write"
      /\ pc'[t] = "idle" /\ op'[t].kind = "read" /\ fileState = "empty"
      /\ UNCHANGED <<dirExists, legacy, keyring>>
  BY ReadOperation DEF Writes, Writer, Opening, Gone, PlaceInv, Pure
<1>2. Current' = cfg[t].conns /\ intended' = Promised(op[t])
  BY <1>1 DEF Writes, Current
<1>3. Matches(keyring, cfg[t].conns, Promised(op[t]))
  BY <1>1 DEF Right, RightCopy
<1> QED BY <1>1, <1>2, <1>3, EditorStep

LEMMA EditStep ==
    ASSUME Shape, PlaceInv, EditInv, [Next]_vars
    PROVE  EditInv'
<1> SUFFICES ASSUME Pure' PROVE Right'
  BY DEF EditInv
<1>0. Shape'
  BY StepIsKnown
<1>1. ASSUME NEW t \in Tasks, Does(t) PROVE Right'
  <2>1. Pure /\ Right /\ Others(t)
    <3>1. Pure
      BY <1>1 DEF Does, Starts, Opens, Loads, Leaves, Resolves, Removes, Deletes, Edits, StripBegins,
                  Stores, Truncates, Writes, Fails, store, history, Pure
    <3> QED BY <1>1, <3>1, NobodyElseStarts DEF EditInv
  <2>2. CASE Starts(t) \/ Leaves(t)
    <3>1. /\ UNCHANGED <<dirExists, legacy, fileState, file, keyring, avail, intended>>
          /\ ~Late(t) /\ ~Opening(t) /\ pc'[t] \in {"idle", "load", "dir"}
      BY <2>2 DEF Starts, Leaves, Gone, Late, Opening, store, history
    <3>2. RightCopy(t)'
      BY <3>1 DEF RightCopy
    <3> QED BY <1>0, <2>1, <3>1, <3>2, QuietEdit
  <2>3. CASE Loads(t) \/ Resolves(t)
    <3>1. /\ UNCHANGED <<dirExists, legacy, fileState, file, keyring, avail, intended>>
          /\ ~Late(t) /\ ~Opening(t) /\ pc'[t] \in {"idle", "resolve", "apply"}
      BY <2>3 DEF Loads, Resolves, Gone, Late, Opening, store, history
    <3>2. ASSUME op'[t].kind # "read" PROVE RightCopy(t)'
      <4>1. op[t].kind # "read" /\ Writer(t)
        BY <2>3, <3>2, ReadOperation DEF Loads, Resolves, Gone, Writer
      <4>2. CASE Loads(t)
        <5>1. ~Pending /\ \A u \in Tasks : ~Late(u)
          BY <2>1, <3>1, <4>1, OneEditor, NoLongerPending
        <5>2. Matches(keyring, cfg'[t].conns, intended) /\ pc'[t] = "resolve"
          BY <2>1, <4>2, <5>1 DEF Right, Loads
        <5> QED BY <3>1, <5>2 DEF RightCopy
      <4>3. CASE Resolves(t)
        <5>1. Matches(keyring, cfg[t].conns, intended) /\ ~Stale(t)
          BY <2>1, <4>1, <4>3 DEF Right, RightCopy, Resolves, Pure
        <5>2. cfg'[t].conns = Resolved(ProcOf[t], cfg[t].conns) /\ pc'[t] = "apply"
          BY <4>1, <4>3 DEF Resolves
        <5>3. Matches(keyring, cfg'[t].conns, intended)
              /\ (avail[ProcOf[t]] => \A k \in Keys : Fresh(keyring, cfg'[t].conns, k))
          BY <5>1, <5>2, ResolvedShows
        <5> QED BY <3>1, <5>2, <5>3 DEF RightCopy
      <4> QED BY <2>3, <4>2, <4>3
    <3> QED BY <1>0, <2>1, <3>1, <3>2, QuietEdit
  <2>4. ~Fails(t)
    BY DEF Fails, Pure
  <2> QED BY <1>0, <1>1, <2>1, <2>2, <2>3, <2>4, OpensRight, RemovesRight, DeletesRight, EditsRight,
             StoresRight, TruncatesRight, WritesRight DEF Does
<1>2. ASSUME NEW p \in Procs, Exits(p) PROVE Right'
  <2>1. /\ Pure /\ Right
        /\ UNCHANGED <<dirExists, legacy, fileState, file, keyring, avail, intended>>
    BY <1>2, CalmExit DEF EditInv
  <2>2. \A u \in Tasks : \/ pc'[u] = pc[u] /\ op'[u] = op[u] /\ cfg'[u] = cfg[u] /\ todo'[u] = todo[u]
                         \/ pc'[u] = "idle" /\ op'[u].kind = "read" /\ ~Late(u) /\ ~Opening(u)
    BY <1>2, CalmExit
  <2>3. (Pending' <=> Pending) /\ ((\A u \in Tasks : ~Late(u)') => \A u \in Tasks : ~Late(u))
    BY <2>1, <2>2 DEF Pending, Late, Opening
  <2>4. ASSUME NEW u \in Tasks, op'[u].kind # "read" PROVE RightCopy(u)'
    <3>1. pc'[u] = pc[u] /\ op'[u] = op[u] /\ cfg'[u] = cfg[u] /\ todo'[u] = todo[u]
      BY <2>2, <2>4
    <3>2. RightCopy(u)
      BY <2>1, <2>4, <3>1 DEF Right
    <3> QED BY <2>1, <3>1, <3>2, CopyStays
  <2>5. Current' = Current
    BY <2>1 DEF Current
  <2> QED BY <2>1, <2>3, <2>4, <2>5 DEF Right
<1>3. CASE Stutters
  <2>1. Pure /\ Right /\ UNCHANGED <<dirExists, legacy, fileState, file, keyring, avail, intended>>
        /\ UNCHANGED <<pc, op, cfg, todo>>
    BY <1>3 DEF Stutters, store, history, EditInv, Right, Pure
  <2>2. (Pending' <=> Pending) /\ ((\A u \in Tasks : ~Late(u)') => \A u \in Tasks : ~Late(u)) /\ Current' = Current
    BY <2>1 DEF Pending, Late, Current
  <2>3. \A u \in Tasks : op'[u].kind # "read" => RightCopy(u)'
    BY <2>1, CopyStays DEF Right
  <2> QED BY <2>1, <2>2, <2>3 DEF Right
<1> QED BY <1>1, <1>2, <1>3, StepIsKnown

-----------------------------------------------------------------------------
(* The invariants.                                                         *)

LEMMA ShapeInit == Init => Shape
<1> SUFFICES ASSUME Init PROVE Shape
  OBVIOUS
<1>1. EmptyConfig \in Config /\ IntendedOf(EmptyConfig.conns) \in [Names -> Wanted \cup {NoConn}]
  BY EmptyConfigFields, PlainTable
<1>2. IntendedOf(LegacyConfig.conns) \in [Names -> Wanted \cup {NoConn}]
  BY LegacyConfigFields, PlainTable
<1>3. intended = (IF legacy THEN IntendedOf(LegacyConfig.conns) ELSE IntendedOf(EmptyConfig.conns))
  BY DEF Init
<1>4. DataInv
  BY <1>1, <1>2, <1>3 DEF Init, DataInv
<1>5. TaskOK("idle", [kind |-> "read"], EmptyConfig, {})
  BY <1>1, ReadOperation DEF TaskOK, Labels
<1>6. TaskInv
  BY <1>5 DEF Init, TaskInv
<1> QED BY <1>4, <1>6 DEF Shape

LEMMA OthersInit == Init => PlainInv /\ PlaceInv /\ LostInv /\ OrphanInv
<1> SUFFICES ASSUME Init PROVE PlainInv /\ PlaceInv /\ LostInv /\ OrphanInv
  OBVIOUS
<1>1. /\ fileState = "missing" /\ troubles = {} /\ \A k \in Keys : keyring[k] = NoValue
      /\ \A t \in Tasks : pc[t] = "idle"
  BY DEF Init
<1>2. PlainInv
  BY <1>1 DEF PlainInv
<1>3. PlaceInv
  BY <1>1 DEF PlaceInv, Writer, Opening
<1>4. LostInv
  BY <1>1 DEF LostInv, Holds
<1>5. OrphanInv
  BY <1>1 DEF OrphanInv
<1> QED BY <1>2, <1>3, <1>4, <1>5

LEMMA EditInit == Init => EditInv
<1> SUFFICES ASSUME Init PROVE Right
  BY DEF EditInv
<1>1. /\ fileState = "missing" /\ dirExists = FALSE /\ \A t \in Tasks : pc[t] = "idle" /\ op[t].kind = "read"
      /\ intended = IntendedOf((IF legacy THEN LegacyConfig ELSE EmptyConfig).conns)
      /\ legacy \in BOOLEAN
  BY ReadOperation DEF Init
<1>2. Pending <=> legacy
  BY <1>1 DEF Pending
<1>3. Matches(keyring, EmptyConfig.conns, IntendedOf(EmptyConfig.conns))
  BY EmptyConfigFields, PlainTable
<1> QED BY <1>1, <1>2, <1>3 DEF Right, Current

ConfigInv == Shape /\ PlainInv /\ PlaceInv /\ LostInv /\ OrphanInv /\ EditInv

LEMMA ConfigInvariant == Spec => []ConfigInv
<1>1. Init => ConfigInv
  BY ShapeInit, OthersInit, EditInit DEF ConfigInv
<1>2. ConfigInv /\ [Next]_vars => ConfigInv'
  BY StepIsKnown, PlainStep, PlaceStep, LostStep, OrphanStep, EditStep DEF ConfigInv
<1> QED BY <1>1, <1>2, PTL DEF Spec

\* The record a user sees is the one the user wants.
LEMMA SeenIsWanted ==
    ASSUME Shape, NEW n \in Names, NEW c \in Conns, c[n] # NoConn,
           MatchesAt(keyring, c, intended[n], n)
    PROVE  intended[n] =
             [secret |-> [kd \in Kinds |-> IF c[n].ref[kd] /\ keyring[<<kd, n>>] # NoValue
                                             THEN keyring[<<kd, n>>] ELSE c[n].secret[kd]],
              multi  |-> c[n].multi,
              tenant |-> c[n].tenant]
<1> DEFINE s == [kd \in Kinds |-> IF c[n].ref[kd] /\ keyring[<<kd, n>>] # NoValue
                                    THEN keyring[<<kd, n>>] ELSE c[n].secret[kd]]
<1>1. intended[n] \in Wanted
  BY DEF MatchesAt, Shape, DataInv
<1>2. intended[n].multi = c[n].multi /\ intended[n].tenant = c[n].tenant
      /\ \A kd \in Kinds : intended[n].secret[kd] = s[kd]
  BY DEF MatchesAt
<1>3. intended[n].secret \in [Kinds -> Values \cup {NoValue}]
  BY <1>1 DEF Wanted, Secrets
<1>4. intended[n].secret = s
  BY <1>2, <1>3
<1>5. intended[n] = [secret |-> intended[n].secret, multi |-> intended[n].multi, tenant |-> intended[n].tenant]
  BY <1>1 DEF Wanted
<1> QED BY <1>2, <1>4, <1>5

\* Once nobody edits, without trouble and with the old directory copied, the
\* file and the keyring give exactly what the operations add up to
\* (config.go:164-181, credentials.go:63-135), for every number of processes,
\* tasks, connections, secrets and operations.
THEOREM EditsSurviveAlways == Spec => []EditsSurvive
<1>1. ConfigInv => EditsSurvive
  <2> SUFFICES ASSUME ConfigInv, Quiet, troubles = {}, dirExists \/ ~legacy PROVE Seen = intended
    BY DEF EditsSurvive
  <2>1. Shape /\ Right
    BY DEF ConfigInv, EditInv, Pure
  <2>2. ~Pending
    BY DEF Pending, Quiet, Opening
  <2>3. \A t \in Tasks : ~Late(t)
    BY <2>1, InHand DEF Quiet, Writer, Late
  <2>4. Matches(keyring, Current, intended)
    BY <2>1, <2>2, <2>3 DEF Right
  <2>5. intended = [n \in Names |-> intended[n]]
    BY <2>1 DEF Shape, DataInv
  <2>6. CASE fileState # "ok"
    <3>1. \A n \in Names : intended[n] = NoConn
      BY <2>4, <2>6, EmptyConfigFields DEF Matches, MatchesAt, Current
    <3>2. IntendedOf(EmptyConfig.conns) = [n \in Names |-> NoConn]
      BY EmptyConfigFields DEF IntendedOf
    <3> QED BY <2>5, <2>6, <3>1, <3>2 DEF Seen
  <2>7. CASE fileState = "ok"
    <3>1. file.conns \in Conns
      BY <2>1 DEF Shape, DataInv, Config, Conns
    <3> DEFINE rec(n) ==
          [secret |-> [kd \in Kinds |-> IF file.conns[n].ref[kd] /\ keyring[<<kd, n>>] # NoValue
                                          THEN keyring[<<kd, n>>] ELSE file.conns[n].secret[kd]],
           multi  |-> file.conns[n].multi,
           tenant |-> file.conns[n].tenant]
    <3>2. ASSUME NEW n \in Names
          PROVE  intended[n] = IF file.conns[n] = NoConn THEN NoConn ELSE rec(n)
      <4>1. MatchesAt(keyring, file.conns, intended[n], n)
        BY <2>4, <2>7 DEF Matches, Current
      <4>2. CASE file.conns[n] = NoConn
        BY <4>1, <4>2 DEF MatchesAt
      <4>3. CASE file.conns[n] # NoConn
        BY <2>1, <3>1, <4>1, <4>3, SeenIsWanted
      <4> QED BY <4>2, <4>3
    <3>3. Seen = [n \in Names |-> IF file.conns[n] = NoConn THEN NoConn ELSE rec(n)]
      BY <2>7 DEF Seen
    <3> HIDE DEF rec
    <3> QED BY <2>5, <3>2, <3>3
  <2> QED BY <2>6, <2>7
<1> QED BY <1>1, ConfigInvariant, PTL

\* In every interleaving, with any crash, failed write and keyring that refuses or
\* drops a store or refuses a delete: a secret that is neither in the file nor in
\* the keyring was deleted by a removal or dropped by the keyring
\* (credentials.go:63-66), an entry without a connection and a secret in clear
\* (credentials.go:84-149) have one of the named reasons, a refused delete among
\* them, and the file parses (config.go:170-181) unless a write is running or was
\* cut short.
THEOREM SecretsAreAccountedAlways == Spec => []SecretsAreAccounted
<1>1. ConfigInv => SecretsAreAccounted
  <2> SUFFICES ASSUME ConfigInv PROVE SecretsAreAccounted
    OBVIOUS
  <2>0. Shape /\ PlainInv /\ PlaceInv /\ LostInv /\ OrphanInv
    BY DEF ConfigInv
  <2>1. TypeOK
    BY <2>0 DEF Shape, DataInv, TaskInv, TaskOK, Labels, TypeOK
  <2>2. \A t \in Tasks : Late(t) => Writer(t)
    BY <2>0, InHand DEF Late, Writer
  <2>3. LostSecretsExplained
    <3> SUFFICES ASSUME fileState = "ok", NEW k \in Keys, Lost(keyring, file.conns, k), "dropped" \notin troubles
                 PROVE  /\ k \in deleted
                        /\ \/ \E t \in Tasks : Writer(t) /\ op[t].kind = "remove" /\ op[t].name = k[2]
                           \/ troubles \cap {"overlap", "crash", "failed"} # {}
      BY DEF LostSecretsExplained, Lost
    <3>1. LostInFile(k)
      BY <2>0 DEF LostInv
    <3> QED BY <2>2, <3>1 DEF LostInFile, Calm
  <2>4. OrphansExplained
    <3> SUFFICES ASSUME Quiet, Pure, NEW k \in Keys, keyring[k] # NoValue, k \notin abandoned
                 PROVE  fileState = "ok" /\ RefOf(file.conns, k)
      BY DEF OrphansExplained, Pure
    <3>1. \A t \in Tasks : ~Late(t)
      BY <2>2 DEF Quiet
    <3>2. RefOf(Current, k)
      BY <2>0, <3>1 DEF OrphanInv
    <3> QED BY <3>2, EmptyConfigFields DEF Current
  <2>5. PlaintextExplained
    BY <2>0 DEF PlainInv, PlaintextExplained
  <2>6. FileReadable
    BY <2>0 DEF PlaceInv, FileReadable
  <2> QED BY <2>1, <2>3, <2>4, <2>5, <2>6 DEF SecretsAreAccounted
<1> QED BY <1>1, ConfigInvariant, PTL

=============================================================================
