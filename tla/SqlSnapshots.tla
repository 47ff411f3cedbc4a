----------------------------- MODULE SqlSnapshots -----------------------------
(* Restoring a SQL snapshot with its safety net (restore_sql.go,               *)
(* snapshotter_sql.go) through a session of internal/engine: a database/sql    *)
(* pool whose connections each carry their own foreign-key setting and tenant  *)
(* variable, and which other users of the session draw on at the same time.    *)
(* Other clients write to the tables, other processes run GC on the scope: of  *)
(* a bolt store, which is theirs only while this process has it closed.        *)
(* Every row of Child refers to the row of Parent with the same key.           *)
EXTENDS Integers, Sequences, SequencesExt, FiniteSets

CONSTANTS
    Engines,     \* engine identifiers this instance connects to
    Targets,     \* databases restored into: "home" is the session's own, "away" another
    MaxFaults,   \* bound: kinds of failure in one behaviour
    MaxDisturb   \* bound: connections taken by others or lost, rows they write

ASSUME SqlAssumption ==
    /\ Engines \subseteq {"postgres", "mysql", "sqlite"}
    /\ Targets \subseteq {"home", "away"} /\ MaxFaults \in Nat /\ MaxDisturb \in Nat

Tables == <<"child", "parent">>   \* in the order sort.Strings gives them
Names == ToSet(Tables)
InOrder(tables) == CHOOSE list \in {Tables, <<"child">>, <<"parent">>, <<>>} : ToSet(list) = tables
Databases == {"home", "away"}
None == [kind |-> "none"]

VARIABLES
    engine, target, dropping,   \* the request
    binary,   \* how the tables declare their binary column, if they have one
    keyless,  \* tables whose primary key is gone since the snapshot was taken
    clash,    \* whether the rows of the snapshot collide with live ones on the unique index
    db,       \* what each database holds: rows by table
    indexed,  \* databases in which Parent has its secondary index
    pool,     \* the idle connections of the session, most recently used last
    held,     \* the connection another user of the session is working with
    safety,   \* the safety snapshot: rows by table, or None
    stage,    \* "safety", "restore", "rollback" or how it ended
    todo,     \* the tables still to do in this stage
    step,     \* where in the current table
    refs,     \* rows still to be inserted
    failed,   \* whether the body of the current table failed
    touchedTables,  \* result.Touched
    cleared,  \* history: tables really emptied, by database
    bare,     \* history: whether a statement ran without the tenant variable
    faults,   \* history: what failed
    disturbed, \* history: how often others interfered
    written,  \* history: keys of the rows that other clients wrote
    deleted    \* history: snapshots that another process's GC has deleted

request == <<engine, target, dropping, binary, keyless, clash>>
data == <<db, indexed, safety, touchedTables, cleared>>
control == <<stage, todo, step, refs, failed>>
others == <<written, deleted>>
sqlVars == <<request, data, control, pool, held, bare, faults, disturbed, others>>

-----------------------------------------------------------------------------
Row(k, v) == [key |-> k, val |-> v]
Value == IF binary = "none" THEN "plain" ELSE "bytes"

\* What the stored snapshot holds, and what is live before the restore.
Stored(t) == {Row(1, Value)}
Live(d, t) == IF d = "home" THEN {Row(2, Value), Row(3, Value)} ELSE {Row(4, Value)}

\* isBinaryDataType knows the bare upper-case names only; information_schema reports
\* them in lower case, SQLite as they were declared: BLOB, blob, varbinary(16)...
KnownAsBinary == engine = "sqlite" /\ binary = "BLOB"

\* sqlLiteralForRestore: bytes come back as bytes, or as their base64 text.
Literal(r) == IF r.val = "bytes" /\ ~KnownAsBinary THEN Row(r.key, "base64") ELSE r

-----------------------------------------------------------------------------
(* The pool of database/sql.                                                  *)

\* SetMaxOpenConns(1) for SQLite; elsewhere two is all that two users need.
MaxOpen == IF engine = "sqlite" THEN 1 ELSE 2
Opened == [checks |-> TRUE, tenant |-> TRUE]    \* the connection Open prepared
Fresh == [checks |-> TRUE, tenant |-> FALSE]    \* one the pool opens later


\* Mutant of CanRun: nobody waits for the single connection of SQLite.
CanRun_Unlimited == TRUE

CanRun == pool # <<>> \/ held = None \/ MaxOpen > 1

\* A statement takes the most recently used idle connection, or opens one.
Conn == IF pool # <<>> THEN Last(pool) ELSE Fresh

\* RunExec on that connection, which then is the most recently used one.
Exec(conn) ==
    /\ CanRun
    /\ pool' = Append(IF pool # <<>> THEN Front(pool) ELSE <<>>, conn)
    /\ bare' = (bare \/ ~Conn.tenant)
    /\ UNCHANGED held

\* A statement fails, one that has waited 30 seconds for a connection among others.
Fails(what) ==
    /\ what \in faults \/ Cardinality(faults) < MaxFaults \/ ~CanRun
    /\ faults' = faults \cup {what}

-----------------------------------------------------------------------------
SqlInit ==
    /\ engine \in Engines /\ target \in Targets /\ dropping \in BOOLEAN
    /\ binary \in {"none", "BLOB", "blob"} /\ keyless \in {{}, {"parent"}, Names} /\ clash \in BOOLEAN
    /\ engine = "sqlite" => target = "home"
    /\ engine # "sqlite" => binary # "BLOB"
    /\ clash => ~dropping
    /\ ~dropping => keyless = {}
    /\ db = [d \in Databases |-> [t \in Names |-> Live(d, t)]]
    /\ indexed \in {{}, {"home"}}
    /\ pool = <<Opened>> /\ held = None
    /\ safety = None /\ touchedTables = {} /\ cleared = {}
    /\ stage = IF dropping THEN "safety" ELSE "restore"
    /\ todo = Tables /\ step = "get" /\ refs = {} /\ failed = FALSE
    /\ bare = FALSE /\ faults = {} /\ disturbed = 0 /\ written = {} /\ deleted = {}

(***************************************************************************)
(* CreateSQL of the safety snapshot: one transaction per table, tables     *)
(* without a primary key left out.                                         *)
(***************************************************************************)
HasPrimaryKey(t) == t \notin keyless
CapturedIndex == target \in indexed

\* SELECT * of the qualified table in a transaction of its own.
StreamedRows(t) == db[target][t]

Rows(t) == IF safety = None THEN {} ELSE safety.rows[t]
Saved(t) == safety # None /\ t \in safety.tables

ScanTable ==
    /\ stage = "safety" /\ todo # <<>> /\ Exec(Conn)
    /\ LET t == Head(todo)
           more == IF HasPrimaryKey(t) THEN {t} ELSE {}
       IN  safety' = [kind |-> "safety",
                      index |-> CapturedIndex,
                      tables |-> (IF safety = None THEN {} ELSE safety.tables) \cup more,
                      rows |-> [u \in Names |-> IF u \in more THEN StreamedRows(u) ELSE Rows(u)]]
    /\ todo' = Tail(todo)
    /\ UNCHANGED <<request, db, indexed, touchedTables, cleared, stage, step, refs, failed, faults, disturbed, others>>

ScanFails ==
    /\ stage = "safety" /\ Fails("scan") /\ stage' = "failed" /\ safety' = None
    /\ UNCHANGED <<request, db, indexed, touchedTables, cleared, todo, step, refs, failed, pool, held, bare, disturbed, others>>

\* Mutant of Publish: the snapshot is published from the first table on.
Publish_Early ==
    /\ stage = "safety" /\ Len(todo) < Len(Tables)
    /\ stage' = "restore" /\ todo' = Tables
    /\ UNCHANGED <<request, data, step, refs, failed, pool, held, bare, faults, disturbed, others>>

Publish ==
    /\ stage = "safety" /\ todo = <<>>
    /\ stage' = "restore" /\ todo' = Tables
    /\ UNCHANGED <<request, data, step, refs, failed, pool, held, bare, faults, disturbed, others>>

(***************************************************************************)
(* RestoreSQL, once for the snapshot and once more for the rollback.       *)
(***************************************************************************)
Calling == stage \in {"restore", "rollback"}
Restoring == Calling /\ todo # <<>>
Clearing == dropping
\* Mutant of Source: the rollback reads the snapshot it was called for.
Source_Wrong(t) == Stored(t)

Source(t) == IF stage = "restore" THEN Stored(t) ELSE safety.rows[t]

Reads == IF stage = "restore" THEN "source" ELSE "safety"

At(s) == Restoring /\ step = s
GoTo(s) == step' = s /\ UNCHANGED <<stage, todo>>

\* The statements name the table only: they reach the session's own database.
Reached == "home"

\* The body ends early; the checks are switched on again all the same.
\* Mutant of BodyFails: back to the statement that failed.
BodyFails_Retries == UNCHANGED <<stage, todo, step, failed, refs>>

BodyFails == GoTo("enable") /\ failed' = TRUE /\ refs' = {}

\* A failure before the checks are off, or with them: the whole call returns.
\* Mutant of Abandon: the rollback takes the tables that were cleared only, and
\* is called over when it fails.
Abandon_Partial ==
    /\ stage' = IF stage = "restore" /\ dropping /\ touchedTables # {} THEN "rollback"
                ELSE IF stage = "rollback" THEN "rolledBack" ELSE "failed"
    /\ todo' = IF stage' = "rollback" THEN SelectSeq(Tables, LAMBDA t : t \in touchedTables) ELSE todo
    /\ step' = "get" /\ failed' = FALSE /\ refs' = {}

Abandon ==
    /\ IF stage = "restore" /\ dropping /\ touchedTables # {}
       THEN stage' = "rollback" /\ todo' = InOrder({t \in Names : Saved(t)})
       ELSE stage' = "failed" /\ UNCHANGED todo
    /\ step' = "get" /\ failed' = FALSE /\ refs' = {}

\* Get reads the manifest, which names the tables.
ReadManifest ==
    /\ Calling /\ step = "get"
    /\ IF Reads \in deleted THEN Abandon ELSE GoTo("open") /\ UNCHANGED <<failed, refs>>
    /\ UNCHANGED <<request, data, pool, held, bare, faults, disturbed, others>>

\* OpenBackend: from here on no GC gets at the store.
OpenBackend ==
    /\ Calling /\ step = "open" /\ GoTo("schema")
    /\ UNCHANGED <<request, data, failed, refs, pool, held, bare, faults, disturbed, others>>

LoadSchema ==
    /\ At("schema") /\ Exec(Conn) /\ GoTo("disable")
    /\ UNCHANGED <<request, data, refs, failed, faults, disturbed, others>>

\* Mutant of DisableChecks: the checks stay on.
DisableChecks_Forgotten ==
    /\ At("disable") /\ Exec(Conn)
    /\ GoTo(IF Clearing THEN "clear" ELSE "read")
    /\ UNCHANGED <<request, data, refs, failed, faults, disturbed, others>>

DisableChecks ==
    /\ At("disable") /\ Exec([Conn EXCEPT !.checks = FALSE])
    /\ GoTo(IF Clearing THEN "clear" ELSE "read")
    /\ UNCHANGED <<request, data, refs, failed, faults, disturbed, others>>

\* The manifest or the store cannot be read, the table cannot be introspected, or
\* the role may not change the setting.
PrepareFails ==
    /\ At("schema") \/ At("disable") \/ (Calling /\ step \in {"get", "open"})
    /\ Fails("prepare") /\ Abandon
    /\ UNCHANGED <<request, data, pool, held, bare, disturbed, others>>

\* Parent rows that Child refers to cannot be deleted while checks are on.
HeldByChild(t) == t = "parent" /\ db[Reached]["child"] # {}

Clear ==
    /\ At("clear") /\ Exec(Conn)
    /\ touchedTables' = touchedTables \cup {Head(todo)}
    /\ IF Conn.checks /\ HeldByChild(Head(todo))
       THEN BodyFails /\ UNCHANGED <<db, cleared>>
       ELSE /\ db' = [db EXCEPT ![Reached][Head(todo)] = {}]
            /\ cleared' = cleared \cup {Head(todo)}
            /\ GoTo("read") /\ UNCHANGED <<failed, refs>>
    /\ UNCHANGED <<request, indexed, safety, faults, disturbed, others>>

\* IterDocRefs: no refs under this id is not an error.
ReadRefs ==
    /\ At("read") /\ GoTo("insert")
    /\ refs' = IF Reads \in deleted THEN {} ELSE Source(Head(todo))
    /\ UNCHANGED <<request, data, failed, pool, held, bare, faults, disturbed, others>>

\* One batch. It is refused for a key that is there, a missing parent while
\* checks are on, or a collision on the unique index.
Refused(r, t) ==
    \/ \E x \in db[Reached][t] : x.key = r.key
    \/ t = "child" /\ Conn.checks /\ ~\E x \in db[Reached]["parent"] : x.key = r.key
    \/ t = "parent" /\ Reached \in indexed /\ clash

\* Mutant of InsertBatch: the last batch is not flushed.
InsertBatch_NoFlush ==
    /\ At("insert") /\ refs # {} /\ Exec(Conn)
    /\ refs' = {} /\ UNCHANGED <<stage, todo, step, failed, db>>
    /\ UNCHANGED <<request, indexed, safety, touchedTables, cleared, faults, disturbed, others>>

InsertBatch ==
    /\ At("insert") /\ refs # {} /\ Exec(Conn)
    /\ \E r \in refs :
         IF Refused(r, Head(todo))
         THEN BodyFails /\ UNCHANGED db
         ELSE /\ db' = [db EXCEPT ![Reached][Head(todo)] = @ \cup {Literal(r)}]
              /\ refs' = refs \ {r}
              /\ UNCHANGED <<stage, todo, step, failed>>
    /\ UNCHANGED <<request, indexed, safety, touchedTables, cleared, faults, disturbed, others>>

\* recreateSQLIndexes: an index that exists is fine, and so is any error with
\* the word "duplicate" in it, which MySQL's duplicate entries have too.
Replays == stage = "restore" \/ safety.index
Duplicates == clash /\ Cardinality(db[Reached]["parent"]) > 1

\* Mutant of Reindex: every error is taken for an index that exists.
Reindex_Tolerant ==
    /\ At("insert") /\ refs = {} /\ Exec(Conn)
    /\ GoTo("enable") /\ UNCHANGED <<failed, refs>>
    /\ indexed' = IF Head(todo) = "parent" /\ Replays /\ ~Duplicates THEN indexed \cup {Reached} ELSE indexed
    /\ UNCHANGED <<request, db, safety, touchedTables, cleared, faults, disturbed, others>>

Reindex ==
    /\ At("insert") /\ refs = {} /\ Exec(Conn)
    /\ IF Head(todo) = "child" \/ ~Replays \/ Reached \in indexed
       THEN GoTo("enable") /\ UNCHANGED <<indexed, failed, refs>>
       ELSE IF ~Duplicates
            THEN GoTo("enable") /\ indexed' = indexed \cup {Reached} /\ UNCHANGED <<failed, refs>>
            ELSE /\ UNCHANGED indexed
                 /\ IF engine = "mysql" THEN GoTo("enable") /\ UNCHANGED <<failed, refs>> ELSE BodyFails
    /\ UNCHANGED <<request, db, safety, touchedTables, cleared, faults, disturbed, others>>

StatementFails ==
    /\ At("clear") \/ At("read") \/ At("insert")
    /\ Fails("statement") /\ BodyFails
    /\ touchedTables' = IF step = "clear" THEN touchedTables \cup {Head(todo)} ELSE touchedTables
    /\ UNCHANGED <<request, db, indexed, safety, cleared, pool, held, bare, disturbed, others>>

\* The table is over: on to the next one, to the end, or to the rollback.
AfterTable(ok) ==
    IF ~ok THEN Abandon
    ELSE /\ todo' = Tail(todo) /\ step' = "schema" /\ failed' = FALSE /\ refs' = {}
         /\ stage' = IF Tail(todo) # <<>> THEN stage
                     ELSE IF stage = "restore" THEN "restored" ELSE "rolledBack"

\* Mutant of EnableChecks: only a body that succeeded switches the checks on.
EnableChecks_OnSuccess ==
    /\ At("enable") /\ Exec([Conn EXCEPT !.checks = ~failed])
    /\ AfterTable(~failed)
    /\ UNCHANGED <<request, data, faults, disturbed, others>>

\* Mutant of EnableChecks: an error of the body is not handed on.
EnableChecks_DropsError ==
    /\ At("enable") /\ Exec([Conn EXCEPT !.checks = TRUE])
    /\ AfterTable(TRUE)
    /\ UNCHANGED <<request, data, faults, disturbed, others>>

EnableChecks ==
    /\ At("enable") /\ Exec([Conn EXCEPT !.checks = TRUE])
    /\ AfterTable(~failed)
    /\ UNCHANGED <<request, data, faults, disturbed, others>>

EnableFails ==
    /\ At("enable") /\ Fails("enable") /\ Abandon
    /\ UNCHANGED <<request, data, pool, held, bare, disturbed, others>>

\* A safety snapshot without a table to put back: nothing left to do.
NothingToRollBack ==
    /\ stage = "rollback" /\ todo = <<>> /\ step = "schema" /\ stage' = "rolledBack"
    /\ UNCHANGED <<request, data, todo, step, refs, failed, pool, held, bare, faults, disturbed, others>>

(***************************************************************************)
(* The other users of the session, and the network.                        *)
(***************************************************************************)
AtWork == stage \in {"safety", "restore", "rollback"}
Disturb == AtWork /\ disturbed < MaxDisturb /\ disturbed' = disturbed + 1

TakeConn ==
    /\ held = None /\ pool # <<>> /\ Disturb
    /\ held' = [kind |-> "conn", conn |-> Last(pool)] /\ pool' = Front(pool)
    /\ UNCHANGED <<request, data, control, bare, faults, others>>

ReturnConn ==
    /\ held # None /\ held' = None /\ pool' = Append(pool, held.conn)
    /\ UNCHANGED <<request, data, control, bare, faults, disturbed, others>>

LoseConn ==
    /\ engine # "sqlite" /\ pool # <<>> /\ Disturb /\ pool' = Front(pool)
    /\ UNCHANGED <<request, data, control, held, bare, faults, others>>

\* Another client deletes a parent and its child, or inserts both.
OthersDelete ==
    /\ Disturb /\ 3 \notin written
    /\ db' = [db EXCEPT ![target] = [t \in Names |-> {r \in @[t] : r.key # 3}]]
    /\ written' = written \cup {3}
    /\ UNCHANGED <<request, indexed, safety, touchedTables, cleared, control, pool, held, bare, faults, deleted>>

OthersInsert ==
    /\ Disturb /\ 5 \notin written
    /\ db' = [db EXCEPT ![target] = [t \in Names |-> @[t] \cup {Row(5, Value)}]]
    /\ written' = written \cup {5}
    /\ UNCHANGED <<request, indexed, safety, touchedTables, cleared, control, pool, held, bare, faults, deleted>>

\* Another process's GC deletes the snapshot that is about to be read: earlier would
\* come to the same, and later the store is open here, which keeps it out.
GCDeletes ==
    /\ Calling /\ step \in {"get", "open"} /\ Reads \notin deleted
    /\ deleted' = deleted \cup {Reads}
    /\ UNCHANGED <<request, data, control, pool, held, bare, faults, disturbed, written>>

SafetyStep == ScanTable \/ ScanFails \/ Publish

TableStep ==
    \/ ReadManifest \/ OpenBackend
    \/ LoadSchema \/ DisableChecks \/ PrepareFails \/ Clear \/ ReadRefs \/ InsertBatch
    \/ Reindex \/ StatementFails \/ EnableChecks \/ EnableFails \/ NothingToRollBack

SqlNext == SafetyStep \/ TableStep \/ TakeConn \/ ReturnConn \/ LoseConn
           \/ OthersDelete \/ OthersInsert \/ GCDeletes

\* Every statement of RestoreSQL is answered within its 30-second context, or fails;
\* the scan of the safety snapshot runs on the caller's context, which nothing
\* bounds.
SqlSpec == SqlInit /\ [][SqlNext]_sqlVars /\ WF_sqlVars(TableStep)

-----------------------------------------------------------------------------
Over == stage \in {"restored", "rolledBack", "failed"}
\* The table holds these rows, but for what other clients wrote.
Faithful(t, rows) == \A r \in db["home"][t] \cup rows :
    r.key \in written \/ (r \in db["home"][t] /\ r \in rows)
Convertible == binary = "none" \/ KnownAsBinary

SqlTypeOK ==
    /\ stage \in {"safety", "restore", "rollback", "restored", "rolledBack", "failed"}
    /\ step \in {"get", "open", "schema", "disable", "clear", "read", "insert", "enable"}
    /\ touchedTables \subseteq Names /\ cleared \subseteq touchedTables
    /\ Len(pool) + (IF held = None THEN 0 ELSE 1) <= MaxOpen
    /\ {bare, failed} \subseteq BOOLEAN
    /\ deleted \subseteq {"source", "safety"} /\ written \subseteq {3, 5}

\* restore_sql.go:48-141, 201-272. A restore that clears the tables and reports
\* success leaves in each one exactly the rows of the snapshot, beside those that
\* others inserted since.  Two cases are excepted: byte columns that are not declared
\* BLOB on SQLite, whose base64 text it writes, and a snapshot that a GC deleted
\* between Get and OpenBackend, which empties the tables and reports success.
SuccessRestores ==
    stage = "restored" /\ dropping /\ target = "home" /\ Convertible /\ "source" \notin deleted =>
        \A t \in Names : Faithful(t, Stored(t))

\* restore_sql.go:176-195. "Automatically rolled back to the pre-restore state":
\* every table holds what the safety snapshot took of it, beside what others wrote,
\* under the same exceptions and unless a table has lost its primary key.
RollbackRestores ==
    stage = "rolledBack" /\ target = "home" /\ Convertible /\ keyless = {} /\ "safety" \notin deleted =>
        \A t \in Names : Faithful(t, safety.rows[t])

\* restore_sql.go:97-109, 162-172. Rows are deleted only when a snapshot has them:
\* at any moment, also after a failed rollback, the rows from before the restore that
\* were cleared are in the safety snapshot, unless GC has deleted it, and except the
\* tables CreateSQL skips for want of a primary key and the rows that others wrote
\* meanwhile: what they insert between the scan of a table and its DELETE is lost.
ClearedIsSaved ==
    target = "home" /\ "safety" \notin deleted =>
        \A t \in cleared \ keyless :
            Saved(t) /\ {r \in Live("home", t) : r.key \notin written} \subseteq safety.rows[t]

\* restore_sql.go:338-342. With checks off the order of the tables does not matter:
\* nothing but a failing statement, a snapshot that GC has deleted or somebody
\* else on the session or in its tables makes a clearing restore fail.
OrderDoesNotMatter ==
    stage \in {"rolledBack", "failed"} /\ dropping /\ target = "home" =>
        faults # {} \/ disturbed > 0 \/ "source" \in deleted

\* restore_sql.go:126-132. Checks are on again on every connection of the pool when
\* the restore is over, whichever table or statement failed, unless switching them
\* on failed or another user's statement had the connection.
ChecksAreBack ==
    Over /\ disturbed = 0 /\ "enable" \notin faults => \A i \in DOMAIN pool : pool[i].checks

\* config.go:46-53. Every statement runs with the tenant variable set as long as
\* nobody makes the pool open a second connection.
TenantUnlessShared == bare => disturbed > 0

\* restore_sql.go:338-342. Switching checks off must not leave children without
\* their parents: the tables of a snapshot agree with each other when nobody wrote
\* between its per-table transactions.
NoOrphans ==
    stage \in {"restored", "rolledBack"} /\ disturbed = 0 /\ keyless = {} /\ target = "home" =>
        {r.key : r \in db["home"]["child"]} \subseteq {r.key : r \in db["home"]["parent"]}

\* restore_sql.go:374-400. A restore that succeeds has the snapshot's indexes in
\* place; MySQL's duplicate entries pass for an index that exists already.
IndexesComeBack == stage = "restored" /\ engine # "mysql" => "home" \in indexed

\* cmd/snapshot_restore.go:25-26. "--target-db myapp_staging --drop" restores into
\* that database and leaves the others alone.  It does not: see README, section 6.
OnlyTargetChanges == \A d \in Databases \ {target} : \A t \in Names : db[d][t] = Live(d, t)

\* postgres.go:98, 258-262. Once the safety snapshot is taken the restore returns,
\* whatever failed and however long others keep the connections.  Before that nothing
\* bounds it: BeginConsistentRead and StreamRows run on the caller's context, which is
\* context.Background().
RestoreEnds == stage # "safety" ~> Over

\* What a restore leaves in the tables: the snapshot's rows and indexes after a
\* success, the rows of before after a rollback, and in between a safety
\* snapshot of all that was cleared.
RowsAreRestored ==
    /\ SuccessRestores /\ RollbackRestores
    /\ ClearedIsSaved
    /\ NoOrphans /\ IndexesComeBack

\* What a restore leaves on the session's connections, and needs of them: no
\* connection keeps its checks off, none serves another tenant's rows, and
\* tables that refer to each other can be restored in any order.
ConnectionsAreClean ==
    /\ SqlTypeOK
    /\ ChecksAreBack /\ OrderDoesNotMatter
    /\ TenantUnlessShared
=============================================================================
