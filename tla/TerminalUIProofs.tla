--------------------------- MODULE TerminalUIProofs ---------------------------
(***************************************************************************)
(* Proofs about the terminal interface (TerminalUI): what its screens, its *)
(* lists and the commands in flight have to do with each other, whatever   *)
(* keys are pressed while replies arrive in any order.                     *)
(***************************************************************************)
EXTENDS TerminalUI, FiniteSetTheorems, TLAPS

\* Types, and the fields that are used of values without one.
FieldInv ==
  /\ TypeOK
  /\ connCursor \in Nat /\ dbCursor \in Nat /\ listCursor \in Nat
  /\ resultBack \in {"launcher", "deps", "menu"}
  /\ databases.n > 0 => databases.of \in Conns

\* A cursor is on an item, or at the top of an empty list.
CursorInv ==
  /\ connections # <<>> => connCursor < Len(connections)
  /\ listCursor = 0 \/ listCursor < ListLen

\* Everything behind the list of databases has a connection.
Inside == screen \in {"databases", "menu", "message", "list", "confirm"}
ChosenInv == Inside \/ Running # {} \/ resultBack = "menu" => connection \in Conns

\* What "progress" waits for.
Jobs == Running \cup {c \in BagToSet(pending) : c = ChooseDesktopAppCmd}

\* A screen that ignores keys has a command in flight.
AnswerInv ==
  ~quitting =>
    /\ screen = "progress" => Jobs # {}
    /\ screen = "deps" /\ depsOK => \E c \in {CheckDepsCmd, ChooseTerminalCmd} : BagIn(c, pending)

\* Without a stray reply there is one at a time, and the screen waits for it.
SoloInv ==
  "screen" \notin astray =>
    /\ \A c, d \in Jobs : c = d
    /\ \A c \in Jobs : pending[c] = 1
    /\ Jobs # {} => screen = "progress" /\ ~quitting

\* The question is about what is chosen.
AskInv == screen = "confirm" => confirm.of = Scope /\ confirm.op.kind \in OperationKinds

\* The database belongs to the connection.
Placed == database # None /\ database[1] = connection

\* The command works on what is chosen, or is a restore of a backup.
Suits(c) == c.on = connection /\ (c.own \/ c.kind = "backup_restore")

ScopeInv ==
  astray = {} =>
    /\ screen \in {"menu", "message", "list", "confirm"} => Placed
    /\ screen \in {"progress", "result"} /\ resultBack = "menu" => Placed
    /\ Running # {} => Placed
    /\ databases.n > 0 => databases.of = connection
    /\ snapshots.n > 0 => snapshots.of = Scope /\ screen \in {"list", "confirm"}
    /\ \A c \in Running : Suits(c)
    /\ screen = "confirm" => Suits(confirm.op)

UIInv == FieldInv /\ CursorInv /\ ChosenInv /\ AnswerInv /\ SoloInv /\ AskInv /\ ScopeInv
-----------------------------------------------------------------------------
(* The commands in flight.                                                 *)

LEMMA BagAdded ==
    ASSUME NEW B, IsABag(B), NEW c
    PROVE  LET A == B (+) SetToBag({c})
           IN /\ IsABag(A) /\ BagToSet(A) = BagToSet(B) \cup {c}
              /\ \A d \in BagToSet(B) \ {c} : A[d] = B[d]
              /\ c \notin BagToSet(B) => A[c] = 1
<1> DEFINE A == B (+) SetToBag({c})
<1>1. A = [e \in (DOMAIN B) \cup {c} |->
             (IF e \in DOMAIN B THEN B[e] ELSE 0) + (IF e \in {c} THEN 1 ELSE 0)]
  BY DEF (+), SetToBag
<1>2. \A e \in DOMAIN B : B[e] \in Nat /\ B[e] > 0
  BY DEF IsABag
<1>3. DOMAIN A = (DOMAIN B) \cup {c} /\ A = [e \in DOMAIN A |-> A[e]]
  BY <1>1
<1>4. /\ \A d \in (DOMAIN B) \ {c} : A[d] = B[d]
      /\ c \notin DOMAIN B => A[c] = 1
      /\ c \in DOMAIN B => A[c] = B[c] + 1
  BY <1>1, <1>2
<1> HIDE DEF A
<1>5. \A e \in DOMAIN A : A[e] \in Nat /\ A[e] > 0
  BY <1>2, <1>3, <1>4
<1>6. IsABag(A)
  BY <1>3, <1>5 DEF IsABag
<1>7. BagToSet(A) = BagToSet(B) \cup {c}
  BY <1>3 DEF BagToSet
<1> QED BY <1>4, <1>6, <1>7 DEF A, BagToSet

LEMMA BagTaken ==
    ASSUME NEW B, IsABag(B), NEW c \in BagToSet(B)
    PROVE  LET A == B (-) SetToBag({c})
           IN /\ IsABag(A) /\ BagToSet(A) \subseteq BagToSet(B)
              /\ \A d \in BagToSet(B) \ {c} : d \in BagToSet(A) /\ A[d] = B[d]
              /\ B[c] = 1 => c \notin BagToSet(A)
<1> DEFINE A == B (-) SetToBag({c})
           R == [e \in DOMAIN B |-> IF e \in {c} THEN B[e] - 1 ELSE B[e]]
<1>1. A = [e \in {d \in DOMAIN R : R[d] > 0} |-> R[e]]
  BY DEF (-), SetToBag
<1>2. \A e \in DOMAIN B : B[e] \in Nat /\ B[e] > 0
  BY DEF IsABag
<1>3. DOMAIN R = DOMAIN B /\ \A e \in DOMAIN B : R[e] = IF e = c THEN B[e] - 1 ELSE B[e]
  OBVIOUS
<1> HIDE DEF R
<1>4. DOMAIN A = {d \in DOMAIN B : R[d] > 0} /\ \A e \in DOMAIN A : A[e] = R[e]
  BY <1>1, <1>3
<1>5. \A e \in DOMAIN A : A[e] \in Nat /\ A[e] > 0
  <2> SUFFICES ASSUME NEW e \in DOMAIN A PROVE A[e] \in Nat /\ A[e] > 0
    OBVIOUS
  <2>1. e \in DOMAIN B /\ R[e] > 0 /\ A[e] = R[e]
    BY <1>4
  <2>2. B[e] \in Nat /\ B[e] > 0 /\ (R[e] = B[e] - 1 \/ R[e] = B[e])
    BY <1>2, <1>3, <2>1
  <2> HIDE DEF A
  <2> QED BY <2>1, <2>2
<1>6. IsABag(A)
  <2>1. A = [e \in DOMAIN A |-> A[e]]
    BY <1>1
  <2> HIDE DEF A
  <2> QED BY <2>1, <1>5 DEF IsABag
<1> HIDE DEF A
<1>7. /\ BagToSet(A) \subseteq BagToSet(B)
      /\ \A d \in BagToSet(B) \ {c} : d \in BagToSet(A) /\ A[d] = B[d]
      /\ B[c] = 1 => c \notin BagToSet(A)
  BY <1>2, <1>3, <1>4 DEF BagToSet
<1> QED BY <1>6, <1>7 DEF A

\* The kinds of commands.
IsJob(c) == c.kind \in OperationKinds \/ c = ChooseDesktopAppCmd

LEMMA Kinds ==
    /\ ~IsJob(CheckDepsCmd) /\ ~IsJob(ChooseTerminalCmd) /\ ~IsJob(AutoInstallDepsCmd)
    /\ ~IsJob(LoadConnectionsCmd) /\ ~IsJob(SaveConnectionCmd) /\ ~IsJob(LoadBackupsCmd)
    /\ \A x : ~IsJob(LoadDatabasesCmd(x)) /\ ~IsJob(LoadSnapshotsCmd(x))
    /\ IsJob(ChooseDesktopAppCmd) /\ ChooseDesktopAppCmd.kind \notin OperationKinds
    /\ \A c : c.kind = "snapshots" => ~IsJob(c)
    /\ Jobs = {c \in BagToSet(pending) : IsJob(c)}
<1>1. /\ CheckDepsCmd.kind = "deps" /\ ChooseTerminalCmd.kind = "terminal" /\ AutoInstallDepsCmd.kind = "install"
      /\ LoadConnectionsCmd.kind = "connections" /\ SaveConnectionCmd.kind = "save"
      /\ LoadBackupsCmd.kind = "backups" /\ ChooseDesktopAppCmd.kind = "desktop"
      /\ \A x : LoadDatabasesCmd(x).kind = "databases" /\ LoadSnapshotsCmd(x).kind = "snapshots"
  BY DEF CheckDepsCmd, ChooseTerminalCmd, AutoInstallDepsCmd, LoadConnectionsCmd, SaveConnectionCmd,
         LoadBackupsCmd, ChooseDesktopAppCmd, LoadDatabasesCmd, LoadSnapshotsCmd
<1>2. \A c : IsJob(c) => c.kind \in OperationKinds \cup {"desktop"}
  BY <1>1 DEF IsJob
<1>3. OperationKinds = {"create", "diff", "restore", "backup", "backup_restore"}
  BY DEF OperationKinds
<1>4. Jobs = {c \in BagToSet(pending) : IsJob(c)}
  BY DEF Jobs, Running, IsJob
<1> QED BY <1>1, <1>2, <1>3, <1>4 DEF IsJob

\* No job is sent or answered.
SameJobs ==
  /\ IsABag(pending') /\ Running' = Running /\ Jobs' = Jobs
  /\ \A j \in Jobs : pending'[j] = pending[j]

LEMMA SendOther ==
    ASSUME IsABag(pending), NEW c, ~IsJob(c), Send(c)
    PROVE  /\ SameJobs /\ BagIn(c, pending')
           /\ \A d : BagIn(d, pending) => BagIn(d, pending')
<1>1. /\ IsABag(pending') /\ BagToSet(pending') = BagToSet(pending) \cup {c}
      /\ \A d \in BagToSet(pending) \ {c} : pending'[d] = pending[d]
  BY BagAdded DEF Send
<1>2. Running' = Running /\ Jobs' = Jobs /\ Jobs \subseteq BagToSet(pending) \ {c}
  BY <1>1, Kinds DEF Running, Jobs, IsJob
<1> QED BY <1>1, <1>2 DEF SameJobs, BagIn

LEMMA TakeOther ==
    ASSUME IsABag(pending), NEW c, ~IsJob(c), BagIn(c, pending), Done(c)
    PROVE  /\ SameJobs
           /\ \A d : BagIn(d, pending) /\ d # c => BagIn(d, pending')
<1>1. /\ IsABag(pending') /\ BagToSet(pending') \subseteq BagToSet(pending)
      /\ \A d \in BagToSet(pending) \ {c} : d \in BagToSet(pending') /\ pending'[d] = pending[d]
  BY BagTaken DEF Done, BagIn
<1>2. Running' = Running /\ Jobs' = Jobs /\ Jobs \subseteq BagToSet(pending) \ {c}
  BY <1>1, Kinds DEF Running, Jobs, IsJob
<1> QED BY <1>1, <1>2 DEF SameJobs, BagIn

LEMMA SwapOther ==
    ASSUME IsABag(pending), NEW c, NEW d, ~IsJob(c), ~IsJob(d), BagIn(c, pending), DoneThen(c, d)
    PROVE  /\ SameJobs /\ BagIn(d, pending')
           /\ \A e : BagIn(e, pending) /\ e # c => BagIn(e, pending')
<1> DEFINE A == pending (-) SetToBag({c})
<1>1. /\ IsABag(A) /\ BagToSet(A) \subseteq BagToSet(pending)
      /\ \A e \in BagToSet(pending) \ {c} : e \in BagToSet(A) /\ A[e] = pending[e]
  BY BagTaken DEF BagIn
<1>2. pending' = A (+) SetToBag({d})
  BY DEF DoneThen
<1> HIDE DEF A
<1>3. /\ IsABag(pending') /\ BagToSet(pending') = BagToSet(A) \cup {d}
      /\ \A e \in BagToSet(A) \ {d} : pending'[e] = A[e]
  BY <1>1, <1>2, BagAdded
<1>4. Running' = Running /\ Jobs' = Jobs /\ Jobs \subseteq BagToSet(A) \ {c, d}
  BY <1>1, <1>3, Kinds DEF Running, Jobs, IsJob
<1> QED BY <1>1, <1>3, <1>4 DEF SameJobs, BagIn

LEMMA SendJob ==
    ASSUME IsABag(pending), NEW c, IsJob(c), Send(c)
    PROVE  /\ IsABag(pending') /\ Jobs' = Jobs \cup {c}
           /\ Running' = Running \cup (IF c.kind \in OperationKinds THEN {c} ELSE {})
           /\ c \notin Jobs => pending'[c] = 1
<1>1. /\ IsABag(pending') /\ BagToSet(pending') = BagToSet(pending) \cup {c}
      /\ c \notin BagToSet(pending) => pending'[c] = 1
  BY BagAdded DEF Send
<1> QED BY <1>1, Kinds DEF Running, Jobs, IsJob

LEMMA TakeJob ==
    ASSUME IsABag(pending), NEW c \in Jobs, Done(c)
    PROVE  /\ IsABag(pending') /\ Jobs' \subseteq Jobs /\ Running' \subseteq Running
           /\ pending[c] = 1 /\ (\A j \in Jobs : j = c) => Jobs' = {} /\ Running' = {}
           /\ \A d : BagIn(d, pending) /\ ~IsJob(d) => BagIn(d, pending')
<1>1. c \in BagToSet(pending) /\ IsJob(c) /\ Running \subseteq Jobs
  BY Kinds DEF Jobs
<1>2. /\ IsABag(pending') /\ BagToSet(pending') \subseteq BagToSet(pending)
      /\ \A d \in BagToSet(pending) \ {c} : d \in BagToSet(pending') /\ pending'[d] = pending[d]
      /\ pending[c] = 1 => c \notin BagToSet(pending')
  BY <1>1, BagTaken DEF Done
<1>3. Jobs' \subseteq Jobs /\ Running' \subseteq Running
  BY <1>2 DEF Jobs, Running
<1>4. pending[c] = 1 => c \notin Jobs' /\ c \notin Running'
  BY <1>2 DEF Jobs, Running
<1> QED BY <1>1, <1>2, <1>3, <1>4 DEF BagIn

LEMMA NoneSent ==
    ASSUME IsABag(pending), UNCHANGED pending
    PROVE  SameJobs
BY DEF SameJobs, Jobs, Running

\* The two commands that check what is installed are none of the others.
IsCheck(c) == c \in {CheckDepsCmd, ChooseTerminalCmd}

LEMMA Checks ==
    /\ ~IsCheck(AutoInstallDepsCmd) /\ ~IsCheck(LoadConnectionsCmd)
    /\ ~IsCheck(SaveConnectionCmd) /\ ~IsCheck(LoadBackupsCmd)
    /\ \A x : ~IsCheck(LoadDatabasesCmd(x))
    /\ \A c : IsCheck(c) => ~IsJob(c)
    /\ \A c : c.kind = "snapshots" => ~IsCheck(c)
<1>1. /\ CheckDepsCmd.kind = "deps" /\ ChooseTerminalCmd.kind = "terminal" /\ AutoInstallDepsCmd.kind = "install"
      /\ LoadConnectionsCmd.kind = "connections" /\ SaveConnectionCmd.kind = "save"
      /\ LoadBackupsCmd.kind = "backups"
      /\ \A x : LoadDatabasesCmd(x).kind = "databases"
  BY DEF CheckDepsCmd, ChooseTerminalCmd, AutoInstallDepsCmd, LoadConnectionsCmd, SaveConnectionCmd,
         LoadBackupsCmd, LoadDatabasesCmd
<1>2. \A c : IsCheck(c) => c.kind \in {"deps", "terminal"}
  BY <1>1 DEF IsCheck
<1> QED BY <1>1, <1>2, Kinds DEF IsCheck

\* The commands that are jobs of a database.
LEMMA Operations ==
    \A kind \in OperationKinds : \A item :
      /\ Operation(kind, item).kind = kind /\ IsJob(Operation(kind, item))
      /\ Operation(kind, item).on = connection
      /\ Placed /\ item \in {None, Scope} => Operation(kind, item).own
BY DEF Operation, IsJob, Placed

-----------------------------------------------------------------------------
(* The invariant holds at the start and is kept by every key.              *)

LEMMA UIInit == Init => UIInv
<1> SUFFICES ASSUME Init PROVE UIInv
  OBVIOUS
<1>1. /\ IsABag(pending) /\ Running = {} /\ Jobs = {}
      /\ screen = "deps" => BagIn(CheckDepsCmd, pending)
  <2>1. IsABag(EmptyBag) /\ BagToSet(EmptyBag) = {}
    BY DEF EmptyBag, SetToBag, IsABag, BagToSet
  <2>2. \A c : IsABag(SetToBag({c})) /\ BagToSet(SetToBag({c})) = {c}
    BY DEF SetToBag, IsABag, BagToSet
  <2>3. IsABag(pending) /\ (BagToSet(pending) = {} \/ BagToSet(pending) = {CheckDepsCmd})
    BY <2>1, <2>2 DEF Init
  <2>4. Jobs = {} /\ Running \subseteq Jobs
    BY <2>3, Kinds DEF Jobs
  <2> QED BY <2>1, <2>2, <2>3, <2>4 DEF BagIn, Init
<1>2. FieldInv
  <2>1. databases.n = 0 /\ snapshots.n = 0
    BY DEF Init, NoList
  <2>2. screen \in Screens /\ resultBack \in Screens
    BY DEF Init, Screens
  <2>3. quitting \in BOOLEAN /\ depsOK \in BOOLEAN /\ dbTyping \in BOOLEAN
    BY Zenon DEF Init
  <2>4. databases.n \in 0..MaxDbs /\ snapshots.n \in 0..MaxItems /\ backups \in BackupLists \cup {<<>>}
    BY <2>1, ListsAssumption DEF Init
  <2>5. /\ connections \in Lists \cup {<<>>} /\ connection \in Conns \cup {None}
        /\ database \in (Conns \X (0..MaxDbs)) \cup {None} /\ purpose \in Purposes \cup {"view"}
        /\ astray \subseteq {"screen", "list"}
    BY DEF Init
  <2> QED BY <1>1, <2>1, <2>2, <2>3, <2>4, <2>5 DEF Init, FieldInv, TypeOK
<1> QED BY <1>1, <1>2 DEF Init, UIInv, CursorInv, ChosenInv, Inside, AnswerInv, SoloInv, AskInv,
                         ScopeInv, NoList

LEMMA UIStutter ==
    ASSUME UIInv, UNCHANGED vars
    PROVE  UIInv'
<1>1. SameJobs
  BY NoneSent DEF UIInv, FieldInv, TypeOK, vars
<1> QED BY <1>1 DEF vars, picked, list, UIInv, FieldInv, TypeOK, CursorInv, ChosenInv, Inside, AnswerInv,
         SoloInv, AskInv, ScopeInv, Suits, Placed, Scope, SameJobs, ListLen, BackupList

LEMMA LauncherKeyStep ==
    ASSUME UIInv, LauncherKey
    PROVE  UIInv'
<1> USE DEF UIInv, LauncherKey, At, picked, list
<1>1. CASE screen' = "deps" /\ Send(ChooseTerminalCmd) /\ UNCHANGED resultBack
  <2>1. SameJobs /\ BagIn(ChooseTerminalCmd, pending')
    BY <1>1, SendOther, Kinds DEF FieldInv, TypeOK
  <2> QED BY <1>1, <2>1 DEF FieldInv, TypeOK, Screens, CursorInv, ChosenInv, Inside, AnswerInv,
         SoloInv, AskInv, ScopeInv, Suits, Placed, Scope, SameJobs, ListLen, BackupList
<1>2. CASE screen' = "progress" /\ Send(ChooseDesktopAppCmd) /\ resultBack' = "deps"
  <2>1. /\ IsABag(pending') /\ Jobs' = Jobs \cup {ChooseDesktopAppCmd} /\ Running' = Running
        /\ ChooseDesktopAppCmd \notin Jobs => pending'[ChooseDesktopAppCmd] = 1
    BY <1>2, SendJob, Kinds DEF FieldInv, TypeOK
  <2> QED BY <1>2, <2>1 DEF FieldInv, TypeOK, Screens, CursorInv, ChosenInv, Inside, AnswerInv,
         SoloInv, AskInv, ScopeInv, Suits, Placed, Scope, ListLen, BackupList
<1> QED BY <1>1, <1>2

LEMMA DepsKeyStep ==
    ASSUME UIInv, DepsKey
    PROVE  UIInv'
<1> USE DEF UIInv, DepsKey, At, picked, list
<1>1. SameJobs /\ (screen' = "connections" \/ (screen' = "deps" /\ ~depsOK))
  <2>1. CASE Send(AutoInstallDepsCmd) /\ UNCHANGED <<screen, quitting>>
    BY <2>1, SendOther, Kinds DEF FieldInv, TypeOK
  <2>2. CASE screen' = "connections" /\ Send(LoadConnectionsCmd) /\ UNCHANGED quitting
    BY <2>2, SendOther, Kinds DEF FieldInv, TypeOK
  <2>3. CASE Quit
    BY <2>3, NoneSent DEF FieldInv, TypeOK, Quit
  <2> QED BY <2>1, <2>2, <2>3
<1>2. quitting' \in BOOLEAN
  BY DEF FieldInv, TypeOK, Quit
<1> QED BY <1>1, <1>2 DEF FieldInv, TypeOK, Screens, CursorInv, ChosenInv, Inside, AnswerInv,
       SoloInv, AskInv, ScopeInv, Suits, Placed, Scope, SameJobs, ListLen, BackupList

LEMMA MovesInRange ==
    ASSUME NEW n \in Nat, NEW cursor \in Nat, NEW m \in Moves(cursor, n)
    PROVE  m \in Nat /\ (cursor = 0 \/ cursor < n => m < n)
BY DEF Moves

LEMMA ConnectionsKeyStep ==
    ASSUME UIInv, ConnectionsKey
    PROVE  UIInv'
<1> USE DEF UIInv, ConnectionsKey, At, list
<1>1. Len(connections) \in Nat /\ (connections # <<>> => connections \in Seq(Conns) /\ connCursor < Len(connections))
  BY ListsAssumption DEF FieldInv, TypeOK, CursorInv
<1>2. CASE /\ connCursor' \in Moves(connCursor, Len(connections))
           /\ UNCHANGED <<screen, quitting, pending, connection, databases, dbCursor, dbTyping>>
  <2>1. SameJobs
    BY <1>2, NoneSent DEF FieldInv, TypeOK
  <2>2. connCursor' \in Nat /\ (connections # <<>> => connCursor' < Len(connections))
    BY <1>1, <1>2, MovesInRange DEF FieldInv
  <2> QED BY <1>2, <2>1, <2>2 DEF FieldInv, TypeOK, Screens, CursorInv, ChosenInv, Inside, AnswerInv,
         SoloInv, AskInv, ScopeInv, Suits, Placed, Scope, SameJobs, ListLen, BackupList
<1>3. CASE /\ screen' = "add"
           /\ UNCHANGED <<quitting, pending, connCursor, connection, databases, dbCursor, dbTyping>>
  <2>1. SameJobs
    BY <1>3, NoneSent DEF FieldInv, TypeOK
  <2> QED BY <1>3, <2>1 DEF FieldInv, TypeOK, Screens, CursorInv, ChosenInv, Inside, AnswerInv,
         SoloInv, AskInv, ScopeInv, Suits, Placed, Scope, SameJobs, ListLen, BackupList
<1>4. CASE /\ connections # <<>> /\ connection' = connections[connCursor + 1]
           /\ screen' = "databases" /\ databases' = Emptied(databases) /\ dbCursor' = 0 /\ dbTyping' = FALSE
           /\ Send(LoadDatabasesCmd(connection')) /\ UNCHANGED <<quitting, connCursor>>
  <2>1. SameJobs
    BY <1>4, SendOther, Kinds DEF FieldInv, TypeOK
  <2>2. connection' \in Conns
    BY <1>1, <1>4 DEF FieldInv
  <2>3. databases'.n = 0 /\ databases'.n \in 0..MaxDbs
    BY <1>4, ListsAssumption DEF Emptied, NoList
  <2>4. "screen" \notin astray => Jobs = {} /\ Running = {}
    BY Kinds DEF SoloInv, Jobs
  <2>5. FieldInv'
    <3>1. screen' \in Screens /\ dbTyping' \in BOOLEAN /\ IsABag(pending')
      BY <1>4, <2>1 DEF Screens, SameJobs
    <3>2. UNCHANGED <<connections, database, snapshots, backups, purpose, quitting, depsOK, resultBack,
                      connCursor, listCursor, astray>>
      BY <1>4
    <3> QED BY <1>4, <2>2, <2>3, <3>1, <3>2 DEF FieldInv, TypeOK
  <2>6. CursorInv' /\ ChosenInv' /\ AnswerInv' /\ SoloInv' /\ AskInv'
    BY <1>4, <2>1, <2>2, <2>4 DEF CursorInv, ChosenInv, AnswerInv, SoloInv, AskInv, SameJobs, ListLen,
       BackupList
  <2>7. ScopeInv'
    BY <1>4, <2>1, <2>3, <2>4 DEF ScopeInv, SameJobs
  <2> QED BY <2>5, <2>6, <2>7
<1>5. CASE Quit /\ UNCHANGED <<connCursor, connection, databases, dbCursor, dbTyping>>
  <2>1. SameJobs
    BY <1>5, NoneSent DEF FieldInv, TypeOK, Quit
  <2> QED BY <1>5, <2>1 DEF FieldInv, TypeOK, Screens, CursorInv, ChosenInv, Inside, AnswerInv,
         SoloInv, AskInv, ScopeInv, Suits, Placed, Scope, SameJobs, ListLen, BackupList, Quit
<1> QED BY <1>2, <1>3, <1>4, <1>5

LEMMA AddConnectionKeyStep ==
    ASSUME UIInv, AddConnectionKey
    PROVE  UIInv'
<1> USE DEF UIInv, AddConnectionKey, At, picked, list
<1>1. SameJobs
  BY SendOther, NoneSent, Kinds DEF FieldInv, TypeOK
<1> QED BY <1>1 DEF FieldInv, TypeOK, Screens, CursorInv, ChosenInv, Inside, AnswerInv,
       SoloInv, AskInv, ScopeInv, Suits, Placed, Scope, SameJobs, ListLen, BackupList

LEMMA DatabasesKeyStep ==
    ASSUME UIInv, DatabasesKey
    PROVE  UIInv'
<1> USE DEF UIInv, DatabasesKey, At, list
<1>1. SameJobs
  BY NoneSent DEF FieldInv, TypeOK
<1>2. connection \in Conns /\ ("screen" \notin astray => Jobs = {} /\ Running = {})
  BY Kinds DEF ChosenInv, Inside, SoloInv, Jobs
<1>3. dbCursor' \in Nat /\ dbTyping' \in BOOLEAN
  <2>1. CASE dbCursor' \in Moves(dbCursor, databases.n + 1) /\ UNCHANGED dbTyping
    <3>1. databases.n + 1 \in Nat /\ dbCursor \in Nat
      BY DEF FieldInv, TypeOK
    <3> QED BY <2>1, <3>1, MovesInRange DEF FieldInv, TypeOK
  <2>2. CASE dbCursor' = dbCursor
    BY <2>2 DEF FieldInv, TypeOK
  <2> QED BY <2>1, <2>2
<1>4. \/ screen' \in {"databases", "connections"} /\ database' = database
      \/ /\ screen' = "menu" /\ database' \in Conns \X (0..MaxDbs)
         /\ (database'[1] = connection) \/ (databases.n > 0 /\ database'[1] = databases.of)
  <2>1. CASE screen' = "menu" /\ database' = <<connection, 0>>
    BY <1>2, <2>1, ListsAssumption
  <2>2. CASE /\ \E d \in {databases.of} \X (0..MaxDbs) : ListedDatabase(d) /\ database' = d
             /\ screen' = "menu"
    <3>1. PICK d \in {databases.of} \X (0..MaxDbs) : ListedDatabase(d) /\ database' = d
      BY <2>2
    <3>2. databases.n > 0
      BY <3>1 DEF ListedDatabase, FieldInv, TypeOK
    <3> QED BY <2>2, <3>1, <3>2 DEF FieldInv
  <2> QED BY <2>1, <2>2
<1>5. database' \in (Conns \X (0..MaxDbs)) \cup {None}
      /\ (screen' = "menu" /\ astray = {} => database' # None /\ database'[1] = connection)
  BY <1>4, ListsAssumption DEF FieldInv, TypeOK, ScopeInv
<1> QED BY <1>1, <1>2, <1>3, <1>4, <1>5 DEF FieldInv, TypeOK, Screens, CursorInv, ChosenInv, Inside, AnswerInv,
       SoloInv, AskInv, ScopeInv, Suits, Placed, Scope, SameJobs, ListLen, BackupList

LEMMA MenuKeyStep ==
    ASSUME UIInv, MenuKey
    PROVE  UIInv'
<1> USE DEF UIInv, MenuKey, At, picked
<1>1. connection \in Conns /\ IsABag(pending) /\ ("screen" \notin astray => Jobs = {} /\ Running = {})
  BY Kinds DEF ChosenInv, Inside, SoloInv, Jobs, FieldInv, TypeOK
<1>2. CASE screen' \in {"message", "databases"} /\ UNCHANGED <<pending, resultBack, list>>
  <2>1. SameJobs
    BY <1>1, <1>2, NoneSent
  <2> QED BY <1>1, <1>2, <2>1 DEF FieldInv, TypeOK, Screens, CursorInv, ChosenInv, Inside, AnswerInv,
         SoloInv, AskInv, ScopeInv, Suits, Placed, Scope, SameJobs, ListLen, BackupList, list
<1>3. ASSUME NEW p \in Purposes, OpenList(p)
      PROVE  UIInv'
  <2>1. SameJobs
    BY <1>1, <1>3, SendOther, Kinds DEF OpenList
  <2>2. /\ snapshots'.n \in 0..MaxItems /\ backups' \in BackupLists \cup {<<>>}
        /\ astray = {} => snapshots'.n = 0
    BY <1>3, ListsAssumption DEF OpenList, Emptied, NoList, FieldInv, TypeOK, ScopeInv
  <2>3. screen' = "list" /\ listCursor' = 0 /\ purpose' \in Purposes /\ UNCHANGED resultBack
    BY <1>3 DEF OpenList
  <2> QED BY <1>1, <2>1, <2>2, <2>3 DEF FieldInv, TypeOK, Screens, CursorInv, ChosenInv, Inside, AnswerInv,
         SoloInv, AskInv, ScopeInv, Suits, Placed, Scope, SameJobs
<1>4. CASE screen' = "progress" /\ Send(CreateBackupCmd) /\ UNCHANGED <<resultBack, list>>
  <2>1. /\ IsJob(CreateBackupCmd) /\ CreateBackupCmd.kind \in OperationKinds
        /\ CreateBackupCmd.on = connection /\ (Placed => CreateBackupCmd.own)
    BY Operations DEF CreateBackupCmd, OperationKinds
  <2>2. /\ IsABag(pending') /\ Jobs' = Jobs \cup {CreateBackupCmd} /\ Running' = Running \cup {CreateBackupCmd}
        /\ CreateBackupCmd \notin Jobs => pending'[CreateBackupCmd] = 1
    BY <1>1, <1>4, <2>1, SendJob
  <2> HIDE DEF CreateBackupCmd
  <2> QED BY <1>1, <1>4, <2>1, <2>2 DEF FieldInv, TypeOK, Screens, CursorInv, ChosenInv, Inside, AnswerInv,
         SoloInv, AskInv, ScopeInv, Suits, Placed, Scope, ListLen, BackupList, list
<1>5. CASE /\ screen' = "progress" /\ Send(ChooseDesktopAppCmd)
           /\ resultBack' = "menu" /\ UNCHANGED list
  <2>1. /\ IsABag(pending') /\ Jobs' = Jobs \cup {ChooseDesktopAppCmd} /\ Running' = Running
        /\ ChooseDesktopAppCmd \notin Jobs => pending'[ChooseDesktopAppCmd] = 1
    BY <1>1, <1>5, SendJob, Kinds
  <2> QED BY <1>1, <1>5, <2>1 DEF FieldInv, TypeOK, Screens, CursorInv, ChosenInv, Inside, AnswerInv,
         SoloInv, AskInv, ScopeInv, Suits, Placed, Scope, ListLen, BackupList, list
<1> QED BY <1>2, <1>3, <1>4, <1>5

LEMMA MessageKeyStep ==
    ASSUME UIInv, MessageKey
    PROVE  UIInv'
<1> USE DEF UIInv, MessageKey, At, picked, list
<1>1. connection \in Conns /\ IsABag(pending) /\ ("screen" \notin astray => Jobs = {} /\ Running = {})
  BY Kinds DEF ChosenInv, Inside, SoloInv, Jobs, FieldInv, TypeOK
<1>2. CASE screen' = "progress" /\ Send(CreateSnapshotCmd)
  <2>1. /\ IsJob(CreateSnapshotCmd) /\ CreateSnapshotCmd.kind \in OperationKinds
        /\ CreateSnapshotCmd.on = connection /\ (Placed => CreateSnapshotCmd.own)
    BY Operations DEF CreateSnapshotCmd, OperationKinds
  <2>2. /\ IsABag(pending') /\ Jobs' = Jobs \cup {CreateSnapshotCmd}
        /\ Running' = Running \cup {CreateSnapshotCmd}
        /\ CreateSnapshotCmd \notin Jobs => pending'[CreateSnapshotCmd] = 1
    BY <1>1, <1>2, <2>1, SendJob
  <2> QED BY <1>1, <1>2, <2>1, <2>2 DEF FieldInv, TypeOK, Screens, CursorInv, ChosenInv, Inside, AnswerInv,
         SoloInv, AskInv, ScopeInv, Suits, Placed, Scope, ListLen, BackupList
<1>3. CASE screen' = "menu" /\ UNCHANGED pending
  <2>1. SameJobs
    BY <1>1, <1>3, NoneSent
  <2> QED BY <1>1, <1>3, <2>1 DEF FieldInv, TypeOK, Screens, CursorInv, ChosenInv, Inside, AnswerInv,
         SoloInv, AskInv, ScopeInv, Suits, Placed, Scope, SameJobs, ListLen, BackupList
<1> QED BY <1>2, <1>3

\* A list that is left is empty.
LEMMA LeftList ==
    ASSUME LeaveList
    PROVE  /\ purpose' = "view" /\ snapshots'.n = 0 /\ snapshots'.n \in 0..MaxItems
           /\ backups' \in BackupLists \cup {<<>>} /\ listCursor' = 0
BY ListsAssumption DEF LeaveList, NoList

LEMMA ListKeyStep ==
    ASSUME UIInv, ListKey
    PROVE  UIInv'
<1> USE DEF UIInv, ListKey, At, picked
<1>1. /\ connection \in Conns /\ IsABag(pending) /\ ListLen \in Nat
      /\ "screen" \notin astray => Jobs = {} /\ Running = {}
  <2>1. Len(backups) \in Nat
    <3>1. backups \in BackupLists \cup {<<>>}
      BY DEF FieldInv, TypeOK
    <3>2. CASE backups = <<>>
      BY <3>2
    <3>3. CASE backups \in BackupLists
      <4>1. backups \in Seq(Conns \X (Conns \X (0..MaxDbs)))
        BY <3>3, ListsAssumption
      <4> QED BY <4>1
    <3> QED BY <3>1, <3>2, <3>3
  <2> QED BY <2>1, Kinds DEF ChosenInv, Inside, SoloInv, Jobs, FieldInv, TypeOK, ListLen
<1>2. CASE /\ listCursor' \in Moves(listCursor, ListLen)
           /\ UNCHANGED <<screen, pending, confirm, purpose, snapshots, backups>>
  <2>1. SameJobs
    BY <1>1, <1>2, NoneSent
  <2>2. listCursor' \in Nat /\ listCursor' < ListLen
    BY <1>1, <1>2, MovesInRange DEF FieldInv, CursorInv
  <2>3. ListLen' = ListLen
    BY <1>2 DEF ListLen, BackupList
  <2> QED BY <1>1, <1>2, <2>1, <2>2, <2>3 DEF FieldInv, TypeOK, Screens, CursorInv, ChosenInv, Inside, AnswerInv,
         SoloInv, AskInv, ScopeInv, Suits, Placed, Scope, SameJobs
<1>3. CASE /\ ListLen > 0 /\ purpose = "diff" /\ screen' = "progress"
           /\ Send(DiffLiveCmd(Item)) /\ LeaveList /\ UNCHANGED confirm
  <2> DEFINE d == DiffLiveCmd(Item)
  <2>1. /\ IsJob(d) /\ d.kind \in OperationKinds
        /\ astray = {} => Suits(d)
    <3>1. astray = {} => Placed /\ Item = Scope
      BY <1>3 DEF ScopeInv, ListLen, BackupList, Item
    <3> QED BY <3>1, Operations DEF DiffLiveCmd, OperationKinds, Suits
  <2> HIDE DEF d
  <2>2. /\ IsABag(pending') /\ Jobs' = Jobs \cup {d} /\ Running' = Running \cup {d}
        /\ d \notin Jobs => pending'[d] = 1
    BY <1>1, <1>3, <2>1, SendJob DEF d
  <2> QED BY <1>1, <1>3, <2>1, <2>2, LeftList DEF FieldInv, TypeOK, Screens, CursorInv, ChosenInv, Inside,
         AnswerInv, SoloInv, AskInv, ScopeInv, Suits, Placed, Scope
<1>4. CASE /\ ListLen > 0 /\ purpose \in {"restore", "backup_restore"} /\ screen' = "confirm"
           /\ confirm' = [of |-> Scope, op |-> IF purpose = "restore" THEN RestoreSnapshotCmd(Item)
                                                                     ELSE RestoreBackupCmd(Item)]
           /\ UNCHANGED <<list, pending>>
  <2>1. SameJobs
    BY <1>1, <1>4, NoneSent
  <2>2. /\ confirm'.of = Scope /\ confirm'.op.kind \in OperationKinds
        /\ astray = {} => Suits(confirm'.op)
    <3>1. astray = {} /\ purpose = "restore" => Item = Scope
      BY <1>4 DEF ScopeInv, ListLen, BackupList, Item
    <3>2. astray = {} => Placed
      BY DEF ScopeInv
    <3> QED BY <1>4, <3>1, <3>2, Operations DEF RestoreSnapshotCmd, RestoreBackupCmd, OperationKinds, Suits
  <2> QED BY <1>1, <1>4, <2>1, <2>2 DEF FieldInv, TypeOK, Screens, CursorInv, ChosenInv, Inside, AnswerInv,
         SoloInv, AskInv, ScopeInv, Suits, Placed, Scope, SameJobs, ListLen, BackupList, list
<1>5. CASE screen' = "menu" /\ LeaveList /\ UNCHANGED <<pending, confirm>>
  <2>1. SameJobs
    BY <1>1, <1>5, NoneSent
  <2> QED BY <1>1, <1>5, <2>1, LeftList DEF FieldInv, TypeOK, Screens, CursorInv, ChosenInv, Inside, AnswerInv,
         SoloInv, AskInv, ScopeInv, Suits, Placed, Scope, SameJobs
<1> QED BY <1>2, <1>3, <1>4, <1>5

LEMMA ConfirmKeyStep ==
    ASSUME UIInv, ConfirmKey
    PROVE  UIInv'
<1> USE DEF UIInv, ConfirmKey, At, picked
<1>1. connection \in Conns /\ IsABag(pending) /\ ("screen" \notin astray => Jobs = {} /\ Running = {})
  BY Kinds DEF ChosenInv, Inside, SoloInv, Jobs, FieldInv, TypeOK
<1>2. CASE screen' = "progress" /\ Send(confirm.op) /\ LeaveList
  <2>1. confirm.op.kind \in OperationKinds /\ IsJob(confirm.op) /\ (astray = {} => Suits(confirm.op))
    BY DEF AskInv, ScopeInv, IsJob
  <2>2. /\ IsABag(pending') /\ Jobs' = Jobs \cup {confirm.op} /\ Running' = Running \cup {confirm.op}
        /\ confirm.op \notin Jobs => pending'[confirm.op] = 1
    BY <1>1, <1>2, <2>1, SendJob
  <2> QED BY <1>1, <1>2, <2>1, <2>2, LeftList DEF FieldInv, TypeOK, Screens, CursorInv, ChosenInv, Inside,
         AnswerInv, SoloInv, AskInv, ScopeInv, Suits, Placed, Scope
<1>3. CASE screen' = "list" /\ UNCHANGED <<pending, list>>
  <2>1. SameJobs
    BY <1>1, <1>3, NoneSent
  <2> QED BY <1>1, <1>3, <2>1 DEF FieldInv, TypeOK, Screens, CursorInv, ChosenInv, Inside, AnswerInv,
         SoloInv, AskInv, ScopeInv, Suits, Placed, Scope, SameJobs, ListLen, BackupList, list
<1> QED BY <1>2, <1>3

LEMMA ResultKeyStep ==
    ASSUME UIInv, ResultKey
    PROVE  UIInv'
<1> USE DEF UIInv, ResultKey, At, picked, list
<1>1. SameJobs /\ (resultBack = "deps" => BagIn(CheckDepsCmd, pending'))
  BY SendOther, NoneSent, Kinds DEF FieldInv, TypeOK
<1>2. screen' \in {"launcher", "deps", "menu"} /\ (screen' = "menu" => resultBack = "menu")
  BY DEF FieldInv
<1> QED BY <1>1, <1>2 DEF FieldInv, TypeOK, Screens, CursorInv, ChosenInv, Inside, AnswerInv,
       SoloInv, AskInv, ScopeInv, Suits, Placed, Scope, SameJobs, ListLen, BackupList

LEMMA CtrlCStep ==
    ASSUME UIInv, CtrlC
    PROVE  UIInv'
<1> USE DEF UIInv, CtrlC, picked, list
<1>1. IsABag(pending') /\ Jobs' = {} /\ Running' = {}
  <2>1. IsABag(EmptyBag) /\ BagToSet(EmptyBag) = {}
    BY DEF EmptyBag, SetToBag, IsABag, BagToSet
  <2> QED BY <2>1 DEF Jobs, Running
<1> QED BY <1>1 DEF FieldInv, TypeOK, Screens, CursorInv, ChosenInv, Inside, AnswerInv,
       SoloInv, AskInv, ScopeInv, Suits, Placed, Scope, ListLen, BackupList

-----------------------------------------------------------------------------
(* The invariant is kept by every reply.                                   *)

LEMMA DepsCheckedStep ==
    ASSUME UIInv, DepsChecked
    PROVE  UIInv'
<1> USE DEF UIInv, Pending, picked, list
<1>1. PICK c \in {CheckDepsCmd, ChooseTerminalCmd} :
        /\ Pending(c) /\ depsOK' \in BOOLEAN
        /\ IF depsOK'
             THEN /\ screen' = "connections" /\ DoneThen(c, LoadConnectionsCmd)
                  /\ Stray("screen", screen \notin {"deps", "connections"})
             ELSE Done(c) /\ UNCHANGED <<screen, astray>>
        /\ UNCHANGED <<quitting, picked, list, confirm, resultBack>>
  BY DEF DepsChecked
<1>2. ~IsJob(c) /\ BagIn(c, pending) /\ IsABag(pending)
  BY <1>1, Kinds DEF FieldInv, TypeOK
<1>3. SameJobs
  BY <1>1, <1>2, TakeOther, SwapOther, Kinds
<1>4. astray \subseteq astray' /\ astray' \subseteq {"screen", "list"}
  BY <1>1 DEF Stray, FieldInv, TypeOK
<1>5. CASE depsOK'
  <2>1. "screen" \notin astray' => screen \in {"deps", "connections"} /\ astray' = astray
    BY <1>1, <1>5 DEF Stray
  <2> QED BY <1>1, <1>3, <1>4, <1>5, <2>1 DEF FieldInv, TypeOK, Screens, CursorInv, ChosenInv, Inside,
         AnswerInv, SoloInv, AskInv, ScopeInv, Suits, Placed, Scope, SameJobs, ListLen, BackupList
<1>6. CASE ~depsOK'
  <2>1. UNCHANGED <<screen, astray, quitting, picked, list, confirm, resultBack>>
    BY <1>1, <1>6
  <2>2. FieldInv' /\ CursorInv'
    BY <1>1, <1>3, <2>1 DEF FieldInv, TypeOK, CursorInv, SameJobs, ListLen, BackupList
  <2>3. AnswerInv'
    BY <1>3, <1>6, <2>1 DEF AnswerInv, SameJobs
  <2> QED BY <1>3, <2>1, <2>2, <2>3 DEF ChosenInv, Inside, SoloInv, AskInv, ScopeInv, Suits, Placed, Scope, SameJobs
<1> QED BY <1>5, <1>6

\* A reply other than a check leaves a check in flight.
LEMMA CheckKept ==
    ASSUME UIInv, NEW c, Pending(c), ~IsCheck(c), ~IsJob(c),
           Done(c) \/ \E d : ~IsJob(d) /\ DoneThen(c, d)
    PROVE  /\ SameJobs
           /\ \A d : IsCheck(d) /\ BagIn(d, pending) => BagIn(d, pending')
<1>1. IsABag(pending) /\ BagIn(c, pending)
  BY DEF UIInv, FieldInv, TypeOK, Pending
<1>2. CASE Done(c)
  BY <1>1, <1>2, TakeOther
<1>3. CASE \E d : ~IsJob(d) /\ DoneThen(c, d)
  BY <1>1, <1>3, SwapOther
<1> QED BY <1>2, <1>3

LEMMA DepsInstalledStep ==
    ASSUME UIInv, DepsInstalled
    PROVE  UIInv'
<1> USE DEF UIInv, DepsInstalled, picked, list
<1>1. SameJobs /\ \A d : IsCheck(d) /\ BagIn(d, pending) => BagIn(d, pending')
  BY CheckKept, Kinds, Checks
<1> QED BY <1>1 DEF FieldInv, TypeOK, Screens, CursorInv, ChosenInv, Inside, AnswerInv, IsCheck,
       SoloInv, AskInv, ScopeInv, Suits, Placed, Scope, SameJobs, ListLen, BackupList

LEMMA DesktopAppResolvedStep ==
    ASSUME UIInv, DesktopAppResolved
    PROVE  UIInv'
<1> USE DEF UIInv, DesktopAppResolved, Pending, picked, list
<1>1. ChooseDesktopAppCmd \in Jobs /\ IsABag(pending)
  BY Kinds DEF BagIn, FieldInv, TypeOK, Jobs
<1>2. /\ IsABag(pending') /\ Jobs' \subseteq Jobs /\ Running' \subseteq Running
      /\ "screen" \notin astray => Jobs' = {} /\ Running' = {} /\ screen = "progress"
      /\ \A d : IsCheck(d) /\ BagIn(d, pending) => BagIn(d, pending')
  BY <1>1, TakeJob, Checks DEF SoloInv
<1>3. FieldInv' /\ CursorInv' /\ ChosenInv'
  <2>1. quitting' \in BOOLEAN /\ screen' \in Screens
    BY DEF FieldInv, TypeOK, Screens
  <2>2. FieldInv'
    BY <1>2, <2>1 DEF FieldInv, TypeOK
  <2> QED BY <1>2, <2>2 DEF CursorInv, ChosenInv, Inside, ListLen, BackupList
<1>4. CASE quitting' = TRUE /\ UNCHANGED screen
  BY <1>2, <1>3, <1>4 DEF AnswerInv, SoloInv, AskInv, ScopeInv, Suits, Placed, Scope
<1>5. CASE screen' = "result" /\ UNCHANGED quitting
  BY <1>2, <1>3, <1>5 DEF AnswerInv, SoloInv, AskInv, ScopeInv, Suits, Placed, Scope
<1> QED BY <1>4, <1>5

LEMMA ConnectionsLoadedStep ==
    ASSUME UIInv, ConnectionsLoaded
    PROVE  UIInv'
<1> USE DEF UIInv, ConnectionsLoaded, list
<1>1. SameJobs /\ \A d : IsCheck(d) /\ BagIn(d, pending) => BagIn(d, pending')
  BY CheckKept, Kinds, Checks
<1>2. connCursor' \in Nat /\ (connections' # <<>> => connCursor' < Len(connections'))
  <2>1. connections' \in Seq(Conns) /\ Len(connections') \in Nat
    <3>1. connections' \in Lists \cup {<<>>}
      OBVIOUS
    <3>2. <<>> \in Seq(Conns)
      OBVIOUS
    <3>3. connections' \in Seq(Conns)
      BY <3>1, <3>2, ListsAssumption
    <3> QED BY <3>3
  <2>2. connections' # <<>> => Len(connections') # 0
    BY <2>1
  <2> QED BY <2>1, <2>2 DEF Clamped, FieldInv
<1> QED BY <1>1, <1>2 DEF FieldInv, TypeOK, Screens, CursorInv, ChosenInv, Inside, AnswerInv, IsCheck,
       SoloInv, AskInv, ScopeInv, Suits, Placed, Scope, SameJobs, ListLen, BackupList

LEMMA ConnectionSavedStep ==
    ASSUME UIInv, ConnectionSaved
    PROVE  UIInv'
<1> USE DEF UIInv, ConnectionSaved, picked, list
<1>1. SameJobs /\ \A d : IsCheck(d) /\ BagIn(d, pending) => BagIn(d, pending')
  BY CheckKept, Kinds, Checks
<1>2. CASE /\ screen' = "connections" /\ DoneThen(SaveConnectionCmd, LoadConnectionsCmd)
           /\ Stray("screen", screen \notin {"add", "connections"})
  <2>1. /\ astray \subseteq astray' /\ astray' \subseteq {"screen", "list"}
        /\ "screen" \notin astray' => screen \in {"add", "connections"} /\ astray' = astray
    BY <1>2 DEF Stray, FieldInv, TypeOK
  <2> QED BY <1>1, <1>2, <2>1 DEF FieldInv, TypeOK, Screens, CursorInv, ChosenInv, Inside,
         AnswerInv, SoloInv, AskInv, ScopeInv, Suits, Placed, Scope, SameJobs, ListLen, BackupList
<1>3. CASE UNCHANGED <<screen, astray>>
  BY <1>1, <1>3 DEF FieldInv, TypeOK, CursorInv, ChosenInv, Inside, AnswerInv, IsCheck,
     SoloInv, AskInv, ScopeInv, Suits, Placed, Scope, SameJobs, ListLen, BackupList
<1> QED BY <1>2, <1>3

LEMMA DatabasesLoadedStep ==
    ASSUME UIInv, DatabasesLoaded
    PROVE  UIInv'
<1> USE DEF UIInv, list
<1>1. PICK c \in Conns :
        /\ Pending(LoadDatabasesCmd(c)) /\ Done(LoadDatabasesCmd(c))
        /\ databases' \in [of : {c}, n : 0..MaxDbs]
        /\ Stray("list", c # connection)
        /\ UNCHANGED <<screen, quitting, depsOK, connections, connCursor, connection, dbCursor,
                       dbTyping, database, list, confirm, resultBack>>
  BY DEF DatabasesLoaded
<1>2. SameJobs /\ \A d : IsCheck(d) /\ BagIn(d, pending) => BagIn(d, pending')
  BY <1>1, CheckKept, Kinds, Checks
<1>3. /\ astray \subseteq astray' /\ astray' \subseteq {"screen", "list"}
      /\ "screen" \in astray' <=> "screen" \in astray
      /\ astray' = {} => astray = {} /\ c = connection
  BY <1>1 DEF Stray, FieldInv, TypeOK
<1>4. databases'.n \in 0..MaxDbs /\ databases'.of = c
  BY <1>1
<1> QED BY <1>1, <1>2, <1>3, <1>4 DEF FieldInv, TypeOK, CursorInv, ChosenInv, Inside, AnswerInv, IsCheck,
       SoloInv, AskInv, ScopeInv, Suits, Placed, Scope, SameJobs, ListLen, BackupList

LEMMA SnapshotsLoadedStep ==
    ASSUME UIInv, SnapshotsLoaded
    PROVE  UIInv'
<1> USE DEF UIInv
<1>1. PICK cmd \in {c \in BagToSet(pending) : c.kind = "snapshots"} :
        /\ Pending(cmd) /\ Done(cmd)
        /\ IF ListShown /\ ~BackupList THEN snapshots' \in [of : {cmd.of}, n : 0..MaxItems]
           ELSE UNCHANGED snapshots
        /\ listCursor' = 0
        /\ Stray("list", cmd.of # Scope)
        /\ UNCHANGED <<screen, quitting, depsOK, picked, purpose, backups, confirm, resultBack>>
  BY DEF SnapshotsLoaded
<1>2. SameJobs /\ \A d : IsCheck(d) /\ BagIn(d, pending) => BagIn(d, pending')
  BY <1>1, CheckKept, Kinds, Checks
<1>3. /\ astray \subseteq astray' /\ astray' \subseteq {"screen", "list"}
      /\ "screen" \in astray' <=> "screen" \in astray
      /\ astray' = {} => astray = {} /\ cmd.of = Scope
  BY <1>1 DEF Stray, FieldInv, TypeOK
<1>4. /\ snapshots'.n \in 0..MaxItems
      /\ \/ snapshots' = snapshots
         \/ snapshots'.of = cmd.of /\ screen \in {"list", "confirm"}
  BY <1>1 DEF ListShown, FieldInv, TypeOK
<1> QED BY <1>1, <1>2, <1>3, <1>4 DEF picked, FieldInv, TypeOK, CursorInv, ChosenInv, Inside, AnswerInv,
       IsCheck, SoloInv, AskInv, ScopeInv, Suits, Placed, Scope, SameJobs

LEMMA BackupsLoadedStep ==
    ASSUME UIInv, BackupsLoaded
    PROVE  UIInv'
<1> USE DEF UIInv, BackupsLoaded, picked
<1>1. SameJobs /\ \A d : IsCheck(d) /\ BagIn(d, pending) => BagIn(d, pending')
  BY CheckKept, Kinds, Checks
<1>2. backups' \in BackupLists \cup {<<>>} /\ listCursor' = 0
  BY DEF FieldInv, TypeOK
<1> QED BY <1>1, <1>2 DEF FieldInv, TypeOK, CursorInv, ChosenInv, Inside, AnswerInv,
       IsCheck, SoloInv, AskInv, ScopeInv, Suits, Placed, Scope, SameJobs

LEMMA ActionDoneStep ==
    ASSUME UIInv, ActionDone
    PROVE  UIInv'
<1> USE DEF UIInv, picked, list
<1>1. PICK c \in Running :
        /\ Pending(c) /\ Done(c)
        /\ screen' = "result" /\ resultBack' = "menu"
        /\ UNCHANGED <<quitting, depsOK, picked, list, confirm, astray>>
  BY DEF ActionDone
<1>2. c \in Jobs /\ connection \in Conns /\ IsABag(pending) /\ (astray = {} => Placed)
  BY <1>1 DEF Jobs, ChosenInv, ScopeInv, FieldInv, TypeOK
<1>3. /\ IsABag(pending') /\ Jobs' \subseteq Jobs /\ Running' \subseteq Running
      /\ "screen" \notin astray => Jobs' = {} /\ Running' = {} /\ screen = "progress"
  BY <1>1, <1>2, TakeJob DEF SoloInv
<1> QED BY <1>1, <1>2, <1>3 DEF FieldInv, TypeOK, Screens, CursorInv, ChosenInv, Inside, AnswerInv,
       SoloInv, AskInv, ScopeInv, Suits, Placed, Scope, ListLen, BackupList

-----------------------------------------------------------------------------
LEMMA UIStep == UIInv /\ [Next]_vars => UIInv'
<1> SUFFICES ASSUME UIInv, [Next]_vars PROVE UIInv'
  OBVIOUS
<1>1. CASE Key
  BY <1>1, LauncherKeyStep, DepsKeyStep, ConnectionsKeyStep, AddConnectionKeyStep, DatabasesKeyStep,
     MenuKeyStep, MessageKeyStep, ListKeyStep, ConfirmKeyStep, ResultKeyStep, CtrlCStep DEF Key
<1>2. CASE Reply
  BY <1>2, DepsCheckedStep, DepsInstalledStep, DesktopAppResolvedStep, ConnectionsLoadedStep,
     ConnectionSavedStep, DatabasesLoadedStep, SnapshotsLoadedStep, BackupsLoadedStep, ActionDoneStep
     DEF Reply
<1>3. CASE UNCHANGED vars
  BY <1>3, UIStutter
<1> QED BY <1>1, <1>2, <1>3 DEF Next

LEMMA UIConsistent == UIInv => ScreensAreConsistent
<1> SUFFICES ASSUME UIInv PROVE ScreensAreConsistent
  OBVIOUS
<1>1. TypeOK /\ ConfirmIsCurrent
  BY DEF UIInv, FieldInv, AskInv, ConfirmIsCurrent
<1>2. CursorsInRange
  BY DEF UIInv, FieldInv, CursorInv, CursorsInRange
<1>3. ScopeConsistent
  BY DEF UIInv, ScopeInv, Suits, ScopeConsistent
<1>4. Running \subseteq Jobs
  BY DEF Jobs
<1>5. OneAtATime
  <2> SUFFICES ASSUME "screen" \notin astray
               PROVE  Cardinality(Running) <= 1 /\ \A c \in Running : pending[c] = 1
    BY DEF OneAtATime
  <2>1. CASE Running = {}
    BY <2>1, FS_EmptySet
  <2>2. CASE Running # {}
    <3>1. PICK c : Running = {c}
      BY <2>2, <1>4 DEF UIInv, SoloInv
    <3>2. Cardinality(Running) = 1
      BY <3>1, FS_Singleton
    <3>3. \A d \in Running : pending[d] = 1
      BY <1>4 DEF UIInv, SoloInv
    <3> QED BY <3>2, <3>3
  <2> QED BY <2>1, <2>2
<1>6. QuitCutsNothing
  BY <1>4 DEF UIInv, SoloInv, QuitCutsNothing
<1>7. WaitingIsAnswered
  BY DEF UIInv, AnswerInv, Jobs, WaitingIsAnswered, BagIn
<1> QED BY <1>1, <1>2, <1>3, <1>5, <1>6, <1>7 DEF ScreensAreConsistent

\* Whatever keys are pressed and in whatever order replies arrive: a list that
\* is indexed has an item under its cursor, an operation works on the chosen
\* server, and on its chosen database unless it restores a backup, one at a time,
\* a question is about what is chosen, a screen that ignores keys waits for a
\* command in flight, and leaving cuts nothing short, unless a reply went astray.
THEOREM ScreensAreConsistentAlways == Spec => []ScreensAreConsistent
<1>1. Spec => []UIInv
  BY UIInit, UIStep, PTL DEF Spec
<1> QED BY <1>1, UIConsistent, PTL

=============================================================================
