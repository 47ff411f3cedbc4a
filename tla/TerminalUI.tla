----------------------------- MODULE TerminalUI -----------------------------
(***************************************************************************)
(* The terminal interface (src/internal/tui): one model with a screen, to  *)
(* which keys and the replies of commands are applied one at a time.       *)
(*                                                                         *)
(* A command (loading a list, saving, a backup, a restore) runs in a       *)
(* goroutine of its own and its reply is applied whatever the screen is by *)
(* then; replies of several commands arrive in any order.  The screens     *)
(* "progress" and, once everything is installed, "deps" ignore every key   *)
(* but Ctrl+C.                                                             *)
(*                                                                         *)
(* Cursors of the fixed menus are left out: Enter takes any of the items.  *)
(* A list of databases or snapshots is what it belongs to and how long it  *)
(* is; the list of backups holds those of all connections, each with the   *)
(* connection and the database it was made of.  A user who types a         *)
(* database name may type one that the server also lists.  What a screen   *)
(* can no longer show (a list that has been left, a question that has been *)
(* answered) is cleared.                                                   *)
(***************************************************************************)
EXTENDS Naturals, Sequences, FiniteSets, Bags

CONSTANTS Conns,       \* names of saved connections
          Lists,       \* the connection tables the settings file may hold
          BackupLists, \* what the index of backups may hold
          Purposes,    \* what lists are opened for
          MaxDbs,      \* databases a server lists at most
          MaxItems,    \* snapshots listed at most
          None,        \* nothing chosen yet
          MaxPending,  \* bound: commands in flight
          MaxKeys      \* bound: keys after a reply went astray

ASSUME PurposesAssumption ==
  Purposes \subseteq {"view", "diff", "restore", "backup_view", "backup_restore"}

ASSUME ListsAssumption ==
  /\ Lists \subseteq Seq(Conns) /\ MaxDbs \in Nat /\ MaxItems \in Nat
  /\ BackupLists \subseteq Seq(Conns \X (Conns \X (0..MaxDbs)))
  /\ None \notin Conns \X (0..MaxDbs)

VARIABLES
  screen, quitting,
  depsOK,        \* AllInstalled(depStatuses)
  connections, connCursor,
  connection, databases, dbCursor, dbTyping, database,
  purpose, snapshots, backups, listCursor,
  confirm,       \* the operation confirmYesMsg starts
  resultBack,
  pending,       \* commands in flight, a bag
  \* History
  astray,        \* replies that were applied to a model they were not meant for
  keys           \* keys pressed since one was

deps   == <<depsOK>>
picked == <<connections, connCursor, connection, databases, dbCursor, dbTyping, database>>
list   == <<purpose, snapshots, backups, listCursor>>
vars   == <<screen, quitting, depsOK, picked, list, confirm, resultBack,
            pending, astray, keys>>

Scope == <<connection, database>>

Screens == {"launcher", "deps", "connections", "add", "databases", "menu",
            "list", "message", "confirm", "progress", "result"}

\* Commands that work on a database; the others load, check, save or install.
\* What matters of them is the connection, and whether the database, and the
\* snapshot or backup if there is one, belong to it.
Operation(kind, item) ==
  [kind |-> kind, on |-> connection,
   own |-> database # None /\ database[1] = connection /\ item \in {None, Scope}]
OperationKinds == {"create", "diff", "restore", "backup", "backup_restore"}
Running == {c \in BagToSet(pending) : c.kind \in OperationKinds}

\* The commands, named as in messages.go.  What they do is abstracted to what
\* they work on; each one sends exactly one reply.
CheckDepsCmd             == [kind |-> "deps"]
ChooseTerminalCmd        == [kind |-> "terminal"]
ChooseDesktopAppCmd      == [kind |-> "desktop"]
AutoInstallDepsCmd       == [kind |-> "install"]
LoadConnectionsCmd       == [kind |-> "connections"]
SaveConnectionCmd        == [kind |-> "save"]
LoadDatabasesCmd(c)      == [kind |-> "databases", of |-> c]
LoadSnapshotsCmd(scope)  == [kind |-> "snapshots", of |-> scope]
LoadBackupsCmd           == [kind |-> "backups"]
CreateSnapshotCmd        == Operation("create", None)
DiffLiveCmd(item)        == Operation("diff", item)
RestoreSnapshotCmd(item) == Operation("restore", item)
CreateBackupCmd          == Operation("backup", None)
\* It drops and restores the database of the backup, not the chosen one.
RestoreBackupCmd(item)   == Operation("backup_restore", item)

NoList == [of |-> None, n |-> 0]

\* Mutant: a list is opened with what it held before.
Emptied_Not(l) == l

\* A list opens empty and fills when its reply arrives.
Emptied(l) == NoList

LeaveList == purpose' = "view" /\ snapshots' = NoList /\ backups' = <<>> /\ listCursor' = 0

Send(c) == BagCardinality(pending) < MaxPending /\ pending' = pending (+) SetToBag({c})
Quit == quitting' = TRUE /\ UNCHANGED <<screen, pending>>

-----------------------------------------------------------------------------
(* Keys, by screen (handleKey).                                            *)

At(s) ==
  /\ screen = s /\ ~quitting
  /\ IF astray = {} THEN UNCHANGED keys ELSE keys < MaxKeys /\ keys' = keys + 1

\* chooseLauncher: Esc takes the terminal as well.
LauncherKey ==
  /\ At("launcher")
  /\ \/ /\ screen' = "deps" /\ Send(ChooseTerminalCmd)
        /\ UNCHANGED resultBack
     \/ /\ screen' = "progress" /\ Send(ChooseDesktopAppCmd)
        /\ resultBack' = "deps"
  /\ UNCHANGED <<quitting, depsOK, picked, list, confirm, astray>>

\* Enter on "Install automatically" leaves the screen, and its other items,
\* usable while the installation runs.
DepsKey ==
  /\ At("deps") /\ ~depsOK
  /\ \/ Send(AutoInstallDepsCmd) /\ UNCHANGED <<screen, quitting>>
     \/ screen' = "connections" /\ Send(LoadConnectionsCmd) /\ UNCHANGED quitting
     \/ Quit
  /\ UNCHANGED <<depsOK, picked, list, confirm, resultBack, astray>>

\* Up or down within n items.
Moves(cursor, n) ==
  {c \in 0..n : (c + 1 = cursor) \/ (c = cursor + 1 /\ cursor + 1 < n)}

ConnectionsKey ==
  /\ At("connections")
  /\ \/ /\ connCursor' \in Moves(connCursor, Len(connections))
        /\ UNCHANGED <<screen, quitting, pending, connection, databases, dbCursor, dbTyping>>
     \/ /\ screen' = "add"
        /\ UNCHANGED <<quitting, pending, connCursor, connection, databases, dbCursor, dbTyping>>
     \/ /\ connections # <<>>
        /\ connection' = connections[connCursor + 1]
        /\ screen' = "databases"
        /\ databases' = Emptied(databases) /\ dbCursor' = 0 /\ dbTyping' = FALSE
        /\ Send(LoadDatabasesCmd(connection'))
        /\ UNCHANGED <<quitting, connCursor>>
     \/ Quit /\ UNCHANGED <<connCursor, connection, databases, dbCursor, dbTyping>>
  /\ UNCHANGED <<depsOK, connections, database, list, confirm, resultBack, astray>>

\* Enter saves the form and stays on it until the reply.
AddConnectionKey ==
  /\ At("add")
  /\ \/ screen' = "connections" /\ UNCHANGED pending
     \/ Send(SaveConnectionCmd) /\ UNCHANGED screen
  /\ UNCHANGED <<quitting, depsOK, picked, list, confirm, resultBack, astray>>

\* Mutant: the list is not asked whether it has an item under the cursor.
ListedDatabase_Unchecked(d) == d = <<databases.of, dbCursor>>

\* The database under the cursor; nothing when the list has become shorter.
ListedDatabase(d) == dbCursor < databases.n /\ d = <<databases.of, dbCursor>>

DatabasesKey ==
  /\ At("databases")
  /\ \/ /\ dbTyping
        /\ \/ /\ screen' = "menu" /\ database' = <<connection, 0>>
              /\ UNCHANGED <<dbTyping, dbCursor>>
           \/ dbTyping' = FALSE /\ UNCHANGED <<screen, database, dbCursor>>
     \/ /\ ~dbTyping
        /\ \/ /\ dbCursor' \in Moves(dbCursor, databases.n + 1)
              /\ UNCHANGED <<screen, database, dbTyping>>
           \/ /\ dbCursor = databases.n /\ dbTyping' = TRUE
              /\ UNCHANGED <<screen, database, dbCursor>>
           \/ /\ \E d \in {databases.of} \X (0..MaxDbs) : ListedDatabase(d) /\ database' = d
              /\ screen' = "menu"
              /\ UNCHANGED <<dbTyping, dbCursor>>
           \/ screen' = "connections" /\ UNCHANGED <<database, dbTyping, dbCursor>>
  /\ UNCHANGED <<quitting, depsOK, connections, connCursor, connection, databases,
                 list, confirm, resultBack, pending, astray>>

\* The lists of snapshots and of backups open empty and load.
OpenList(p) ==
  /\ screen' = "list" /\ purpose' = p /\ listCursor' = 0
  /\ IF p \in {"backup_view", "backup_restore"}
       THEN backups' = <<>> /\ Send(LoadBackupsCmd) /\ UNCHANGED snapshots
       ELSE /\ snapshots' = Emptied(snapshots) /\ UNCHANGED backups
            /\ Send(LoadSnapshotsCmd(Scope))
  /\ UNCHANGED resultBack

MenuKey ==
  /\ At("menu")
  /\ \/ /\ screen' \in {"message", "databases"}
        /\ UNCHANGED <<pending, resultBack, list>>
     \/ \E p \in Purposes : OpenList(p)
     \/ /\ screen' = "progress" /\ Send(CreateBackupCmd)
        /\ UNCHANGED <<resultBack, list>>
     \/ /\ screen' = "progress" /\ Send(ChooseDesktopAppCmd)
        /\ resultBack' = "menu"
        /\ UNCHANGED list
  /\ UNCHANGED <<quitting, depsOK, picked, confirm, astray>>

MessageKey ==
  /\ At("message")
  /\ \/ screen' = "progress" /\ Send(CreateSnapshotCmd)
     \/ screen' = "menu" /\ UNCHANGED pending
  /\ UNCHANGED <<quitting, depsOK, picked, list, confirm, resultBack, astray>>

BackupList == purpose \in {"backup_view", "backup_restore"}
ListLen == IF BackupList THEN Len(backups) ELSE snapshots.n

\* What selectListItem takes: the id of a snapshot, which belongs to the scope its
\* list was loaded for, or of a backup, which belongs to any.
Item == IF BackupList THEN backups[listCursor + 1] ELSE snapshots.of

\* selectListItem: a diff starts at once, a restore is confirmed first.
ListKey ==
  /\ At("list")
  /\ \/ /\ listCursor' \in Moves(listCursor, ListLen)
        /\ UNCHANGED <<screen, pending, confirm, purpose, snapshots, backups>>
     \/ /\ ListLen > 0 /\ purpose = "diff"
        /\ screen' = "progress" /\ Send(DiffLiveCmd(Item))
        /\ LeaveList /\ UNCHANGED confirm
     \/ /\ ListLen > 0 /\ purpose \in {"restore", "backup_restore"}
        /\ screen' = "confirm" /\ confirm' = [of |-> Scope, op |-> IF purpose = "restore"
                                                          THEN RestoreSnapshotCmd(Item)
                                                          ELSE RestoreBackupCmd(Item)]
        /\ UNCHANGED <<list, pending>>
     \/ screen' = "menu" /\ LeaveList /\ UNCHANGED <<pending, confirm>>
  /\ UNCHANGED <<quitting, depsOK, picked, resultBack, astray>>

\* Mutant: the screen with the question stays while the command runs.
ConfirmKey_Stays ==
  /\ At("confirm")
  /\ \/ Send(confirm.op) /\ UNCHANGED <<screen, confirm>>
     \/ screen' = "list" /\ confirm' = None /\ UNCHANGED pending
  /\ UNCHANGED <<quitting, depsOK, picked, list, resultBack, astray>>

ConfirmKey ==
  /\ At("confirm")
  /\ \/ screen' = "progress" /\ Send(confirm.op) /\ LeaveList
     \/ screen' = "list" /\ UNCHANGED <<pending, list>>
  /\ confirm' = None
  /\ UNCHANGED <<quitting, depsOK, picked, resultBack, astray>>

\* Mutant: the check that was skipped at the start is not made up for.
ResultKey_NoCheck ==
  /\ At("result")
  /\ screen' = resultBack
  /\ UNCHANGED <<quitting, depsOK, picked, list, confirm, resultBack, pending, astray>>

\* From the first-start chooser the dependency check has not run yet.
ResultKey ==
  /\ At("result")
  /\ screen' = resultBack
  /\ IF resultBack = "deps" THEN Send(CheckDepsCmd) ELSE UNCHANGED pending
  /\ UNCHANGED <<quitting, depsOK, picked, list, confirm, resultBack, astray>>

\* Ctrl+C takes what is running with it.
CtrlC ==
  /\ ~quitting /\ quitting' = TRUE /\ pending' = EmptyBag /\ UNCHANGED screen
  /\ UNCHANGED <<depsOK, picked, list, confirm, resultBack, astray, keys>>

-----------------------------------------------------------------------------
(* Replies (Update).                                                       *)

Pending(c) == ~quitting /\ BagIn(c, pending) /\ UNCHANGED keys
Done(c)    == pending' = pending (-) SetToBag({c})
DoneThen(c, d) == pending' = (pending (-) SetToBag({c})) (+) SetToBag({d})
Stray(what, wrong) == astray' = IF wrong THEN astray \cup {what} ELSE astray

\* checkDepsCmd and chooseTerminalCmd: with everything installed the
\* connections are shown, wherever the user is.
DepsChecked ==
  \E c \in {CheckDepsCmd, ChooseTerminalCmd} :
    /\ Pending(c)
    /\ depsOK' \in BOOLEAN
    /\ IF depsOK'
         THEN /\ screen' = "connections" /\ DoneThen(c, LoadConnectionsCmd)
              /\ Stray("screen", screen \notin {"deps", "connections"})
         ELSE Done(c) /\ UNCHANGED <<screen, astray>>
    /\ UNCHANGED <<quitting, picked, list, confirm, resultBack>>

DepsInstalled ==
  /\ Pending(AutoInstallDepsCmd)
  /\ \/ DoneThen(AutoInstallDepsCmd, CheckDepsCmd)
     \/ Done(AutoInstallDepsCmd)
  /\ UNCHANGED <<screen, quitting, depsOK, picked, list, confirm, resultBack, astray>>

\* The application was started, and the terminal gives way to it, or its
\* download page was opened, or neither worked.
DesktopAppResolved ==
  /\ Pending(ChooseDesktopAppCmd)
  /\ Done(ChooseDesktopAppCmd)
  /\ \/ quitting' = TRUE /\ UNCHANGED screen
     \/ screen' = "result" /\ UNCHANGED quitting
  /\ UNCHANGED <<depsOK, picked, list, confirm, resultBack, astray>>

\* Mutant: the cursor stays where it was.
Clamped_Not(cursor, n) == cursor

\* A cursor past the end moves to the last item.
Clamped(cursor, n) == IF cursor < n THEN cursor ELSE IF n = 0 THEN 0 ELSE n - 1

\* Mutant: the connection under the cursor becomes the chosen one.
ConnectionsLoaded_Chooses ==
  /\ Pending(LoadConnectionsCmd) /\ Done(LoadConnectionsCmd)
  /\ connections' \in Lists \cup {<<>>}
  /\ connCursor' = Clamped(connCursor, Len(connections'))
  /\ connection' = IF connections' = <<>> THEN None ELSE connections'[connCursor' + 1]
  /\ UNCHANGED <<screen, quitting, depsOK, databases, dbCursor, dbTyping,
                 database, list, confirm, resultBack, astray>>

\* The settings file as it is by then, or nothing when it cannot be read.
ConnectionsLoaded ==
  /\ Pending(LoadConnectionsCmd) /\ Done(LoadConnectionsCmd)
  /\ connections' \in Lists \cup {<<>>}
  /\ connCursor' = Clamped(connCursor, Len(connections'))
  /\ UNCHANGED <<screen, quitting, depsOK, connection, databases, dbCursor, dbTyping,
                 database, list, confirm, resultBack, astray>>

\* A save that worked shows the connections, wherever the user is.
ConnectionSaved ==
  /\ Pending(SaveConnectionCmd)
  /\ \/ /\ screen' = "connections" /\ DoneThen(SaveConnectionCmd, LoadConnectionsCmd)
        /\ Stray("screen", screen \notin {"add", "connections"})
     \/ Done(SaveConnectionCmd) /\ UNCHANGED <<screen, astray>>
  /\ UNCHANGED <<quitting, depsOK, picked, list, confirm, resultBack>>

ListShown == screen \in {"list", "confirm"}

\* Whichever server answers fills the list, or empties it with its error.
DatabasesLoaded ==
  \E c \in Conns :
    LET cmd == LoadDatabasesCmd(c)
    IN /\ Pending(cmd) /\ Done(cmd)
       /\ databases' \in [of : {c}, n : 0..MaxDbs]
       /\ Stray("list", c # connection)
       /\ UNCHANGED <<screen, quitting, depsOK, connections, connCursor, connection, dbCursor,
                      dbTyping, database, list, confirm, resultBack>>

SnapshotsLoaded ==
  \E cmd \in {c \in BagToSet(pending) : c.kind = "snapshots"} :
    /\ Pending(cmd) /\ Done(cmd)
    /\ IF ListShown /\ ~BackupList THEN snapshots' \in [of : {cmd.of}, n : 0..MaxItems]
       ELSE UNCHANGED snapshots
    /\ listCursor' = 0
    /\ Stray("list", cmd.of # Scope)
    /\ UNCHANGED <<screen, quitting, depsOK, picked, purpose, backups, confirm, resultBack>>

\* The backups of all connections, or nothing when the index cannot be read.
BackupsLoaded ==
  /\ Pending(LoadBackupsCmd) /\ Done(LoadBackupsCmd)
  /\ IF ListShown /\ BackupList THEN backups' \in BackupLists \cup {<<>>} ELSE UNCHANGED backups
  /\ listCursor' = 0
  /\ UNCHANGED <<screen, quitting, depsOK, picked, purpose, snapshots, confirm, resultBack,
                 astray>>

\* Mutant: an operation that failed leaves the screen as it is.
ActionDone_IgnoresError ==
  \E c \in Running :
    /\ Pending(c) /\ Done(c)
    /\ \/ screen' = "result" /\ resultBack' = "menu"
       \/ UNCHANGED <<screen, resultBack>>
    /\ UNCHANGED <<quitting, depsOK, picked, list, confirm, astray>>

\* The result is shown, wherever the user is, and leads back to the menu.
ActionDone ==
  \E c \in Running :
    /\ Pending(c) /\ Done(c)
    /\ screen' = "result" /\ resultBack' = "menu"
    /\ UNCHANGED <<quitting, depsOK, picked, list, confirm, astray>>

-----------------------------------------------------------------------------
Init ==
  /\ \/ screen = "launcher" /\ pending = EmptyBag
     \/ screen = "deps" /\ pending = SetToBag({CheckDepsCmd})
  /\ quitting = FALSE /\ depsOK = TRUE
  /\ connections = <<>> /\ connCursor = 0
  /\ connection = None /\ databases = NoList
  /\ dbCursor = 0 /\ dbTyping = FALSE /\ database = None
  /\ purpose = "view" /\ snapshots = NoList /\ backups = <<>>
  /\ listCursor = 0
  /\ confirm = None /\ resultBack = "launcher"
  /\ astray = {} /\ keys = 0

Key ==
  \/ LauncherKey \/ DepsKey \/ ConnectionsKey \/ AddConnectionKey \/ DatabasesKey
  \/ MenuKey \/ MessageKey \/ ListKey \/ ConfirmKey \/ ResultKey \/ CtrlC

Reply ==
  \/ DepsChecked \/ DepsInstalled \/ DesktopAppResolved \/ ConnectionsLoaded
  \/ ConnectionSaved \/ DatabasesLoaded \/ SnapshotsLoaded \/ BackupsLoaded \/ ActionDone

Next == Key \/ Reply

\* An operation returns, as long as its server and its tools answer, and bubbletea
\* applies its reply.  The commands that run a package manager may never return:
\* runStreamed waits for a reader that may wait for ever.
Spec == Init /\ [][Next]_vars /\ WF_vars(ActionDone)

-----------------------------------------------------------------------------
TypeOK ==
  /\ screen \in Screens /\ resultBack \in Screens
  /\ quitting \in BOOLEAN /\ depsOK \in BOOLEAN /\ dbTyping \in BOOLEAN
  /\ connections \in Lists \cup {<<>>}
  /\ connection \in Conns \cup {None}
  /\ database \in (Conns \X (0..MaxDbs)) \cup {None}
  /\ databases.n \in 0..MaxDbs /\ snapshots.n \in 0..MaxItems /\ backups \in BackupLists \cup {<<>>}
  /\ purpose \in Purposes \cup {"view"}
  /\ IsABag(pending)
  /\ astray \subseteq {"screen", "list"}

\* A list that is indexed under its cursor has an item there (keys.go:128, 412,
\* 420, 428), whatever replies have shortened or replaced it meanwhile.
CursorsInRange ==
  /\ screen = "connections" /\ connections # <<>> => connCursor < Len(connections)
  /\ screen = "list" /\ ListLen > 0 => listCursor < ListLen

\* Every operation works on the server of the chosen connection, and backups,
\* snapshots, diffs and snapshot restores on a database of it and on a snapshot of
\* that database (keys.go:310-434), unless a reply was applied to a model that had
\* moved on.  The restore of a backup is excepted (keys.go:437-443,
\* actions_backup.go:68-88): it drops and restores on that server the database the
\* backup was made of, whichever connection's backup it is and whichever database
\* is chosen (README, section 6).
ScopeConsistent ==
  astray = {} =>
    \A c \in Running \cup (IF screen = "confirm" THEN {confirm.op} ELSE {}) :
      c.on = connection /\ (c.own \/ c.kind = "backup_restore")

\* The question on the screen is about the connection and database the model
\* has chosen, and "y" starts what it asks (keys.go:417-434): also with
\* replies gone astray.
ConfirmIsCurrent ==
  screen = "confirm" => confirm.of = Scope

\* One operation at a time: "progress" takes no keys until its reply, so a
\* second operation needs a late save or dependency check that showed the
\* connections in the middle of the first one (update.go:23-28, 75-81).
OneAtATime ==
  "screen" \notin astray =>
    /\ Cardinality(Running) <= 1
    /\ \A c \in Running : pending[c] = 1

\* A screen that ignores keys waits for a reply that is on its way
\* (keys.go:11-35, 87-90).
WaitingIsAnswered ==
  quitting \/
  /\ screen = "progress" => Running # {} \/ BagIn(ChooseDesktopAppCmd, pending)
  /\ screen = "deps" /\ depsOK =>
       \E c \in {CheckDepsCmd, ChooseTerminalCmd} : BagIn(c, pending)

\* Leaving the program never cuts a running operation short (update.go:15-18,
\* 45-48, keys.go:107-109, 136-138), except by Ctrl+C or after a stray reply.
QuitCutsNothing == quitting /\ Running # {} => astray # {}

\* "progress" ends once an operation is what it waits for (update.go:107-116), also
\* when replies have gone astray.  The other command it may wait for is excepted:
\* chooseDesktopAppCmd installs through runStreamed, which may hang
\* (install.go:80-108, desktopapp.go:85, 93), on a screen that takes no keys.
ProgressEnds == (screen = "progress" /\ Running # {}) ~> (screen # "progress" \/ quitting)

\* What the user sees and starts is of the connection that was chosen, and but for
\* restored backups of its database, one operation at a time, and no screen is a
\* dead end, unless a reply went astray.
ScreensAreConsistent ==
  /\ TypeOK
  /\ CursorsInRange
  /\ ScopeConsistent /\ ConfirmIsCurrent
  /\ OneAtATime /\ QuitCutsNothing
  /\ WaitingIsAnswered
=============================================================================
