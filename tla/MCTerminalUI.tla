---------------------------- MODULE MCTerminalUI ----------------------------
(* Two connections, one of which another process may remove.               *)
EXTENDS TerminalUI

CONSTANTS c1, c2

MCLists == {<<c1>>, <<c1, c2>>}

\* A backup of the first connection, one of each, another database among them.
MCBackupLists == {<<<<c1, <<c1, 0>>>>>>, <<<<c2, <<c2, 1>>>>, <<c1, <<c1, 0>>>>>>}
=============================================================================
