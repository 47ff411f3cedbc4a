---------------------------- MODULE MCRemoteSync ----------------------------
(* Two machines, and snapshots that share an object.                       *)
EXTENDS RemoteSync

CONSTANTS A, B, o1

MCContent == <<{o1}, {o1}>>
=============================================================================
