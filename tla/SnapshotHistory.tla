--------------------------- MODULE SnapshotHistory ---------------------------
(***************************************************************************)
(* What a scope promises the person who uses it: a history of snapshots,   *)
(* each with content that never changes while it is there.  A snapshot     *)
(* appears whole, in one step; it may be pinned (tagged); it disappears    *)
(* whole, and only when it is not pinned.  SnapshotScope implements this   *)
(* with files, two locks, a garbage collector and crashes.                 *)
(***************************************************************************)
CONSTANTS Ids,       \* snapshot identifiers
          Contents   \* what a snapshot can hold

VARIABLES history,   \* content of every snapshot that can be restored
          pinned     \* the tagged ones

historyVars == <<history, pinned>>

HistoryInit == /\ history = [i \in {} |-> {}]
               /\ pinned = {}

Publish(i, content) ==
    /\ i \notin DOMAIN history
    /\ history' = [j \in DOMAIN history \cup {i} |->
                      IF j = i THEN content ELSE history[j]]
    /\ UNCHANGED pinned

Pin(i) == /\ i \in DOMAIN history
          /\ pinned' = pinned \cup {i}
          /\ UNCHANGED history

Prune(i) == /\ i \in DOMAIN history \ pinned
            /\ history' = [j \in DOMAIN history \ {i} |-> history[j]]
            /\ UNCHANGED pinned

HistoryNext == \E i \in Ids : \/ \E content \in Contents : Publish(i, content)
                              \/ Pin(i)
                              \/ Prune(i)

HistorySpec == HistoryInit /\ [][HistoryNext]_historyVars
=============================================================================
