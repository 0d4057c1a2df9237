----------------------------- MODULE TunnelMap ------------------------------
(***************************************************************************)
(* The map of live tunnels (quic.rs, TunnelMap): session id to connection. *)
(* Each operation takes the map's one mutex for its whole body, so it is   *)
(* one step.                                                               *)
(*                                                                         *)
(* The options are read from values().next(): the entry the iteration of a *)
(* HashMap meets first.  Which one that is depends on a randomly seeded    *)
(* hash, so `front` may be any entry; inserting may rehash the table and   *)
(* move another entry to the front, removing an entry moves none of the    *)
(* others.                                                                 *)
(***************************************************************************)
EXTENDS Core

VARIABLES
  tunnels,   \* tunnels[i]: the connection inserted for session i
  front      \* the entry values().next() yields

tunnelMap == <<tunnels, front>>

TunnelTypeOK ==
  /\ tunnels \in [Ids -> Conns \cup {NoConn}]
  /\ front \in Ids \cup {NoId}

TunnelInit ==
  /\ tunnels = [i \in Ids |-> NoConn]
  /\ front = NoId

\* The ids that have an entry in the map m.
Entries(m) == {i \in Ids : m[i] # NoConn}

InsertEntry(i, c) ==
  /\ tunnels' = [tunnels EXCEPT ![i] = c]
  /\ front' \in Entries(tunnels')

RemoveEveryEntry(i) ==
  /\ tunnels' = [j \in Ids |-> NoConn]
  /\ front' = NoId

RemoveEntryAndFront(i) ==
  /\ tunnels' = [tunnels EXCEPT ![i] = NoConn]
  /\ front' = NoId

RemoveEntry(i) ==
  /\ tunnels' = [tunnels EXCEPT ![i] = NoConn]
  /\ front' \in IF front # i THEN {front}
                ELSE IF Entries(tunnels') = {} THEN {NoId} ELSE Entries(tunnels')
=============================================================================
