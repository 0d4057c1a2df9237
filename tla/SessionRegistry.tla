--------------------------- MODULE SessionRegistry --------------------------
(***************************************************************************)
(* The contract of mobilink-server's SessionRegistry, each operation one   *)
(* atomic step: the map of open sessions and the session that owns the     *)
(* public host.  Relay is built on these operations; RegistryLocks shows   *)
(* that the two mutexes of InMemorySessionRegistry implement them.         *)
(*                                                                         *)
(* A stored Session is an id, a local port and the public URL, which is    *)
(* the same for all.  The model keeps, for each id, the connection the     *)
(* session was opened for: it stands for the announced port, and tells     *)
(* apart the sessions of two developers.                                   *)
(***************************************************************************)
EXTENDS Core

VARIABLES
  sessions,   \* sessions[i]: the connection session i was opened for
  current     \* the session that owns the public host

registry == <<sessions, current>>

RegistryTypeOK ==
  /\ sessions \in [Ids -> Conns \cup {NoConn}]
  /\ current \in Ids \cup {NoId}

RegistryInit ==
  /\ sessions = [i \in Ids |-> NoConn]
  /\ current = NoId

Registered(i) == sessions[i] # NoConn

\* The developer the public host leads to, as a single look at the registry
\* tells it.
Owner == IF current = NoId THEN NoConn ELSE sessions[current]
-----------------------------------------------------------------------------
RegisterSessionAnyId(i, c) ==
  /\ sessions' = [sessions EXCEPT ![i] = c]
  /\ current' = i

\* register_session, of a session that is not a duplicate.  With a duplicate
\* it returns Err(DuplicateId) and leaves the registry as it is.
RegisterSession(i, c) ==
  /\ ~Registered(i)
  /\ sessions' = [sessions EXCEPT ![i] = c]
  /\ current' = i

CloseSessionKeepsCurrent(i) ==
  /\ sessions' = [sessions EXCEPT ![i] = NoConn]
  /\ UNCHANGED current

CloseSessionResetsCurrent(i) ==
  /\ sessions' = [sessions EXCEPT ![i] = NoConn]
  /\ current' = NoId

\* close_session.  An unknown id is answered Err(NotFound): nothing changes.
\* The host stays with its owner unless the owner is what closes, and then
\* no other session takes it over.
CloseSession(i) ==
  /\ sessions' = [sessions EXCEPT ![i] = NoConn]
  /\ current' = IF Registered(i) /\ current = i THEN NoId ELSE current

RegistryNext ==
  \E i \in Ids : CloseSession(i) \/ \E c \in Conns : RegisterSession(i, c)

RegistrySpec == RegistryInit /\ [][RegistryNext]_registry
-----------------------------------------------------------------------------
\* The public host never belongs to a session that has been closed
\* (registry.rs: `current` names a key of the session map).
OwnerIsOpen == current # NoId => Registered(current)

\* The host changes hands in two ways only: to a session at the moment it is
\* registered, or to nobody at the moment its owner closes.  In particular a
\* developer who leaves never takes the host away from another one.
HostChangesHands ==
  [][\/ current' = current
     \/ /\ current' \in Ids
        /\ ~Registered(current')
        /\ sessions'[current'] # NoConn
     \/ /\ current' = NoId
        /\ sessions'[current] = NoConn]_registry
=============================================================================
