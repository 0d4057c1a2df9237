-------------------------------- MODULE Core --------------------------------
(***************************************************************************)
(* The vocabulary the server and the CLI share (crate mobilink-core):      *)
(* session identifiers, the tunnel connections they are opened for, and    *)
(* the two options a developer announces in the Hello message.             *)
(***************************************************************************)
CONSTANTS
  Ids,      \* the session identifiers Uuid::new_v4 may draw
  Conns,    \* the QUIC connections of the developers' CLIs
  NoId,     \* the None of an Option<SessionId>
  NoConn    \* the None of a lookup that yields a connection

ASSUME NoIdAssumption   == NoId \notin Ids
ASSUME NoConnAssumption == NoConn \notin Conns

AuthModes == {"passthrough", "cookie", "bearer"}

\* What ClientMessage::Hello carries besides the local port.
Options == [noEruda : BOOLEAN, auth : AuthModes]

\* What a reader of the options gets when no tunnel is there to give them:
\* is_some_and yields false, unwrap_or_default yields Passthrough.
DefaultOptions == [noEruda |-> FALSE, auth |-> "passthrough"]
=============================================================================
