----------------------------- MODULE PublicHost -----------------------------
(***************************************************************************)
(* What the server promises whoever visits the public host, whatever it is *)
(* made of: a request is given to one developer at most, and to one who    *)
(* owned the host while it waited; it is told that there is no session     *)
(* only when there was a reason to; and it is answered once.               *)
(***************************************************************************)
CONSTANTS
  Conns,    \* the connections of the developers
  NoConn,   \* nobody
  Reqs      \* the visitors' requests

VARIABLES
  host,     \* who owns the host
  seen,     \* seen[r]: everyone who owned it while r waited
  given,    \* given[r]: whom r has been given to
  result    \* result[r]: what r has been answered

pvars == <<host, seen, given, result>>

PublicInit ==
  /\ host = NoConn
  /\ seen = [r \in Reqs |-> {}]
  /\ given = [r \in Reqs |-> NoConn]
  /\ result = [r \in Reqs |-> "none"]

Waiting(r) == seen[r] # {} /\ result[r] = "none"

HostPasses ==
  /\ host' \in Conns \cup {NoConn}
  /\ seen' = [r \in Reqs |-> IF Waiting(r) THEN seen[r] \cup {host'} ELSE seen[r]]
  /\ UNCHANGED <<given, result>>

\* A request comes; one that is too large is told so at once.
Ask(r) ==
  /\ seen[r] = {}
  /\ seen' = [seen EXCEPT ![r] = {host}]
  /\ \E a \in {"none", "413"} : result' = [result EXCEPT ![r] = a]
  /\ UNCHANGED <<host, given>>

Give(r) ==
  /\ Waiting(r)
  /\ given[r] = NoConn
  /\ \E c \in seen[r] \ {NoConn} : given' = [given EXCEPT ![r] = c]
  /\ UNCHANGED <<host, seen, result>>

\* The host had no owner for a while, or it changed hands.
Unsettled(r) == NoConn \in seen[r] \/ \E c, d \in seen[r] : c # d

SayNotFound(r) ==
  /\ Waiting(r)
  /\ given[r] = NoConn
  /\ Unsettled(r)
  /\ result' = [result EXCEPT ![r] = "404"]
  /\ UNCHANGED <<host, seen, given>>

SayUnreachable(r) ==
  /\ Waiting(r)
  /\ result' = [result EXCEPT ![r] = "502"]
  /\ UNCHANGED <<host, seen, given>>

RelayAnswer(r) ==
  /\ Waiting(r)
  /\ given[r] # NoConn
  /\ result' = [result EXCEPT ![r] = "relayed"]
  /\ UNCHANGED <<host, seen, given>>

PublicNext ==
  \/ HostPasses
  \/ \E r \in Reqs :
       \/ Ask(r) \/ Give(r) \/ SayNotFound(r) \/ SayUnreachable(r) \/ RelayAnswer(r)

PublicSpec == PublicInit /\ [][PublicNext]_pvars
-----------------------------------------------------------------------------
\* The server ends: nobody owns the host any more, and whoever waits is cut
\* off, with no answer, for good.  What has been answered stays answered.
ServerStops ==
  /\ host' = NoConn
  /\ seen' = [r \in Reqs |-> IF Waiting(r) THEN seen[r] \cup {NoConn} ELSE seen[r]]
  /\ result' = [r \in Reqs |-> IF Waiting(r) THEN "cut" ELSE result[r]]
  /\ UNCHANGED given

\* The same promise, of a server that may end and start again.
RestartingSpec == PublicInit /\ [][PublicNext \/ ServerStops]_pvars
=============================================================================
