---------------------------- MODULE RelayHistory ----------------------------
(***************************************************************************)
(* Relay with history variables.  They record what was true of the server  *)
(* while a request was under way, restrict no step, and let an invariant   *)
(* relate the answer a browser gets to what happened since it asked.       *)
(***************************************************************************)
EXTENDS Relay

VARIABLES
  owners,   \* owners[r]: everyone who has owned the host during r
  calm,     \* calm[r]: one owner all along, established and connected
  sole,     \* sole[r]: since via[r] was found, it was the only tunnel
  between   \* between[r]: picked[r] was seen in only one of the two maps

history == <<owners, calm, sole, between>>
hvars == <<vars, history>>

\* One established tunnel whose CLI is there owns the host.
OwnerServes == Owner \in Conns /\ task[Owner] = "serving" /\ link[Owner] = "up"

OnlyTunnel(c) == \E i \in Ids : Entries(tunnels) = {i} /\ tunnels[i] = c

\* The handler of session i has not inserted its tunnel yet, or has removed
\* it already and is about to close the session.
InOneMap(i) == Registered(i) /\ task[sessions[i]] \in {"insert", "forget"}

HInit ==
  /\ Init
  /\ owners = [r \in Reqs |-> {}]
  /\ calm = [r \in Reqs |-> FALSE]
  /\ sole = [r \in Reqs |-> FALSE]
  /\ between = [r \in Reqs |-> FALSE]

\* A request is under way from the step in which it arrives to the one that
\* answers it.
Record ==
  /\ owners' = [r \in Reqs |->
       IF stage'[r] = "idle" \/ stage[r] = "done" THEN owners[r]
       ELSE owners[r] \cup {Owner, Owner'}]
  /\ calm' = [r \in Reqs |->
       IF stage'[r] = "idle" \/ stage[r] = "done" THEN calm[r]
       ELSE IF stage[r] = "idle" THEN OwnerServes
       ELSE calm[r] /\ OwnerServes' /\ Owner' = Owner]
  /\ sole' = [r \in Reqs |->
       IF via'[r] = NoConn \/ stage[r] = "done" THEN sole[r]
       ELSE IF via[r] = NoConn THEN OnlyTunnel(via'[r])
       ELSE sole[r] /\ OnlyTunnel(via[r])']
  /\ between' = [r \in Reqs |->
       IF stage'[r] \in {"session", "lookup"} THEN between[r] \/ InOneMap(picked[r])'
       ELSE between[r]]

HNext == Next /\ Record

HSpec == HInit /\ [][HNext]_hvars
-----------------------------------------------------------------------------
(***************************************************************************)
(* The server keeps the promise of PublicHost: the owner of the host is    *)
(* the one active_session yields, a request is given away when the lookup  *)
(* finds a connection for it, and seen is the history recorded here.       *)
(***************************************************************************)
Public == INSTANCE PublicHost
            WITH host <- Owner, seen <- owners, given <- via, result <- answer

\* Every behaviour of the server is one of PublicHost: no request is given to
\* two developers (a tunnel that breaks is not made up for with another), none
\* is told 404 after it was given to somebody, none is answered twice.
KeepsPublicPromise == Public!PublicSpec
-----------------------------------------------------------------------------
\* A request never reaches a developer who did not own the public host at
\* some moment while it was under way: however the host changes hands between
\* the reads of active_session, the lookup of the tunnel and the sending, no
\* one gets the traffic of before their session or of after it.
RoutedToAnOwner ==
  \A r \in Reqs : via[r] # NoConn => via[r] \in owners[r]

\* A browser is told that there is no session only when, while it waited, the
\* host had no owner or changed hands.
NotFoundHasACause ==
  \A r \in Reqs : answer[r] = "404" =>
    NoConn \in owners[r] \/ \E c, d \in owners[r] : c # d

\* A request is refused for want of a tunnel only when the handler of the very
\* session it was routed to was, at some moment since, on its way between the
\* two maps: opening the session before the tunnel, or removing the tunnel
\* before it closes the session.  No handler that waits for its tunnel to
\* close, has failed, or serves another developer costs a browser this 502.
MissingTunnelHasACause ==
  \A r \in Reqs : answer[r] = "502" /\ via[r] = NoConn => between[r]

\* While one established tunnel owns the host, an answer comes from the
\* developer's own CLI: relayed, or refused for what the browser or the CLI
\* sent.  Tunnels that come and go beside it cost no request its answer.
CalmHostServes ==
  \A r \in Reqs : calm[r] /\ stage[r] = "done" =>
    \/ answer[r] \in {"relayed", "413"}
    \/ answer[r] = "502" /\ stream[r] = "unreadable"

\* With a single tunnel in the map from the lookup to the answer, a relayed
\* response gets the treatment its developer asked for.
SoleTunnelOptionsHonoured ==
  \A r \in Reqs : answer[r] = "relayed" /\ sole[r] =>
    /\ rewrite[r] = (hello[via[r]].auth = "cookie")
    /\ inject[r] = ~hello[via[r]].noEruda
-----------------------------------------------------------------------------
(***************************************************************************)
(* What the documentation says, and the code does not keep.                *)
(***************************************************************************)

\* lib.rs: "the option applies to the one live session": a relayed response
\* is treated as its developer asked, at least while that developer owns the
\* host from the beginning to the end and stays connected.
OwnerOptionsHonoured ==
  \A r \in Reqs : calm[r] /\ answer[r] = "relayed" =>
    /\ rewrite[r] = (hello[via[r]].auth = "cookie")
    /\ inject[r] = ~hello[via[r]].noEruda
=============================================================================
