------------------------------ MODULE CliAgent ------------------------------
(***************************************************************************)
(* The CLI (crate mobilink-cli): main.rs, args.rs, tunnel.rs and local.rs. *)
(* One process for each connection in Conns, from the command line to the  *)
(* exit code, with the task it spawns for each stream the server opens.    *)
(*                                                                         *)
(* What a process does is here; what reaches it from the network, and what *)
(* of its own reaches the server, is left open and tied to the server in   *)
(* Mobilink.                                                               *)
(***************************************************************************)
EXTENDS Wire

CONSTANTS
  Commands,      \* what developers type: [complete, noEruda, auth]
  Resolutions    \* what a host name resolves to: sets of address families

VARIABLES
  place,      \* place[c]: where the process of c is
  exit,       \* exit[c]: how it ended
  options,    \* options[c]: the options it has understood
  conn,       \* conn[c]: its end of the connection
  farewell,   \* farewell[c]: the close frame it sends on Ctrl+C
  on,         \* on[r]: the process that accepted the stream of r
  job         \* job[r]: where the task of that stream is

cvars == <<place, exit, options, conn, farewell, on, job>>

\* "closing": in wait_idle, after the serve loop or Ctrl+C.
Places    == {"start", "resolve", "connect", "hello", "session", "serving",
              "closing", "stopped"}
Exits     == {"none", "success", "failure", "usage", "killed"}
ConnEnds  == {"none", "open", "lost", "closed"}
Farewells == {"none", "queued", "sent"}
Jobs      == {"none", "replaying", "written", "refused", "failed", "delivered"}

CliTypeOK ==
  /\ place    \in [Conns -> Places]
  /\ exit     \in [Conns -> Exits]
  /\ options  \in [Conns -> Options \cup {NoHello}]
  /\ conn     \in [Conns -> ConnEnds]
  /\ farewell \in [Conns -> Farewells]
  /\ on       \in [Reqs -> Conns \cup {NoConn}]
  /\ job      \in [Reqs -> Jobs]

CliInit ==
  /\ place    = [c \in Conns |-> "start"]
  /\ exit     = [c \in Conns |-> "none"]
  /\ options  = [c \in Conns |-> NoHello]
  /\ conn     = [c \in Conns |-> "none"]
  /\ farewell = [c \in Conns |-> "none"]
  /\ on       = [r \in Reqs |-> NoConn]
  /\ job      = [r \in Reqs |-> "none"]

Alive(c) == place[c] \notin {"start", "stopped"}

GoTo(c, p) ==
  /\ place' = [place EXCEPT ![c] = p]
  /\ UNCHANGED exit

\* The process ends, and with it the tasks of its streams wherever they are.
Stop(c, e) ==
  /\ place' = [place EXCEPT ![c] = "stopped"]
  /\ exit' = [exit EXCEPT ![c] = e]
-----------------------------------------------------------------------------
(***************************************************************************)
(* From the command line to the session.                                   *)
(***************************************************************************)

\* AuthMode::from_str: the word that was typed, without the blanks around it
\* and in whatever case (its form), names a mode or nothing.
ParseAuth(a) ==
  CASE a.word \in {"passthrough", "none"} -> "passthrough"
    [] a.word \in {"cookie", "session"}   -> "cookie"
    [] a.word \in {"bearer", "token"}     -> "bearer"
    [] OTHER                              -> "error"

ParseArgumentsTrusting(c) ==
  /\ place[c] = "start"
  /\ \E a \in Commands :
       IF a.complete
         THEN /\ GoTo(c, "resolve")
              /\ options' = [options EXCEPT ![c] =
                   [noEruda |-> a.noEruda, auth |-> ParseAuth(a.auth)]]
         ELSE Stop(c, "usage") /\ UNCHANGED options
  /\ UNCHANGED <<conn, farewell, on, job>>

\* StartArgs: the port and the server are required, --no-eruda is a flag, and
\* --auth has a default that is printed and parsed like a typed one.
ParseArguments(c) ==
  /\ place[c] = "start"
  /\ \E a \in Commands :
       IF a.complete /\ ParseAuth(a.auth) # "error"
         THEN /\ GoTo(c, "resolve")
              /\ options' = [options EXCEPT ![c] =
                   [noEruda |-> a.noEruda, auth |-> ParseAuth(a.auth)]]
         ELSE Stop(c, "usage") /\ UNCHANGED options
  /\ UNCHANGED <<conn, farewell, on, job>>

PreferIpv4(families) ==
  CASE "v4" \in families -> "v4"
    [] families = {}     -> "none"
    [] OTHER             -> "v6"

\* lookup_host.  The client's socket is an IPv4 one, so that an address of
\* the other family ends the process like none at all.
ResolveHost(c) ==
  /\ place[c] = "resolve"
  /\ \E families \in Resolutions :
       IF PreferIpv4(families) = "v4" THEN GoTo(c, "connect") ELSE Stop(c, "failure")
  /\ UNCHANGED <<options, conn, farewell, on, job>>

Connect(c) ==
  /\ place[c] = "connect"
  /\ GoTo(c, "hello")
  /\ conn' = [conn EXCEPT ![c] = "open"]
  /\ UNCHANGED <<options, farewell, on, job>>

\* `?` on connect: nobody answers for the 10 s of the idle timeout.
ConnectFails(c) ==
  /\ place[c] = "connect"
  /\ Stop(c, "failure")
  /\ UNCHANGED <<options, conn, farewell, on, job>>

\* open_bi, write_all and finish of the Hello
SendHello(c) ==
  /\ place[c] = "hello"
  /\ conn[c] = "open"
  /\ GoTo(c, "session")
  /\ UNCHANGED <<options, conn, farewell, on, job>>

CanReadSession(c) == place[c] = "session" /\ conn[c] = "open"

\* read_to_end and decode of SessionCreated; "Tunnel ready!" is printed.
ReadSession(c) ==
  /\ CanReadSession(c)
  /\ GoTo(c, "serving")
  /\ UNCHANGED <<options, conn, farewell, on, job>>

HandshakeFailsQuietly(c) ==
  /\ place[c] \in {"hello", "session"}
  /\ conn[c] = "lost"
  /\ Stop(c, "success")
  /\ UNCHANGED <<options, conn, farewell, on, job>>

HandshakeFails(c) ==
  /\ place[c] \in {"hello", "session"}
  /\ conn[c] = "lost"
  /\ Stop(c, "failure")
  /\ UNCHANGED <<options, conn, farewell, on, job>>
-----------------------------------------------------------------------------
(***************************************************************************)
(* Serving.                                                                *)
(***************************************************************************)
JobsOf(c, S) == {r \in Reqs : on[r] = c /\ job[r] \in S}

\* A task reads its request, or ends when that is too long or cannot be
\* decoded.  One that the application never answers is one that reaches it.
Received(r) == IF r \in Slow THEN {"replaying"} ELSE {"replaying", "refused"}

AcceptStreamEarly(c, r) ==
  /\ place[c] \in {"session", "serving"}
  /\ conn[c] = "open"
  /\ job[r] = "none"
  /\ on' = [on EXCEPT ![r] = c]
  /\ \E j \in Received(r) : job' = [job EXCEPT ![r] = j]
  /\ UNCHANGED <<place, exit, options, conn, farewell>>

CanAcceptOneByOne(c, r) ==
  /\ place[c] = "serving" /\ conn[c] = "open" /\ job[r] = "none"
  /\ JobsOf(c, {"replaying"}) = {}

CanAccept(c, r) == place[c] = "serving" /\ conn[c] = "open" /\ job[r] = "none"

\* serve: accept_bi, and a task of its own for the stream.  A stream that has
\* arrived is accepted even after a loss, with the same outcome as before.
AcceptStream(c, r) ==
  /\ CanAccept(c, r)
  /\ on' = [on EXCEPT ![r] = c]
  /\ \E j \in Received(r) : job' = [job EXCEPT ![r] = j]
  /\ UNCHANGED <<place, exit, options, conn, farewell>>

CanAnswer(c, r) == on[r] = c /\ job[r] = "replaying" /\ Alive(c) /\ r \notin Slow

\* The application has answered, or could not be reached, which makes a 502
\* frame; write_all fails when the connection is gone.
Answer(c, r) ==
  /\ CanAnswer(c, r)
  /\ job' = [job EXCEPT ![r] = IF conn[c] = "open" THEN "written" ELSE "failed"]
  /\ UNCHANGED <<place, exit, options, conn, farewell, on>>

CanDeliver(c, r) ==
  on[r] = c /\ job[r] \in {"written", "refused"} /\ Alive(c) /\ conn[c] = "open"

\* The stream arrives at the server.  Closing the connection discards what is
\* still on its way.
Deliver(c, r) ==
  /\ CanDeliver(c, r)
  /\ job' = [job EXCEPT ![r] = "delivered"]
  /\ UNCHANGED <<place, exit, options, conn, farewell, on>>
-----------------------------------------------------------------------------
(***************************************************************************)
(* The end.                                                                *)
(***************************************************************************)

\* The server closes the connection, or is not heard of for 10 s.
LoseConnection(c) ==
  /\ Alive(c)
  /\ conn[c] = "open"
  /\ conn' = [conn EXCEPT ![c] = "lost"]
  /\ UNCHANGED <<place, exit, options, farewell, on, job>>

ServeEndsAfterTasks(c) ==
  /\ place[c] = "serving"
  /\ conn[c] = "lost"
  /\ JobsOf(c, {"replaying"}) = {}
  /\ GoTo(c, "closing")
  /\ UNCHANGED <<options, conn, farewell, on, job>>

\* accept_bi fails and the serve loop ends; the tasks go on.
ServeEnds(c) ==
  /\ place[c] = "serving"
  /\ conn[c] = "lost"
  /\ GoTo(c, "closing")
  /\ UNCHANGED <<options, conn, farewell, on, job>>

PressCtrlCWithoutClose(c) ==
  /\ place[c] = "serving"
  /\ GoTo(c, "closing")
  /\ conn' = [conn EXCEPT ![c] = "lost"]
  /\ UNCHANGED <<options, farewell, on, job>>

\* The other branch of the select: the serve loop is dropped, the connection
\* closed.  A connection that was lost already has nobody to tell.
PressCtrlC(c) ==
  /\ place[c] = "serving"
  /\ GoTo(c, "closing")
  /\ IF conn[c] = "open"
       THEN /\ conn' = [conn EXCEPT ![c] = "closed"]
            /\ farewell' = [farewell EXCEPT ![c] = "queued"]
       ELSE UNCHANGED <<conn, farewell>>
  /\ UNCHANGED <<options, on, job>>

CanSendClose(c) == Alive(c) /\ farewell[c] = "queued"

\* The endpoint's driver sends the close frame.
SendClose(c) ==
  /\ CanSendClose(c)
  /\ farewell' = [farewell EXCEPT ![c] = "sent"]
  /\ UNCHANGED <<place, exit, options, conn, on, job>>

WaitForTasks(c) ==
  /\ place[c] = "closing"
  /\ conn[c] = "lost" \/ farewell[c] = "sent"
  /\ JobsOf(c, {"replaying"}) = {}
  /\ Stop(c, "success")
  /\ UNCHANGED <<options, conn, farewell, on, job>>

\* wait_idle returns once the connection is drained; "Session closed. Bye!"
WaitIdle(c) ==
  /\ place[c] = "closing"
  /\ conn[c] = "lost" \/ farewell[c] = "sent"
  /\ Stop(c, "success")
  /\ UNCHANGED <<options, conn, farewell, on, job>>

\* A crash, a kill; and Ctrl+C before the session is there, when nothing
\* handles it.  Once it is handled, another one is ignored.
Killed(c) ==
  /\ Alive(c)
  /\ Stop(c, "killed")
  /\ UNCHANGED <<options, conn, farewell, on, job>>

CliNext ==
  \E c \in Conns :
    \/ ParseArguments(c) \/ ResolveHost(c) \/ Connect(c) \/ ConnectFails(c)
    \/ SendHello(c) \/ ReadSession(c) \/ HandshakeFails(c)
    \/ LoseConnection(c) \/ ServeEnds(c) \/ PressCtrlC(c) \/ SendClose(c)
    \/ WaitIdle(c) \/ Killed(c)
    \/ \E r \in Reqs : AcceptStream(c, r) \/ Answer(c, r) \/ Deliver(c, r)

CliSpec == CliInit /\ [][CliNext]_cvars
=============================================================================
