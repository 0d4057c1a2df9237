------------------------------- MODULE Relay --------------------------------
(***************************************************************************)
(* The Mobilink server: the task that handles each tunnel connection       *)
(* (quic.rs, handle_connection), the path of each public HTTP request      *)
(* (http.rs, proxy_handler, with the dispatcher, the router and the QUIC   *)
(* forwarder it calls), and the two maps they share.                       *)
(*                                                                         *)
(* Every step takes at most one of the shared mutexes once, the finest     *)
(* grain at which two tasks can interleave; what a task does between two   *)
(* locks, awaits or sends is local to it.                                  *)
(*                                                                         *)
(* A connection and a request live once.  A CLI that comes back is another *)
(* member of Conns, a browser that retries another member of Reqs.         *)
(***************************************************************************)
EXTENDS SessionRegistry, TunnelMap, Wire, FiniteSets, Naturals

CONSTANTS
  Hellos,       \* the options the developers of an instance may announce
  MaxStreams    \* the streams a CLI lets the server have open at a time

ASSUME HellosAssumption     == Hellos \subseteq Options
ASSUME MaxStreamsAssumption == MaxStreams \in Nat \ {0}

VARIABLES
  link,      \* link[c]: what the server knows of connection c
  hello,     \* hello[c]: the Hello c's CLI has sent
  task,      \* task[c]: where the handler task of c is
  sid,       \* sid[c]: the session the handler of c opened
  stage,     \* stage[r]: where the handling of request r is
  picked,    \* picked[r]: the session id read from `current`
  via,       \* via[r]: the connection found for it
  stream,    \* stream[r]: the stream r travels on
  rewrite,   \* rewrite[r]: Set-Cookie headers were rewritten
  inject,    \* inject[r]: the response went through the Eruda injector
  answer     \* answer[r]: what the browser gets

handlers == <<link, hello, task, sid>>
requests == <<stage, picked, via, stream, rewrite, inject, answer>>
vars == <<registry, tunnelMap, handlers, requests>>

\* "lost": the CLI is gone and the server has not noticed it yet.
Links   == {"none", "up", "lost", "down"}
Tasks   == {"idle", "hello", "register", "insert", "reply", "serving",
            "forget", "done", "failed"}
Stages  == {"idle", "resolve", "session", "lookup", "open", "await",
            "auth", "eruda", "done"}
\* "cut": none at all, for the server ended while the browser waited (which
\* it does in Mobilink only).
Answers == {"none", "404", "413", "502", "relayed", "cut"}

TypeOK ==
  /\ RegistryTypeOK
  /\ TunnelTypeOK
  /\ link    \in [Conns -> Links]
  /\ hello   \in [Conns -> Options \cup {NoHello, BadHello}]
  /\ task    \in [Conns -> Tasks]
  /\ sid     \in [Conns -> Ids \cup {NoId}]
  /\ stage   \in [Reqs -> Stages]
  /\ picked  \in [Reqs -> Ids \cup {NoId}]
  /\ via     \in [Reqs -> Conns \cup {NoConn}]
  /\ stream  \in [Reqs -> Streams]
  /\ rewrite \in [Reqs -> BOOLEAN]
  /\ inject  \in [Reqs -> BOOLEAN]
  /\ answer  \in [Reqs -> Answers]

Init ==
  /\ RegistryInit
  /\ TunnelInit
  /\ link    = [c \in Conns |-> "none"]
  /\ hello   = [c \in Conns |-> NoHello]
  /\ task    = [c \in Conns |-> "idle"]
  /\ sid     = [c \in Conns |-> NoId]
  /\ stage   = [r \in Reqs |-> "idle"]
  /\ picked  = [r \in Reqs |-> NoId]
  /\ via     = [r \in Reqs |-> NoConn]
  /\ stream  = [r \in Reqs |-> "none"]
  /\ rewrite = [r \in Reqs |-> FALSE]
  /\ inject  = [r \in Reqs |-> FALSE]
  /\ answer  = [r \in Reqs |-> "none"]
-----------------------------------------------------------------------------
(***************************************************************************)
(* The CLI and the network.                                                *)
(***************************************************************************)

\* The CLI opens the first stream of the connection, writes its Hello on it
\* and finishes it; another program may write something else.
CliSendsHello(c) ==
  /\ link[c] = "up"
  /\ hello[c] = NoHello
  /\ \E h \in Hellos \cup {BadHello} : hello' = [hello EXCEPT ![c] = h]
  /\ UNCHANGED <<registry, tunnelMap, link, task, sid, requests>>

\* Ctrl+C, a crash, the network: from here on nothing comes from this CLI.
CliGoesAway(c) ==
  /\ link[c] = "up"
  /\ link' = [link EXCEPT ![c] = "lost"]
  /\ UNCHANGED <<registry, tunnelMap, hello, task, sid, requests>>

\* A close frame arrives, or nothing has for the idle timeout the CLI
\* announced (10 s): every wait on the connection ends with an error.
ServerNoticesLoss(c) ==
  /\ link[c] = "lost"
  /\ link' = [link EXCEPT ![c] = "down"]
  /\ UNCHANGED <<registry, tunnelMap, hello, task, sid, requests>>

\* The CLI, once the handshake has given it its session, replays the request
\* on the local port and sends back a frame, a 502 of its own making when the
\* local server fails.  When the task of the stream fails, the stream ends
\* without one.
CliAnswers(r) ==
  LET c == via[r] IN
  /\ stream[r] = "sent"
  /\ link[c] = "up"
  /\ task[c] = "serving"
  /\ r \notin Slow
  /\ \E f \in {"frame", "unreadable"} : stream' = [stream EXCEPT ![r] = f]
  /\ UNCHANGED <<registry, tunnelMap, handlers, stage, picked, via, rewrite,
                 inject, answer>>
-----------------------------------------------------------------------------
(***************************************************************************)
(* The handler task of a connection (handle_connection).                   *)
(***************************************************************************)

\* An early return drops the handler's Connection.  Nobody else holds it
\* before the tunnel is in the map, so the connection closes.
AbandonConnection(c) ==
  /\ task' = [task EXCEPT ![c] = "failed"]
  /\ link' = [link EXCEPT ![c] = "down"]

\* `incoming.await?`: the QUIC handshake succeeds, or the task ends.
Accept(c) ==
  /\ task[c] = "idle"
  /\ \/ /\ link' = [link EXCEPT ![c] = "up"]
        /\ task' = [task EXCEPT ![c] = "hello"]
     \/ AbandonConnection(c)
  /\ UNCHANGED <<registry, tunnelMap, hello, sid, requests>>

\* accept_bi, read_to_end and decode.  A Hello sent before the CLI went away
\* may still be read afterwards; a loss that comes first ends the task.
ReadHello(c) ==
  /\ task[c] = "hello"
  /\ \/ /\ hello[c] \in Options
        /\ task' = [task EXCEPT ![c] = "register"]
        /\ UNCHANGED link
     \/ /\ hello[c] = BadHello \/ link[c] = "down"
        /\ AbandonConnection(c)
  /\ UNCHANGED <<registry, tunnelMap, hello, sid, requests>>

OpenSessionOverwriting(c) ==
  /\ task[c] = "register"
  /\ \E i \in Ids :
       /\ RegisterSessionAnyId(i, c)
       /\ sid' = [sid EXCEPT ![c] = i]
       /\ task' = [task EXCEPT ![c] = "insert"]
       /\ UNCHANGED link
  /\ UNCHANGED <<tunnelMap, hello, requests>>

\* handle_hello and open_session: a fresh id is drawn and registered; when
\* it is taken already the handshake is refused.
OpenSession(c) ==
  /\ task[c] = "register"
  /\ \E i \in Ids :
       \/ /\ RegisterSession(i, c)
          /\ sid' = [sid EXCEPT ![c] = i]
          /\ task' = [task EXCEPT ![c] = "insert"]
          /\ UNCHANGED link
       \/ /\ Registered(i)
          /\ AbandonConnection(c)
          /\ UNCHANGED <<registry, sid>>
  /\ UNCHANGED <<tunnelMap, hello, requests>>

\* tunnels.insert
InsertTunnel(c) ==
  /\ task[c] = "insert"
  /\ InsertEntry(sid[c], c)
  /\ task' = [task EXCEPT ![c] = "reply"]
  /\ UNCHANGED <<registry, link, hello, sid, requests>>

ReplyCleaningHalf(c) ==
  /\ task[c] = "reply"
  /\ \/ /\ link[c] # "down"
        /\ task' = [task EXCEPT ![c] = "serving"]
        /\ UNCHANGED tunnelMap
     \/ /\ link[c] = "down"
        /\ task' = [task EXCEPT ![c] = "failed"]
        /\ RemoveEntry(sid[c])
  /\ UNCHANGED <<registry, link, hello, sid, requests>>

\* write_all and finish of SessionCreated.  On a closed connection the write
\* fails, and `?` returns before anything is cleaned up; the connection stays
\* in the tunnel map.  (A peer that stops the stream and keeps the connection
\* would make it fail too; the CLI never does.)
Reply(c) ==
  /\ task[c] = "reply"
  /\ task' = [task EXCEPT ![c] = IF link[c] = "down" THEN "failed" ELSE "serving"]
  /\ UNCHANGED <<registry, tunnelMap, link, hello, sid, requests>>

DropTunnelLeavingEntry(c) ==
  /\ task[c] = "serving"
  /\ link[c] = "down"
  /\ task' = [task EXCEPT ![c] = "forget"]
  /\ UNCHANGED <<registry, tunnelMap, link, hello, sid, requests>>

\* closed().await returns; tunnels.remove
DropTunnel(c) ==
  /\ task[c] = "serving"
  /\ link[c] = "down"
  /\ RemoveEntry(sid[c])
  /\ task' = [task EXCEPT ![c] = "forget"]
  /\ UNCHANGED <<registry, link, hello, sid, requests>>

ForgetNothing(c) ==
  /\ task[c] = "forget"
  /\ task' = [task EXCEPT ![c] = "done"]
  /\ UNCHANGED <<registry, tunnelMap, link, hello, sid, requests>>

\* registry.close_session
ForgetSession(c) ==
  /\ task[c] = "forget"
  /\ CloseSession(sid[c])
  /\ task' = [task EXCEPT ![c] = "done"]
  /\ UNCHANGED <<tunnelMap, link, hello, sid, requests>>
-----------------------------------------------------------------------------
(***************************************************************************)
(* A public HTTP request (proxy_handler and the pipeline it calls).        *)
(***************************************************************************)

\* What the browser gets, and with it the end of the request.
AnswerWith(r, a) ==
  /\ stage' = [stage EXCEPT ![r] = "done"]
  /\ answer' = [answer EXCEPT ![r] = a]

MoveTo(r, s) ==
  /\ stage' = [stage EXCEPT ![r] = s]
  /\ UNCHANGED answer

\* The body is read up to MAX_BODY_BYTES, the request is encoded and handed
\* to the pipeline on a blocking thread.
RequestArrives(r) ==
  /\ stage[r] = "idle"
  /\ MoveTo(r, "resolve") \/ AnswerWith(r, "413")
  /\ UNCHANGED <<registry, tunnelMap, handlers, picked, via, stream, rewrite, inject>>

\* active_session, first half: the lock of `current` is taken and released.
ReadCurrent(r) ==
  /\ stage[r] = "resolve"
  /\ IF current = NoId
       THEN AnswerWith(r, "404") /\ UNCHANGED picked
       ELSE MoveTo(r, "session") /\ picked' = [picked EXCEPT ![r] = current]
  /\ UNCHANGED <<registry, tunnelMap, handlers, via, stream, rewrite, inject>>

\* active_session, second half: get_session takes the lock of the sessions.
GetSession(r) ==
  /\ stage[r] = "session"
  /\ IF Registered(picked[r]) THEN MoveTo(r, "lookup") ELSE AnswerWith(r, "404")
  /\ UNCHANGED <<registry, tunnelMap, handlers, picked, via, stream, rewrite, inject>>

FindAnyTunnel(r) ==
  /\ stage[r] = "lookup"
  /\ IF front = NoId
       THEN AnswerWith(r, "502") /\ UNCHANGED via
       ELSE MoveTo(r, "open") /\ via' = [via EXCEPT ![r] = tunnels[front]]
  /\ UNCHANGED <<registry, tunnelMap, handlers, picked, stream, rewrite, inject>>

FindTunnelOrNotFound(r) ==
  /\ stage[r] = "lookup"
  /\ IF tunnels[picked[r]] = NoConn
       THEN AnswerWith(r, "404") /\ UNCHANGED via
       ELSE MoveTo(r, "open") /\ via' = [via EXCEPT ![r] = tunnels[picked[r]]]
  /\ UNCHANGED <<registry, tunnelMap, handlers, picked, stream, rewrite, inject>>

\* forward: TunnelMap::connection, or TunnelNotFound
FindTunnel(r) ==
  /\ stage[r] = "lookup"
  /\ IF tunnels[picked[r]] = NoConn
       THEN AnswerWith(r, "502") /\ UNCHANGED via
       ELSE MoveTo(r, "open") /\ via' = [via EXCEPT ![r] = tunnels[picked[r]]]
  /\ UNCHANGED <<registry, tunnelMap, handlers, picked, stream, rewrite, inject>>

\* The streams the CLI behind c has not answered yet.
OpenStreams(c) == {r \in Reqs : via[r] = c /\ stream[r] = "sent"}

\* What open_bi waits for: a stream that the CLI grants, or the end of the
\* connection.
StreamGranted(r) ==
  link[via[r]] = "down" \/ Cardinality(OpenStreams(via[r])) < MaxStreams

\* forward: open_bi, then write_all and finish.  A closed connection fails
\* each of them.
SendRequest(r) ==
  /\ stage[r] = "open"
  /\ StreamGranted(r)
  /\ \/ /\ link[via[r]] = "down"
        /\ AnswerWith(r, "502")
        /\ UNCHANGED stream
     \/ /\ link[via[r]] \in {"up", "lost"}
        /\ MoveTo(r, "await")
        /\ stream' = [stream EXCEPT ![r] = "sent"]
  /\ UNCHANGED <<registry, tunnelMap, handlers, picked, via, rewrite, inject>>

EndsWithTheAnswer(r) == stream[r] \in {"frame", "unreadable"}

\* What read_to_end waits for: the end of the stream, or of the connection.
ResponseEnds(r) == stream[r] \in {"frame", "unreadable"} \/ link[via[r]] = "down"

ReadResponseTryingAgain(r) ==
  /\ stage[r] = "await"
  /\ \/ stream[r] = "frame" /\ MoveTo(r, "auth")
     \/ stream[r] = "unreadable" /\ AnswerWith(r, "502")
     \/ stream[r] = "sent" /\ link[via[r]] = "down" /\ MoveTo(r, "resolve")
  /\ UNCHANGED <<registry, tunnelMap, handlers, picked, via, stream, rewrite, inject>>

\* forward: read_to_end, then the decoding of the frame.  A frame received
\* in full is read even when the connection has closed since.
ReadResponse(r) ==
  /\ stage[r] = "await"
  /\ ResponseEnds(r)
  /\ \/ stream[r] = "frame" /\ MoveTo(r, "auth")
     \/ stream[r] \in {"unreadable", "sent"} /\ AnswerWith(r, "502")
  /\ UNCHANGED <<registry, tunnelMap, handlers, picked, via, stream, rewrite, inject>>

\* The options of the entry at the front of the tunnel map, whichever
\* session it belongs to; the defaults when the map is empty.
OptionsInForce == IF front = NoId THEN DefaultOptions ELSE hello[tunnels[front]]

\* options.auth_mode(), and the rewriting of the cookies
ReadAuthMode(r) ==
  /\ stage[r] = "auth"
  /\ rewrite' = [rewrite EXCEPT ![r] = OptionsInForce.auth = "cookie"]
  /\ MoveTo(r, "eruda")
  /\ UNCHANGED <<registry, tunnelMap, handlers, picked, via, stream, inject>>

\* options.eruda_disabled(), the transformation and the response
ReadEruda(r) ==
  /\ stage[r] = "eruda"
  /\ inject' = [inject EXCEPT ![r] = ~OptionsInForce.noEruda]
  /\ AnswerWith(r, "relayed")
  /\ UNCHANGED <<registry, tunnelMap, handlers, picked, via, stream, rewrite>>
-----------------------------------------------------------------------------
HandlerStep(c) ==
  \/ ReadHello(c) \/ OpenSession(c) \/ InsertTunnel(c) \/ Reply(c)
  \/ DropTunnel(c) \/ ForgetSession(c)

RequestStep(r) ==
  \/ ReadCurrent(r) \/ GetSession(r) \/ FindTunnel(r) \/ SendRequest(r)
  \/ ReadResponse(r) \/ ReadAuthMode(r) \/ ReadEruda(r)

Next ==
  \/ \E c \in Conns :
       \/ Accept(c) \/ CliSendsHello(c) \/ CliGoesAway(c)
       \/ ServerNoticesLoss(c) \/ HandlerStep(c)
  \/ \E r \in Reqs : RequestArrives(r) \/ RequestStep(r) \/ CliAnswers(r)

Spec == Init /\ [][Next]_vars

\* The runtime polls every task that is ready and runs every blocking call,
\* the idle timeout ends every silent connection, and a CLI answers what its
\* application answers.  Nobody has to connect, to send a Hello or to leave.
Fairness ==
  /\ \A c \in Conns : WF_vars(HandlerStep(c)) /\ WF_vars(ServerNoticesLoss(c))
  /\ \A r \in Reqs : WF_vars(RequestStep(r)) /\ WF_vars(CliAnswers(r))

FairSpec == Spec /\ Fairness
-----------------------------------------------------------------------------
(***************************************************************************)
(* Safety of the two maps, under every interleaving of the handlers.       *)
(***************************************************************************)

\* Every entry of the tunnel map belongs to a session that is registered for
\* the same connection: the order of handle_connection (open, insert, remove,
\* close) keeps the registry the larger of the two maps.
RegistryCoversTunnels ==
  \A i \in Ids : tunnels[i] # NoConn => sessions[i] = tunnels[i]

\* Whatever the handlers of the other connections do, a handler finds what it
\* left: its session is registered from the moment it opened it until it
\* closes it, and its tunnel is in the map from the insertion to the removal
\* and at no other time.
HandlerKeepsItsEntries ==
  \A c \in Conns :
    /\ task[c] \in {"insert", "reply", "serving", "forget"} =>
         sid[c] \in Ids /\ sessions[sid[c]] = c
    /\ task[c] \in {"insert", "forget"} => tunnels[sid[c]] = NoConn
    /\ task[c] \in {"reply", "serving"} => tunnels[sid[c]] = c

\* A registered session is the one session of a handler that is going to
\* close it, or of one that failed while its tunnel was in the map: no other
\* way to leave a session behind exists.
SessionsAccounted ==
  \A i \in Ids : Registered(i) =>
    LET c == sessions[i] IN
    /\ sid[c] = i
    /\ \/ task[c] \in {"insert", "reply", "serving", "forget"}
       \/ task[c] = "failed" /\ tunnels[i] = c
-----------------------------------------------------------------------------
(***************************************************************************)
(* Liveness, under Fairness.                                               *)
(***************************************************************************)

HasEntries(c) == \E i \in Ids : sessions[i] = c \/ tunnels[i] = c

\* When the CLI of an established tunnel goes away, in whatever manner, its
\* tunnel and its session are eventually forgotten.
LostTunnelForgotten ==
  \A c \in Conns :
    (task[c] = "serving" /\ link[c] # "up") ~> ~HasEntries(c)

\* Every request the application answers is itself answered, whatever happens
\* to the tunnels meanwhile and however many other requests hang, as long as
\* the hanging ones cannot use up the streams of a tunnel.
RequestsAnswered ==
  Cardinality(Slow) < MaxStreams =>
    \A r \in Reqs \ Slow : (stage[r] # "idle") ~> (stage[r] = "done")
-----------------------------------------------------------------------------
(***************************************************************************)
(* What the documentation says, and the code does not keep.                *)
(***************************************************************************)

\* lib.rs: "When several sessions exist, the most recently opened one wins.
\* Returns None when no tunnel is currently connected": while some tunnel is
\* established and its CLI is there, somebody owns the public host.
ConnectedTunnelOwnsHost ==
  (\E c \in Conns : task[c] = "serving" /\ link[c] = "up") => current # NoId

\* quic.rs: handle_connection "waits for the connection to close to clean
\* everything up": a handler that has ended leaves no session and no tunnel.
FinishedHandlerLeavesNothing ==
  \A c \in Conns : task[c] \in {"done", "failed"} => ~HasEntries(c)

\* cli/tunnel.rs: "a slow page never blocks the rest of the session": the
\* same, however many requests hang.
SlowPageNeverBlocks ==
  \A r \in Reqs \ Slow : (stage[r] # "idle") ~> (stage[r] = "done")
=============================================================================
