------------------------------ MODULE Mobilink ------------------------------
(***************************************************************************)
(* The whole of Mobilink: the server of Relay and the CLI processes of     *)
(* CliAgent, with the network between them.  What Relay assumes of a CLI   *)
(* (CliSendsHello, CliGoesAway, CliAnswers) is here what the CLI does.     *)
(*                                                                         *)
(* What one end sends is there for the other as long as the connection is  *)
(* up, and is gone when it is not: link says so at the server, conn at the *)
(* CLI, and each may learn of a loss later than the other.                 *)
(***************************************************************************)
EXTENDS Relay, CliAgent

CONSTANT MaxRestarts    \* how often the server restarts, at most

ASSUME MaxRestartsAssumption == MaxRestarts \in Nat

\* The options a developer announces are the ones a command line asks for.
ASSUME CommandsAssumption ==
  \A a \in Commands : ParseAuth(a.auth) # "error" =>
    [noEruda |-> a.noEruda, auth |-> ParseAuth(a.auth)] \in Hellos

VARIABLE restarts

mvars == <<vars, cvars, restarts>>

MInit == Init /\ CliInit /\ restarts = 0

\* The server sees no difference between a CLI that is gone, and told it or
\* not, and a network that is.
LinkLost(c) == link' = [link EXCEPT ![c] = IF @ = "up" THEN "lost" ELSE @]

ServerAlone == <<registry, tunnelMap, hello, task, sid, requests, restarts>>
-----------------------------------------------------------------------------
(***************************************************************************)
(* The CLI's steps, with what they do at the server's end.                 *)
(***************************************************************************)
CliAlone(c) ==
  /\ \/ ParseArguments(c) \/ ResolveHost(c) \/ HandshakeFails(c)
     \/ ServeEnds(c) \/ PressCtrlC(c) \/ WaitIdle(c)
  /\ UNCHANGED <<vars, restarts>>

CliConnects(c) ==
  /\ link[c] = "up"
  /\ Connect(c)
  /\ UNCHANGED <<vars, restarts>>

CliGivesUp(c) ==
  /\ ConnectFails(c)
  /\ LinkLost(c)
  /\ UNCHANGED ServerAlone

CliSaysHello(c) ==
  /\ link[c] = "up"
  /\ SendHello(c)
  /\ hello' = [hello EXCEPT ![c] = options[c]]
  /\ UNCHANGED <<registry, tunnelMap, link, task, sid, requests, restarts>>

\* The handler has replied.
CliGetsSession(c) ==
  /\ link[c] = "up"
  /\ task[c] = "serving"
  /\ ReadSession(c)
  /\ UNCHANGED <<vars, restarts>>

CliTakesRequest(c, r) ==
  /\ link[c] = "up"
  /\ stream[r] = "sent"
  /\ via[r] = c
  /\ AcceptStream(c, r)
  /\ UNCHANGED <<vars, restarts>>

CliReplays(c, r) ==
  /\ Answer(c, r)
  /\ UNCHANGED <<vars, restarts>>

\* A stream that ended without a frame cannot be decoded, and a frame may be
\* longer than the server reads.
CliResponds(c, r) ==
  /\ link[c] = "up"
  /\ Deliver(c, r)
  /\ \E f \in (IF job[r] = "written" THEN {"frame", "unreadable"} ELSE {"unreadable"}) :
       stream' = [stream EXCEPT ![r] = f]
  /\ UNCHANGED <<registry, tunnelMap, handlers, stage, picked, via, rewrite,
                 inject, answer, restarts>>

CliSaysGoodbye(c) ==
  /\ SendClose(c)
  /\ LinkLost(c)
  /\ UNCHANGED ServerAlone

CliDies(c) ==
  /\ Killed(c)
  /\ LinkLost(c)
  /\ UNCHANGED ServerAlone

\* The server has closed the connection, or the idle timeout has passed.
CliNoticesLoss(c) ==
  /\ link[c] \in {"lost", "down"}
  /\ LoseConnection(c)
  /\ UNCHANGED <<vars, restarts>>

CliStep(c) ==
  \/ CliAlone(c) \/ CliConnects(c) \/ CliSaysHello(c) \/ CliGetsSession(c)
  \/ CliSaysGoodbye(c) \/ CliNoticesLoss(c)

StreamStep(c, r) == CliTakesRequest(c, r) \/ CliReplays(c, r) \/ CliResponds(c, r)
-----------------------------------------------------------------------------
(***************************************************************************)
(* The network and the server.                                             *)
(***************************************************************************)
NetworkFails(c) ==
  /\ CliGoesAway(c)
  /\ UNCHANGED <<cvars, restarts>>

ServerAccepts(c) ==
  /\ place[c] = "connect"
  /\ Accept(c)
  /\ UNCHANGED <<cvars, restarts>>

ServerStep ==
  /\ \/ \E c \in Conns : ServerNoticesLoss(c) \/ HandlerStep(c)
     \/ \E r \in Reqs : RequestArrives(r) \/ RequestStep(r)
  /\ UNCHANGED <<cvars, restarts>>

\* The server starts again, with the empty maps that main makes.  A CLI that
\* was connected hears nothing more.
ServerStartsEmpty ==
  /\ restarts < MaxRestarts
  /\ restarts' = restarts + 1
  /\ sessions' = [i \in Ids |-> NoConn]
  /\ current' = NoId
  /\ tunnels' = [i \in Ids |-> NoConn]
  /\ front' = NoId
  /\ link' = [c \in Conns |-> IF link[c] = "none" THEN "none" ELSE "down"]
  /\ task' = [c \in Conns |-> IF task[c] = "idle" THEN "idle" ELSE "failed"]
  /\ UNCHANGED <<hello, sid, picked, via, stream, rewrite, inject, cvars>>

\* The server ends, and with it the tasks and the waiting of the browsers, who
\* get no answer at all.
ServerRestarts ==
  /\ ServerStartsEmpty
  /\ stage' = [r \in Reqs |-> IF stage[r] = "idle" THEN "idle" ELSE "done"]
  /\ answer' = [r \in Reqs |-> IF stage[r] \in {"idle", "done"} THEN answer[r] ELSE "cut"]

MNext ==
  \/ \E c \in Conns :
       \/ CliStep(c) \/ CliGivesUp(c) \/ CliDies(c) \/ NetworkFails(c) \/ ServerAccepts(c)
       \/ \E r \in Reqs : StreamStep(c, r)
  \/ ServerStep
  \/ ServerRestarts

MSpec == MInit /\ [][MNext]_mvars

\* Besides what Relay assumes of the server: the CLI's runtime polls its tasks
\* and its endpoint, its side of the idle timeout ends a silent connection,
\* the network delivers while it is up, and the application answers what it
\* answers.  Nobody has to start a CLI, to stop it or to ask.
MFairness ==
  /\ \A c \in Conns :
       /\ WF_mvars(HandlerStep(c) /\ UNCHANGED <<cvars, restarts>>)
       /\ WF_mvars(ServerNoticesLoss(c) /\ UNCHANGED <<cvars, restarts>>)
       /\ WF_mvars(ServeEnds(c) /\ UNCHANGED <<vars, restarts>>)
       /\ WF_mvars(WaitIdle(c) /\ UNCHANGED <<vars, restarts>>)
       /\ WF_mvars(HandshakeFails(c) /\ UNCHANGED <<vars, restarts>>)
       /\ WF_mvars(CliGetsSession(c))
       /\ WF_mvars(CliSaysGoodbye(c))
       /\ WF_mvars(CliNoticesLoss(c))
  /\ \A r \in Reqs :
       /\ WF_mvars(RequestStep(r) /\ UNCHANGED <<cvars, restarts>>)
       /\ \A c \in Conns : WF_mvars(StreamStep(c, r))

FairMSpec == MSpec /\ MFairness
-----------------------------------------------------------------------------
\* The server does what Relay says, with the real CLI in the place of the one
\* that Relay assumes, and whatever state of both a restart comes in.
ServerIsRelay == Init /\ [][Next \/ ServerRestarts]_vars

\* The exit code tells what happened: success means that the server opened a
\* session for the options that were typed; failure that no request was served
\* and the server waits for nothing; a usage error that nothing was connected.
ExitCodeTellsTruth ==
  \A c \in Conns :
    /\ exit[c] = "success" => hello[c] = options[c] /\ sid[c] \in Ids
    /\ exit[c] = "failure" => JobsOf(c, Jobs) = {} /\ link[c] # "up"
    /\ exit[c] = "usage" => link[c] = "none" /\ hello[c] = NoHello

\* "Tunnel ready!" is true: from the moment the CLI prints it until the server
\* has noticed that the connection is lost, the session is registered and its
\* tunnel is in the map, for this connection.
ReadyMeansReachable ==
  \A c \in Conns : place[c] = "serving" /\ link[c] \in {"up", "lost"} =>
    task[c] = "serving" /\ sessions[sid[c]] = c /\ tunnels[sid[c]] = c

\* "Session closed. Bye!" is true: when the CLI says so and exits, the server
\* has been told, or the connection was lost for it too.
ByeIsHeard == \A c \in Conns : exit[c] = "success" => link[c] # "up"

\* Shutting down ends, however many replays hang, and the server then forgets
\* the session.
CleanShutdown ==
  \A c \in Conns : (place[c] = "closing") ~> (place[c] = "stopped" /\ ~HasEntries(c))

\* What the stream of r, sent to c, waits for is something that c's CLI can do.
CliCanGetOn(c, r) ==
  \/ CanReadSession(c) /\ task[c] = "serving"
  \/ CanAccept(c, r) \/ CanAnswer(c, r) \/ CanDeliver(c, r)
  \/ CanSendClose(c)

\* What r waits for is something that its own task, the server's end of its
\* connection or the CLI behind it can do.
CanGetOn(r) ==
  \/ stage[r] \in {"resolve", "session", "lookup", "auth", "eruda"}
  \/ stage[r] = "open" /\ StreamGranted(r)
  \/ stage[r] = "await" /\ ResponseEnds(r)
  \/ /\ stream[r] = "sent"
     /\ \/ link[via[r]] = "lost"
        \/ task[via[r]] = "reply"
        \/ link[via[r]] = "up" /\ CliCanGetOn(via[r], r)

\* No browser waits for nobody: as long as the requests that hang cannot use
\* up the streams of a tunnel, a request that is under way can get on, or waits
\* for a stream that another one of its tunnel is going to give back.
RequestsNeverStuck ==
  IsFiniteSet(Slow) /\ Cardinality(Slow) < MaxStreams =>
    \A r \in Reqs \ Slow : stage[r] \notin {"idle", "done"} =>
      \/ CanGetOn(r)
      \/ stage[r] = "open" /\ \E q \in OpenStreams(via[r]) \ Slow : CanGetOn(q)

\* When the server closes the connection, is restarted or no longer reached,
\* the CLI notices and exits: it does not sit there with a dead tunnel.
CliFollowsServer ==
  \A c \in Conns : (place[c] = "serving" /\ link[c] = "down") ~> (place[c] = "stopped")
=============================================================================
