--------------------------- MODULE MobilinkProofs ---------------------------
(***************************************************************************)
(* Proofs about the whole of Mobilink: the server with the real CLI and    *)
(* with restarts is the server of Relay, what is proved of its maps there  *)
(* holds here too, and what the CLI tells its developer is true.           *)
(***************************************************************************)
EXTENDS Mobilink, RelayProofs, FiniteSetTheorems

\* The two ends of a connection, and what each process has said and done.
ConnOK(c) ==
  /\ place[c] \in {"start", "resolve", "connect"} =>
       conn[c] = "none" /\ farewell[c] = "none"
  /\ place[c] \in {"start", "resolve"} => link[c] = "none"
  /\ place[c] \in {"start", "resolve", "connect", "hello"} => hello[c] = NoHello
  /\ place[c] \notin {"start", "stopped"} => options[c] \in Hellos
  /\ place[c] \in {"session", "serving", "closing"} => hello[c] = options[c]
  /\ place[c] \in {"serving", "closing"} =>
       sid[c] \in Ids /\ (link[c] \in {"up", "lost"} => task[c] = "serving")
  /\ link[c] = "none" <=> task[c] = "idle"
  /\ link[c] = "none" => place[c] \in {"start", "resolve", "connect", "stopped"}
  /\ conn[c] = "lost" \/ farewell[c] = "sent" => link[c] # "up"
  /\ exit[c] # "none" => place[c] = "stopped"
  /\ exit[c] = "success" => hello[c] = options[c] /\ sid[c] \in Ids /\ link[c] # "up"
  /\ exit[c] = "failure" => link[c] # "up"
  /\ exit[c] = "usage" => link[c] = "none" /\ hello[c] = NoHello

\* A task of a CLI, and the stream it was spawned for.
JobOK(r) ==
  /\ stage[r] \in {"idle", "resolve", "session", "lookup", "open"} => stream[r] = "none"
  /\ job[r] = "none" <=> on[r] = NoConn
  /\ job[r] # "none" =>
       /\ stream[r] # "none"
       /\ on[r] \in Conns
       /\ on[r] = via[r]
       /\ place[on[r]] \in {"serving", "closing", "stopped"}
       /\ exit[on[r]] \notin {"failure", "usage"}
  /\ job[r] \in {"replaying", "written", "refused"} => stream[r] = "sent"
  /\ job[r] \in {"written", "refused"} => r \notin Slow

EndsInv == (\A c \in Conns : ConnOK(c)) /\ (\A r \in Reqs : JobOK(r))

MInv == TypeInv /\ CliTypeOK /\ MapInv /\ EndsInv
-----------------------------------------------------------------------------
(***************************************************************************)
(* Every step of the server is one of Relay's, or a restart.               *)
(***************************************************************************)

\* A connection that is lost for the server is one whose CLI goes away.
LEMMA LossIsGoingAway ==
  ASSUME TypeOK, NEW c \in Conns, LinkLost(c), UNCHANGED ServerAlone
  PROVE  [Next]_vars
<1>1. CASE link[c] = "up"
  <2>1. CliGoesAway(c)
    BY <1>1 DEF TypeOK, LinkLost, ServerAlone, CliGoesAway
  <2>. QED BY <2>1 DEF Next
<1>2. CASE link[c] # "up"
  <2>1. link' = link
    BY <1>2 DEF TypeOK, LinkLost
  <2>. QED BY <2>1 DEF ServerAlone, vars, handlers
<1>. QED BY <1>1, <1>2

\* What the CLI sends first is a Hello that Relay expects.
LEMMA HelloIsExpected ==
  ASSUME EndsInv, NEW c \in Conns, CliSaysHello(c)
  PROVE  CliSendsHello(c)
BY DEF EndsInv, ConnOK, CliSaysHello, SendHello, CliSendsHello

\* A task of the CLI answers only a stream that waits for it, of a tunnel
\* whose handler serves.
LEMMA AnswerIsExpected ==
  ASSUME EndsInv, NEW c \in Conns, NEW r \in Reqs, CliResponds(c, r)
  PROVE  CliAnswers(r)
<1>1. /\ link[c] = "up" /\ on[r] = c /\ job[r] \in {"written", "refused"}
      /\ place[c] \notin {"start", "stopped"}
  BY DEF CliResponds, Deliver, CanDeliver, Alive
<1>2. via[r] = c /\ stream[r] = "sent" /\ r \notin Slow /\ task[c] = "serving"
  BY <1>1 DEF EndsInv, ConnOK, JobOK
<1>. QED BY <1>1, <1>2 DEF CliResponds, CliAnswers

LEMMA StepOfRelay ==
  ASSUME TypeOK, EndsInv, [MNext]_mvars
  PROVE  [Next \/ ServerRestarts]_vars
<1>1. ASSUME NEW c \in Conns, CliStep(c) PROVE [Next]_vars
  <2>1. CASE CliSaysHello(c)
    BY <2>1, HelloIsExpected DEF Next
  <2>2. CASE CliSaysGoodbye(c)
    BY <2>2, LossIsGoingAway DEF CliSaysGoodbye
  <2>3. CASE CliAlone(c) \/ CliConnects(c) \/ CliGetsSession(c) \/ CliNoticesLoss(c)
    BY <2>3 DEF CliAlone, CliConnects, CliGetsSession, CliNoticesLoss
  <2>. QED BY <1>1, <2>1, <2>2, <2>3 DEF CliStep
<1>2. ASSUME NEW c \in Conns, CliGivesUp(c) \/ CliDies(c) PROVE [Next]_vars
  BY <1>2, LossIsGoingAway DEF CliGivesUp, CliDies
<1>3. ASSUME NEW c \in Conns, NetworkFails(c) \/ ServerAccepts(c) PROVE [Next]_vars
  BY <1>3 DEF NetworkFails, ServerAccepts, Next
<1>4. ASSUME NEW c \in Conns, NEW r \in Reqs, StreamStep(c, r) PROVE [Next]_vars
  <2>1. CASE CliResponds(c, r)
    BY <2>1, AnswerIsExpected DEF Next
  <2>2. CASE CliTakesRequest(c, r) \/ CliReplays(c, r)
    BY <2>2 DEF CliTakesRequest, CliReplays
  <2>. QED BY <1>4, <2>1, <2>2 DEF StreamStep
<1>5. CASE ServerStep
  BY <1>5 DEF ServerStep, Next
<1>6. CASE UNCHANGED mvars
  BY <1>6 DEF mvars
<1>. QED BY <1>1, <1>2, <1>3, <1>4, <1>5, <1>6 DEF MNext
-----------------------------------------------------------------------------
(***************************************************************************)
(* The server's own invariants survive a restart.                          *)
(***************************************************************************)
LEMMA RestartKeepsServer ==
  ASSUME TypeInv, ServerRestarts
  PROVE  TypeInv' /\ MapInv'
<1>1. TypeInv'
  BY DEF ServerRestarts, ServerStartsEmpty, TypeInv, TypeOK, PickedBeforeLookup,
         RegistryTypeOK, TunnelTypeOK, Links, Tasks, Stages, Answers
<1>2. MapInv'
  BY NoIdAssumption
     DEF ServerRestarts, ServerStartsEmpty, TypeInv, TypeOK, MapInv, OwnerIsOpen,
         RegistryCoversTunnels, HandlerKeepsItsEntries, SessionsAccounted, Registered
<1>. QED BY <1>1, <1>2

LEMMA ServerInvStep ==
  ASSUME TypeInv, MapInv, EndsInv, [MNext]_mvars
  PROVE  TypeInv' /\ MapInv'
<1>1. [Next]_vars \/ ServerRestarts
  BY StepOfRelay DEF TypeInv
<1>. QED BY <1>1, TypeStep, MapStep, RestartKeepsServer
-----------------------------------------------------------------------------
(***************************************************************************)
(* The CLI's variables keep to their types.                                *)
(***************************************************************************)
LEMMA OptionsUnderstood ==
  ASSUME NEW c \in Conns, CliTypeOK, ParseArguments(c)
  PROVE  /\ \/ place' = [place EXCEPT ![c] = "resolve"] /\ UNCHANGED exit
            \/ place' = [place EXCEPT ![c] = "stopped"] /\ exit' = [exit EXCEPT ![c] = "usage"]
         /\ \/ \E h \in Hellos : options' = [options EXCEPT ![c] = h]
            \/ place'[c] = "stopped" /\ UNCHANGED options
BY CommandsAssumption DEF ParseArguments, GoTo, Stop, CliTypeOK

LEMMA CliTypeStep ==
  ASSUME CliTypeOK, [MNext]_mvars
  PROVE  CliTypeOK'
<1> USE HellosAssumption DEF Places, Exits, ConnEnds, Farewells, Jobs
<1>1. ASSUME NEW c \in Conns, ParseArguments(c) PROVE CliTypeOK'
  BY <1>1, OptionsUnderstood DEF CliTypeOK, ParseArguments
<1>2. ASSUME NEW c \in Conns,
             \/ ResolveHost(c) \/ Connect(c) \/ ConnectFails(c) \/ SendHello(c)
             \/ ReadSession(c) \/ HandshakeFails(c)
      PROVE  CliTypeOK'
  BY <1>2 DEF CliTypeOK, ResolveHost, Connect, ConnectFails, SendHello, ReadSession,
              HandshakeFails, GoTo, Stop
<1>3. ASSUME NEW c \in Conns,
             \/ LoseConnection(c) \/ ServeEnds(c) \/ PressCtrlC(c) \/ SendClose(c)
             \/ WaitIdle(c) \/ Killed(c)
      PROVE  CliTypeOK'
  BY <1>3 DEF CliTypeOK, LoseConnection, ServeEnds, PressCtrlC, SendClose, WaitIdle,
              Killed, GoTo, Stop
<1>4. ASSUME NEW c \in Conns, NEW r \in Reqs, AcceptStream(c, r) PROVE CliTypeOK'
  BY <1>4 DEF CliTypeOK, AcceptStream, CanAccept, Received
<1>5. ASSUME NEW c \in Conns, NEW r \in Reqs, Answer(c, r) \/ Deliver(c, r) PROVE CliTypeOK'
  BY <1>5 DEF CliTypeOK, Answer, Deliver
<1>6. ASSUME UNCHANGED cvars PROVE CliTypeOK'
  BY <1>6 DEF CliTypeOK, cvars
<1>. QED
  BY <1>1, <1>2, <1>3, <1>4, <1>5, <1>6
  DEF MNext, CliStep, StreamStep, CliAlone, CliConnects, CliGivesUp, CliSaysHello,
      CliGetsSession, CliTakesRequest, CliReplays, CliResponds, CliSaysGoodbye, CliDies,
      CliNoticesLoss, NetworkFails, ServerAccepts, ServerStep, ServerRestarts,
       ServerStartsEmpty, mvars
-----------------------------------------------------------------------------
(***************************************************************************)
(* The two ends of each connection.                                        *)
(***************************************************************************)
LEMMA ConnStep ==
  ASSUME TypeInv, CliTypeOK, MapInv, EndsInv, [MNext]_mvars
  PROVE  \A c \in Conns : ConnOK(c)'
<1>0. \A c \in Conns : ConnOK(c)
  BY DEF EndsInv
<1> SUFFICES ASSUME NEW d \in Conns PROVE ConnOK(d)'
  OBVIOUS
<1> USE NotAHelloAssumption, HellosAssumption
<1> USE DEF TypeInv, TypeOK, CliTypeOK, ConnOK
<1>1. ASSUME NEW c \in Conns, ParseArguments(c), UNCHANGED <<vars, restarts>>
      PROVE  ConnOK(d)'
  BY <1>0, <1>1, OptionsUnderstood DEF ParseArguments, vars, handlers
<1>2. ASSUME NEW c \in Conns, UNCHANGED <<vars, restarts>>,
             ResolveHost(c) \/ HandshakeFails(c)
      PROVE  ConnOK(d)'
  BY <1>0, <1>2 DEF ResolveHost, HandshakeFails, GoTo, Stop, vars, handlers
<1>3. ASSUME NEW c \in Conns, UNCHANGED <<vars, restarts>>,
             ServeEnds(c) \/ PressCtrlC(c) \/ WaitIdle(c)
      PROVE  ConnOK(d)'
  BY <1>0, <1>3 DEF ServeEnds, PressCtrlC, WaitIdle, GoTo, Stop, vars, handlers
<1>4. ASSUME NEW c \in Conns, CliConnects(c) PROVE ConnOK(d)'
  BY <1>0, <1>4 DEF CliConnects, Connect, GoTo, vars, handlers
<1>5. ASSUME NEW c \in Conns, CliGivesUp(c) PROVE ConnOK(d)'
  BY <1>0, <1>5 DEF CliGivesUp, ConnectFails, Stop, LinkLost, ServerAlone
<1>6. ASSUME NEW c \in Conns, CliSaysHello(c) PROVE ConnOK(d)'
  BY <1>0, <1>6 DEF CliSaysHello, SendHello, GoTo
<1>7. ASSUME NEW c \in Conns, CliGetsSession(c) PROVE ConnOK(d)'
  BY <1>0, <1>7 DEF CliGetsSession, ReadSession, CanReadSession, GoTo, MapInv,
    HandlerKeepsItsEntries, vars, handlers
<1>8. ASSUME NEW c \in Conns, NEW r \in Reqs, StreamStep(c, r) PROVE ConnOK(d)'
  BY <1>0, <1>8 DEF StreamStep, CliTakesRequest, CliReplays, CliResponds, AcceptStream,
                    Answer, Deliver, vars, handlers
<1>9. ASSUME NEW c \in Conns, CliSaysGoodbye(c) PROVE ConnOK(d)'
  BY <1>0, <1>9 DEF CliSaysGoodbye, SendClose, CanSendClose, Alive, LinkLost, ServerAlone
<1>10. ASSUME NEW c \in Conns, CliDies(c) PROVE ConnOK(d)'
  BY <1>0, <1>10 DEF CliDies, Killed, Alive, Stop, LinkLost, ServerAlone
<1>11. ASSUME NEW c \in Conns, CliNoticesLoss(c) PROVE ConnOK(d)'
  BY <1>0, <1>11 DEF CliNoticesLoss, LoseConnection, Alive, vars, handlers
<1>12. ASSUME NEW c \in Conns, NetworkFails(c) PROVE ConnOK(d)'
  BY <1>0, <1>12 DEF NetworkFails, CliGoesAway, cvars
<1>13. ASSUME NEW c \in Conns, ServerAccepts(c) PROVE ConnOK(d)'
  BY <1>0, <1>13 DEF ServerAccepts, Accept, AbandonConnection, cvars
<1>14. ASSUME NEW c \in Conns, UNCHANGED cvars,
              ServerNoticesLoss(c) \/ ReadHello(c) \/ OpenSession(c)
       PROVE  ConnOK(d)'
  BY <1>0, <1>14 DEF ServerNoticesLoss, ReadHello, OpenSession, AbandonConnection, cvars
<1>15. ASSUME NEW c \in Conns, UNCHANGED cvars,
              InsertTunnel(c) \/ Reply(c) \/ DropTunnel(c) \/ ForgetSession(c)
       PROVE  ConnOK(d)'
  BY <1>0, <1>15 DEF InsertTunnel, Reply, DropTunnel, ForgetSession, cvars
<1>16. ASSUME NEW r \in Reqs, UNCHANGED cvars, RequestArrives(r) \/ RequestStep(r)
       PROVE  ConnOK(d)'
  <2>1. UNCHANGED handlers
    BY <1>16 DEF RequestArrives, RequestStep, ReadCurrent, GetSession, FindTunnel,
                 SendRequest, ReadResponse, ReadAuthMode, ReadEruda
  <2>. QED BY <1>0, <1>16, <2>1 DEF handlers, cvars
<1>17. CASE ServerRestarts
  BY <1>0, <1>17 DEF ServerRestarts, ServerStartsEmpty, cvars
<1>18. CASE UNCHANGED mvars
  BY <1>0, <1>18 DEF mvars, vars, handlers, cvars
<1>. QED
  BY <1>1, <1>2, <1>3, <1>4, <1>5, <1>6, <1>7, <1>8, <1>9, <1>10, <1>11, <1>12,
     <1>13, <1>14, <1>15, <1>16, <1>17, <1>18
  DEF MNext, CliStep, CliAlone, ServerStep, HandlerStep
-----------------------------------------------------------------------------
(***************************************************************************)
(* The task of each stream.                                                *)
(***************************************************************************)
LEMMA JobStep ==
  ASSUME TypeInv, CliTypeOK, EndsInv, [MNext]_mvars
  PROVE  \A q \in Reqs : JobOK(q)'
<1>0. \A q \in Reqs : JobOK(q)
  BY DEF EndsInv
<1> SUFFICES ASSUME NEW q \in Reqs PROVE JobOK(q)'
  OBVIOUS
<1> USE NoConnAssumption
<1> USE DEF TypeInv, TypeOK, CliTypeOK, JobOK
<1>1. ASSUME NEW c \in Conns, NEW r \in Reqs, CliTakesRequest(c, r) PROVE JobOK(q)'
  BY <1>0, <1>1 DEF CliTakesRequest, AcceptStream, CanAccept, Received, vars, requests,
    EndsInv, ConnOK
<1>2. ASSUME NEW c \in Conns, NEW r \in Reqs, CliReplays(c, r) PROVE JobOK(q)'
  BY <1>0, <1>2 DEF CliReplays, Answer, CanAnswer, vars, requests
<1>3. ASSUME NEW c \in Conns, NEW r \in Reqs, CliResponds(c, r) PROVE JobOK(q)'
  BY <1>0, <1>3 DEF CliResponds, Deliver, CanDeliver
<1>4. ASSUME UNCHANGED <<place, exit, on, job>>,
             \E r \in Reqs : RequestArrives(r) \/ RequestStep(r)
      PROVE  JobOK(q)'
  BY <1>0, <1>4
  DEF RequestArrives, RequestStep, ReadCurrent, GetSession, FindTunnel, SendRequest,
      ReadResponse, ReadAuthMode, ReadEruda, MoveTo, AnswerWith
<1>5. ASSUME UNCHANGED <<place, exit, on, job, via, stream>>,
             \/ stage' = stage
             \/ stage' = [r \in Reqs |-> IF stage[r] = "idle" THEN "idle" ELSE "done"]
      PROVE  JobOK(q)'
  BY <1>0, <1>5
<1>6. ASSUME UNCHANGED <<on, job, via, stream, stage>>, NEW c \in Conns, NEW p \in Places,
             place' = [place EXCEPT ![c] = p],
             \/ place[c] \in {"serving", "closing"} /\ p \in {"closing", "stopped"}
             \/ place[c] \notin {"serving", "closing", "stopped"},
             \/ UNCHANGED exit
             \/ exit' = [exit EXCEPT ![c] = "success"]
             \/ exit' = [exit EXCEPT ![c] = "killed"]
             \/ /\ place[c] \notin {"serving", "closing", "stopped"}
                /\ \E e \in Exits : exit' = [exit EXCEPT ![c] = e]
      PROVE  JobOK(q)'
  BY <1>0, <1>6
<1>7. ASSUME NEW c \in Conns, CliStep(c) \/ CliGivesUp(c) \/ CliDies(c) PROVE JobOK(q)'
  <2>1. UNCHANGED <<on, job, requests>>
    BY <1>7 DEF CliStep, CliAlone, CliConnects, CliGivesUp, CliSaysHello, CliGetsSession,
      CliSaysGoodbye, CliDies, CliNoticesLoss, ParseArguments, ResolveHost, Connect,
      ConnectFails, SendHello, ReadSession, HandshakeFails, LoseConnection, ServeEnds,
      PressCtrlC, SendClose, WaitIdle, Killed, vars, ServerAlone
  <2>2. CASE CliSaysGoodbye(c) \/ CliNoticesLoss(c)
    BY <1>5, <2>1, <2>2 DEF CliSaysGoodbye, CliNoticesLoss, SendClose, LoseConnection, requests
  <2>. QED
    BY <1>6, <1>7, <2>1, <2>2
    DEF CliStep, CliAlone, CliConnects, CliGivesUp, CliSaysHello, CliGetsSession,
      CliDies, ParseArguments, ResolveHost, Connect, ConnectFails, SendHello,
      ReadSession, CanReadSession, HandshakeFails, ServeEnds, PressCtrlC, WaitIdle, Killed,
      requests, GoTo, Stop, Places, Exits, Alive
<1>8. ASSUME NEW c \in Conns,
             \/ NetworkFails(c) \/ ServerAccepts(c)
             \/ ServerNoticesLoss(c) /\ UNCHANGED cvars
             \/ HandlerStep(c) /\ UNCHANGED cvars
      PROVE  JobOK(q)'
  <2>1. UNCHANGED <<cvars, requests>>
    BY <1>8 DEF NetworkFails, ServerAccepts, CliGoesAway, Accept, ServerNoticesLoss,
                HandlerStep, ReadHello, OpenSession, InsertTunnel, Reply, DropTunnel,
                ForgetSession
  <2>. QED BY <1>5, <2>1 DEF cvars, requests
<1>9. CASE ServerRestarts
  BY <1>5, <1>9 DEF ServerRestarts, ServerStartsEmpty, cvars
<1>10. CASE UNCHANGED mvars
  BY <1>5, <1>10 DEF mvars, vars, requests, cvars
<1>. QED
  BY <1>1, <1>2, <1>3, <1>4, <1>7, <1>8, <1>9, <1>10
  DEF MNext, StreamStep, ServerStep, cvars
-----------------------------------------------------------------------------
(***************************************************************************)
(* The inductive invariant, and what follows from it.                      *)
(***************************************************************************)

\* MInv holds in every reachable state of the composition.
THEOREM MobilinkInvariant == MSpec => []MInv
<1>1. MInit => MInv
  <2> SUFFICES ASSUME MInit PROVE MInv
    OBVIOUS
  <2>1. TypeInv
    BY DEF MInit, Init, TypeInv, TypeOK, RegistryInit, TunnelInit, PickedBeforeLookup,
           RegistryTypeOK, TunnelTypeOK, Links, Tasks, Stages, Streams, Answers
  <2>2. CliTypeOK
    BY DEF MInit, CliInit, CliTypeOK, Places, Exits, ConnEnds, Farewells, Jobs
  <2>3. MapInv
    BY DEF MInit, Init, RegistryInit, TunnelInit, MapInv, OwnerIsOpen, Registered,
           RegistryCoversTunnels, HandlerKeepsItsEntries, SessionsAccounted
  <2>4. EndsInv
    BY DEF MInit, Init, CliInit, EndsInv, ConnOK, JobOK
  <2>. QED BY <2>1, <2>2, <2>3, <2>4 DEF MInv
<1>2. MInv /\ [MNext]_mvars => MInv'
  <2> SUFFICES ASSUME MInv, [MNext]_mvars PROVE MInv'
    OBVIOUS
  <2>. QED
    BY ServerInvStep, CliTypeStep, ConnStep, JobStep DEF MInv, EndsInv
<1>. QED BY <1>1, <1>2, PTL DEF MSpec

\* Every variable of the CLI keeps to its type; what a command line asks for
\* is a pair of options the server knows.
THEOREM CliTypeCorrect == MSpec => []CliTypeOK
<1>1. MInv => CliTypeOK
  BY DEF MInv
<1>. QED BY <1>1, MobilinkInvariant, PTL

\* The server behind real CLIs is the server of Relay, restarts aside.
THEOREM ServerIsTheRelay == MSpec => ServerIsRelay
<1>1. MInit => Init
  BY DEF MInit
<1>2. MInv /\ [MNext]_mvars => [Next \/ ServerRestarts]_vars
  BY StepOfRelay DEF MInv, TypeInv
<1>. QED BY <1>1, <1>2, MobilinkInvariant, PTL DEF MSpec, ServerIsRelay

\* The two maps stay consistent across restarts: what is proved of Relay's
\* maps holds behind real CLIs, in every life of the server.
THEOREM MapsSurviveRestarts ==
  MSpec => [](OwnerIsOpen /\ RegistryCoversTunnels /\ HandlerKeepsItsEntries)
<1>1. MInv => OwnerIsOpen /\ RegistryCoversTunnels /\ HandlerKeepsItsEntries
  BY DEF MInv, MapInv
<1>. QED BY <1>1, MobilinkInvariant, PTL

\* A developer who reads "Tunnel ready!" has a session and a tunnel until the
\* server notices that the connection is lost.
THEOREM ReadyIsReachable == MSpec => []ReadyMeansReachable
<1>1. MInv => ReadyMeansReachable
  BY DEF MInv, EndsInv, ConnOK, MapInv, HandlerKeepsItsEntries, ReadyMeansReachable
<1>. QED BY <1>1, MobilinkInvariant, PTL

\* "Session closed. Bye!" is printed when the connection is closed or lost.
THEOREM ByeAlwaysHeard == MSpec => []ByeIsHeard
<1>1. MInv => ByeIsHeard
  BY DEF MInv, EndsInv, ConnOK, ByeIsHeard
<1>. QED BY <1>1, MobilinkInvariant, PTL

\* The exit code of the CLI tells what happened.
THEOREM ExitCodeTrue == MSpec => []ExitCodeTellsTruth
<1>1. MInv => ExitCodeTellsTruth
  <2> SUFFICES ASSUME MInv, NEW c \in Conns
               PROVE  /\ exit[c] = "success" => hello[c] = options[c] /\ sid[c] \in Ids
                      /\ exit[c] = "failure" => JobsOf(c, Jobs) = {} /\ link[c] # "up"
                      /\ exit[c] = "usage" => link[c] = "none" /\ hello[c] = NoHello
    BY DEF ExitCodeTellsTruth
  <2>1. exit[c] = "failure" => JobsOf(c, Jobs) = {}
    BY NoConnAssumption DEF MInv, EndsInv, JobOK, JobsOf
  <2>. QED BY <2>1 DEF MInv, EndsInv, ConnOK
<1>. QED BY <1>1, MobilinkInvariant, PTL
-----------------------------------------------------------------------------
(***************************************************************************)
(* Nobody waits for nobody.  Whoever a request waits for is alive: a       *)
(* connection that has been found for it has a handler that serves, or is  *)
(* closed; behind one that is up there is a process that has not stopped;  *)
(* and the stream has a task there that will end, or is still to get one.  *)
(***************************************************************************)
AliveOK(c) ==
  /\ task[c] \in {"failed", "forget", "done"} => link[c] = "down"
  /\ task[c] \in {"register", "insert", "reply", "serving"} => hello[c] \in Options
  /\ place[c] = "stopped" => link[c] # "up"
  /\ place[c] \in {"hello", "session", "serving"} => conn[c] \in {"open", "lost"}
  /\ place[c] = "closing" => conn[c] \in {"lost", "closed"}
  /\ conn[c] = "closed" => farewell[c] \in {"queued", "sent"}

ServedOK(r) ==
  /\ stage[r] \in {"open", "await"} => via[r] # NoConn
  /\ stage[r] = "await" => stream[r] # "none"
  /\ stream[r] = "sent" => via[r] # NoConn /\ job[r] # "delivered"
  /\ via[r] # NoConn => task[via[r]] \in {"reply", "serving"} \/ link[via[r]] = "down"
  /\ job[r] = "failed" => conn[on[r]] # "open"

WaitInv == (\A c \in Conns : AliveOK(c)) /\ (\A r \in Reqs : ServedOK(r))

LEMMA AliveStep ==
  ASSUME MInv, WaitInv, [MNext]_mvars
  PROVE  \A c \in Conns : AliveOK(c)'
<1>0. \A c \in Conns : AliveOK(c) /\ ConnOK(c)
  BY DEF WaitInv, MInv, EndsInv
<1> SUFFICES ASSUME NEW d \in Conns PROVE AliveOK(d)'
  OBVIOUS
<1> USE NotAHelloAssumption, HellosAssumption
<1> USE DEF MInv, TypeInv, TypeOK, CliTypeOK, AliveOK
<1>1. ASSUME NEW c \in Conns, ParseArguments(c), UNCHANGED <<vars, restarts>>
      PROVE  AliveOK(d)'
  BY <1>0, <1>1, OptionsUnderstood DEF ParseArguments, vars, handlers, ConnOK
<1>2. ASSUME NEW c \in Conns, UNCHANGED <<vars, restarts>>,
             ResolveHost(c) \/ HandshakeFails(c)
      PROVE  AliveOK(d)'
  BY <1>0, <1>2 DEF ResolveHost, HandshakeFails, GoTo, Stop, vars, handlers, ConnOK
<1>3. ASSUME NEW c \in Conns, UNCHANGED <<vars, restarts>>,
             ServeEnds(c) \/ PressCtrlC(c) \/ WaitIdle(c)
      PROVE  AliveOK(d)'
  BY <1>0, <1>3 DEF ServeEnds, PressCtrlC, WaitIdle, GoTo, Stop, vars, handlers, ConnOK
<1>4. ASSUME NEW c \in Conns, CliConnects(c) PROVE AliveOK(d)'
  BY <1>0, <1>4 DEF CliConnects, Connect, GoTo, vars, handlers
<1>5. ASSUME NEW c \in Conns, CliGivesUp(c) PROVE AliveOK(d)'
  BY <1>0, <1>5 DEF CliGivesUp, ConnectFails, Stop, LinkLost, ServerAlone
<1>6. ASSUME NEW c \in Conns, CliSaysHello(c) PROVE AliveOK(d)'
  BY <1>0, <1>6 DEF CliSaysHello, SendHello, GoTo, ConnOK
<1>7. ASSUME NEW c \in Conns, CliGetsSession(c) PROVE AliveOK(d)'
  BY <1>0, <1>7 DEF CliGetsSession, ReadSession, CanReadSession, GoTo, vars, handlers
<1>8. ASSUME NEW c \in Conns, NEW r \in Reqs, StreamStep(c, r) PROVE AliveOK(d)'
  BY <1>0, <1>8 DEF StreamStep, CliTakesRequest, CliReplays, CliResponds, AcceptStream,
                    Answer, Deliver, vars, handlers
<1>9. ASSUME NEW c \in Conns, CliSaysGoodbye(c) PROVE AliveOK(d)'
  BY <1>0, <1>9 DEF CliSaysGoodbye, SendClose, LinkLost, ServerAlone
<1>10. ASSUME NEW c \in Conns, CliDies(c) PROVE AliveOK(d)'
  BY <1>0, <1>10 DEF CliDies, Killed, Stop, LinkLost, ServerAlone
<1>11. ASSUME NEW c \in Conns, CliNoticesLoss(c) PROVE AliveOK(d)'
  BY <1>0, <1>11 DEF CliNoticesLoss, LoseConnection, vars, handlers
<1>12. ASSUME NEW c \in Conns, NetworkFails(c) PROVE AliveOK(d)'
  BY <1>0, <1>12 DEF NetworkFails, CliGoesAway, cvars
<1>13. ASSUME NEW c \in Conns, ServerAccepts(c) PROVE AliveOK(d)'
  BY <1>0, <1>13 DEF ServerAccepts, Accept, AbandonConnection, cvars
<1>14. ASSUME NEW c \in Conns, UNCHANGED cvars,
              ServerNoticesLoss(c) \/ ReadHello(c) \/ OpenSession(c)
       PROVE  AliveOK(d)'
  BY <1>0, <1>14 DEF ServerNoticesLoss, ReadHello, OpenSession, AbandonConnection, cvars
<1>15. ASSUME NEW c \in Conns, UNCHANGED cvars,
              InsertTunnel(c) \/ Reply(c) \/ DropTunnel(c) \/ ForgetSession(c)
       PROVE  AliveOK(d)'
  BY <1>0, <1>15 DEF InsertTunnel, Reply, DropTunnel, ForgetSession, cvars
<1>16. ASSUME NEW r \in Reqs, UNCHANGED cvars, RequestArrives(r) \/ RequestStep(r)
       PROVE  AliveOK(d)'
  <2>1. UNCHANGED handlers
    BY <1>16 DEF RequestArrives, RequestStep, ReadCurrent, GetSession, FindTunnel,
                 SendRequest, ReadResponse, ReadAuthMode, ReadEruda
  <2>. QED BY <1>0, <1>16, <2>1 DEF handlers, cvars
<1>17. CASE ServerRestarts
  BY <1>0, <1>17 DEF ServerRestarts, ServerStartsEmpty, cvars, ConnOK
<1>18. CASE UNCHANGED mvars
  BY <1>0, <1>18 DEF mvars, vars, handlers, cvars
<1>. QED
  BY <1>1, <1>2, <1>3, <1>4, <1>5, <1>6, <1>7, <1>8, <1>9, <1>10, <1>11, <1>12,
     <1>13, <1>14, <1>15, <1>16, <1>17, <1>18
  DEF MNext, CliStep, CliAlone, ServerStep, HandlerStep

\* A connection that serves the requests it was found for.
Serves(c) == task[c] \in {"reply", "serving"} \/ link[c] = "down"

\* A handler serves until its connection is closed.
LEMMA HandlersServe ==
  ASSUME MInv, [MNext]_mvars, NEW d \in Conns, Serves(d)
  PROVE  Serves(d)'
<1>0. ConnOK(d) /\ (link[d] = "none" <=> task[d] = "idle")
  BY DEF MInv, EndsInv, ConnOK
<1> USE DEF MInv, TypeInv, TypeOK, Serves
<1>1. ASSUME NEW c \in Conns, CliStep(c) \/ CliGivesUp(c) \/ CliDies(c) PROVE Serves(d)'
  BY <1>0, <1>1 DEF CliStep, CliAlone, CliConnects, CliGivesUp, CliSaysHello,
      CliGetsSession, CliSaysGoodbye, CliDies, CliNoticesLoss, vars, handlers, ServerAlone,
      LinkLost
<1>2. ASSUME NEW c \in Conns, NEW r \in Reqs, StreamStep(c, r) PROVE Serves(d)'
  BY <1>0, <1>2 DEF StreamStep, CliTakesRequest, CliReplays, CliResponds, vars, handlers
<1>3. ASSUME NEW c \in Conns, NetworkFails(c) \/ ServerAccepts(c) PROVE Serves(d)'
  BY <1>0, <1>3 DEF NetworkFails, CliGoesAway, ServerAccepts, Accept, AbandonConnection
<1>4. ASSUME NEW c \in Conns, ServerNoticesLoss(c) \/ HandlerStep(c) PROVE Serves(d)'
  BY <1>0, <1>4 DEF ServerNoticesLoss, HandlerStep, ReadHello, OpenSession, InsertTunnel,
      Reply, DropTunnel, ForgetSession, AbandonConnection
<1>5. ASSUME NEW r \in Reqs, RequestArrives(r) \/ RequestStep(r) PROVE Serves(d)'
  BY <1>5 DEF RequestArrives, RequestStep, ReadCurrent, GetSession, FindTunnel,
              SendRequest, ReadResponse, ReadAuthMode, ReadEruda, handlers
<1>6. CASE ServerRestarts
  BY <1>0, <1>6 DEF ServerRestarts, ServerStartsEmpty
<1>7. CASE UNCHANGED mvars
  BY <1>7 DEF mvars, vars, handlers
<1>. QED
  BY <1>1, <1>2, <1>3, <1>4, <1>5, <1>6, <1>7 DEF MNext, ServerStep

\* A connection that has been found for a request goes on serving it.
LEMMA FoundServes ==
  ASSUME MInv, WaitInv, [MNext]_mvars, NEW q \in Reqs, via[q] # NoConn, via'[q] = via[q]
  PROVE  via[q] \in Conns /\ Serves(via[q])'
<1>1. via[q] \in Conns /\ Serves(via[q])
  BY DEF WaitInv, ServedOK, Serves, MInv, TypeInv, TypeOK
<1>2. \A d \in Conns : Serves(d) => task'[d] \in {"reply", "serving"} \/ link'[d] = "down"
  BY HandlersServe DEF Serves
<1>. QED BY <1>1, <1>2 DEF Serves

\* A tunnel in the map is one of a connection that serves.
LEMMA TunnelsServe ==
  ASSUME MInv, WaitInv, NEW i \in Ids, tunnels[i] # NoConn
  PROVE  tunnels[i] \in Conns /\ Serves(tunnels[i])
<1>1. tunnels[i] \in Conns /\ sessions[i] = tunnels[i]
  BY DEF MInv, TypeInv, TypeOK, TunnelTypeOK, MapInv, RegistryCoversTunnels
<1>2. /\ sid[tunnels[i]] = i
      /\ task[tunnels[i]] \in {"insert", "reply", "serving", "forget", "failed"}
  BY <1>1 DEF MInv, MapInv, SessionsAccounted, Registered
<1>3. task[tunnels[i]] \notin {"insert", "forget"}
  BY <1>1, <1>2 DEF MInv, MapInv, HandlerKeepsItsEntries
<1>. QED BY <1>1, <1>2, <1>3 DEF WaitInv, AliveOK, Serves

\* A step that is not about a request, nor about the task of its stream.
LEMMA ServedStands ==
  ASSUME MInv, WaitInv, [MNext]_mvars, UNCHANGED <<on, job, requests>>, NEW q \in Reqs,
         \A c \in Conns : conn'[c] = "open" => conn[c] = "open" \/ place[c] = "connect"
  PROVE  ServedOK(q)'
<1>1. UNCHANGED <<via, stream, stage>>
  BY DEF requests
<1>2. via[q] # NoConn => via[q] \in Conns /\ Serves(via[q])'
  BY <1>1, FoundServes
<1>3. job[q] = "failed" => conn'[on[q]] # "open"
  BY DEF WaitInv, ServedOK, MInv, EndsInv, JobOK
<1>. QED BY <1>1, <1>2, <1>3 DEF WaitInv, ServedOK, Serves

\* A step of the handling of a request.
LEMMA ServedByRequest ==
  ASSUME MInv, WaitInv, UNCHANGED <<on, job, conn>>, NEW q \in Reqs, NEW r \in Reqs,
         RequestArrives(r) \/ RequestStep(r)
  PROVE  ServedOK(q)'
<1>1. ServedOK(q) /\ ServedOK(r) /\ JobOK(r)
  BY DEF WaitInv, MInv, EndsInv
<1>2. UNCHANGED <<task, link>>
  BY DEF RequestArrives, RequestStep, ReadCurrent, GetSession, FindTunnel, SendRequest,
         ReadResponse, ReadAuthMode, ReadEruda, handlers
<1> USE DEF MInv, TypeInv, TypeOK, MoveTo, AnswerWith
<1>3. CASE RequestArrives(r) BY <1>1, <1>2, <1>3 DEF RequestArrives, ServedOK
<1>4. CASE ReadCurrent(r) BY <1>1, <1>2, <1>4 DEF ReadCurrent, ServedOK
<1>5. CASE GetSession(r) BY <1>1, <1>2, <1>5 DEF GetSession, ServedOK
<1>6. CASE FindTunnel(r)
  <2>1. picked[r] \in Ids
    BY <1>6 DEF FindTunnel, PickedBeforeLookup
  <2>2. CASE tunnels[picked[r]] = NoConn
    BY <1>1, <1>2, <1>6, <2>2 DEF FindTunnel, ServedOK
  <2>3. CASE tunnels[picked[r]] # NoConn
    <3>1. tunnels[picked[r]] \in Conns /\ Serves(tunnels[picked[r]])
      BY <2>1, <2>3, TunnelsServe
    <3>2. /\ stage' = [stage EXCEPT ![r] = "open"]
          /\ via' = [via EXCEPT ![r] = tunnels[picked[r]]]
          /\ UNCHANGED stream
      BY <1>6, <2>3 DEF FindTunnel
    <3>. QED BY <1>1, <1>2, <2>3, <3>1, <3>2 DEF ServedOK, Serves
  <2>. QED BY <2>2, <2>3
<1>7. CASE SendRequest(r) BY <1>1, <1>2, <1>7 DEF SendRequest, ServedOK, JobOK
<1>8. CASE ReadResponse(r) BY <1>1, <1>2, <1>8 DEF ReadResponse, ServedOK
<1>9. CASE ReadAuthMode(r) BY <1>1, <1>2, <1>9 DEF ReadAuthMode, ServedOK
<1>10. CASE ReadEruda(r) BY <1>1, <1>2, <1>10 DEF ReadEruda, ServedOK
<1>. QED BY <1>3, <1>4, <1>5, <1>6, <1>7, <1>8, <1>9, <1>10 DEF RequestStep

LEMMA ServedStep ==
  ASSUME MInv, WaitInv, [MNext]_mvars
  PROVE  \A q \in Reqs : ServedOK(q)'
<1> SUFFICES ASSUME NEW q \in Reqs PROVE ServedOK(q)'
  OBVIOUS
<1>0. ServedOK(q) /\ JobOK(q)
  BY DEF WaitInv, MInv, EndsInv
<1>1. ASSUME NEW c \in Conns, NEW r \in Reqs, CliTakesRequest(c, r) PROVE ServedOK(q)'
  BY <1>0, <1>1 DEF CliTakesRequest, AcceptStream, CanAccept, Received, vars, handlers,
                    requests, ServedOK, MInv, CliTypeOK
<1>2. ASSUME NEW c \in Conns, NEW r \in Reqs, CliReplays(c, r) PROVE ServedOK(q)'
  BY <1>0, <1>2 DEF CliReplays, Answer, CanAnswer, vars, handlers, requests, ServedOK,
                    MInv, CliTypeOK
<1>3. ASSUME NEW c \in Conns, NEW r \in Reqs, CliResponds(c, r) PROVE ServedOK(q)'
  BY <1>0, <1>3 DEF CliResponds, Deliver, CanDeliver, handlers, ServedOK,
                    MInv, TypeInv, TypeOK, CliTypeOK
<1>4. ASSUME NEW c \in Conns, CliStep(c) \/ CliGivesUp(c) \/ CliDies(c) PROVE ServedOK(q)'
  <2>1. UNCHANGED <<on, job, requests>>
    BY <1>4 DEF CliStep, CliAlone, CliConnects, CliGivesUp, CliSaysHello, CliGetsSession,
      CliSaysGoodbye, CliDies, CliNoticesLoss, ParseArguments, ResolveHost, Connect,
      ConnectFails, SendHello, ReadSession, HandshakeFails, LoseConnection, ServeEnds,
      PressCtrlC, SendClose, WaitIdle, Killed, vars, ServerAlone
  <2>2. \A d \in Conns : conn'[d] = "open" => conn[d] = "open" \/ place[d] = "connect"
    BY <1>4 DEF CliStep, CliAlone, CliConnects, CliGivesUp, CliSaysHello, CliGetsSession,
      CliSaysGoodbye, CliDies, CliNoticesLoss, ParseArguments, ResolveHost, Connect,
      ConnectFails, SendHello, ReadSession, HandshakeFails, LoseConnection, ServeEnds,
      PressCtrlC, SendClose, WaitIdle, Killed, MInv, CliTypeOK
  <2>. QED BY <2>1, <2>2, ServedStands
<1>5. ASSUME NEW c \in Conns,
             \/ NetworkFails(c) \/ ServerAccepts(c)
             \/ ServerNoticesLoss(c) /\ UNCHANGED cvars
             \/ HandlerStep(c) /\ UNCHANGED cvars
      PROVE  ServedOK(q)'
  <2>1. UNCHANGED <<cvars, requests>>
    BY <1>5 DEF NetworkFails, ServerAccepts, CliGoesAway, Accept, ServerNoticesLoss,
                HandlerStep, ReadHello, OpenSession, InsertTunnel, Reply, DropTunnel,
                ForgetSession
  <2>. QED BY <2>1, ServedStands DEF cvars
<1>6. ASSUME NEW r \in Reqs, UNCHANGED cvars, RequestArrives(r) \/ RequestStep(r)
      PROVE  ServedOK(q)'
  BY <1>6, ServedByRequest DEF cvars
<1>7. CASE ServerRestarts
  <2>1. via[q] # NoConn => via[q] \in Conns /\ Serves(via[q])'
    BY <1>7, FoundServes DEF ServerRestarts, ServerStartsEmpty
  <2>. QED
    BY <1>0, <1>7, <2>1 DEF ServerRestarts, ServerStartsEmpty, cvars, ServedOK, Serves
<1>8. CASE UNCHANGED mvars
  BY <1>8, ServedStands DEF mvars, vars, cvars
<1>. QED
  BY <1>1, <1>2, <1>3, <1>4, <1>5, <1>6, <1>7, <1>8 DEF MNext, StreamStep, ServerStep

\* WaitInv holds in every reachable state.
THEOREM WaitInvariant == MSpec => []WaitInv
<1>1. MInit => WaitInv
  BY NoConnAssumption DEF MInit, Init, CliInit, WaitInv, AliveOK, ServedOK
<1>2. MInv /\ WaitInv /\ [MNext]_mvars => WaitInv'
  BY AliveStep, ServedStep DEF WaitInv
<1>. QED BY <1>1, <1>2, MobilinkInvariant, PTL DEF MSpec

\* A request whose stream has been opened, and does not hang, can get on.
LEMMA StreamGetsOn ==
  ASSUME MInv, WaitInv, NEW r \in Reqs \ Slow, stream[r] = "sent", link[via[r]] # "down"
  PROVE  CanGetOn(r)
<1> DEFINE c == via[r]
<1>1. c \in Conns /\ ServedOK(r) /\ JobOK(r) /\ AliveOK(c) /\ ConnOK(c)
  BY DEF WaitInv, ServedOK, MInv, EndsInv, TypeInv, TypeOK
<1>2. task[c] \in {"reply", "serving"} /\ link[c] \in {"up", "lost"}
  <2>1. task[c] \in {"reply", "serving"}
    BY <1>1 DEF ServedOK
  <2>2. link[c] # "none"
    BY <1>1, <2>1 DEF ConnOK
  <2>. QED BY <1>1, <2>1, <2>2 DEF MInv, TypeInv, TypeOK, Links
<1>3. CASE link[c] = "lost" \/ task[c] = "reply"
  BY <1>3 DEF CanGetOn
<1>4. CASE link[c] = "up" /\ task[c] = "serving"
  <2>1. CliCanGetOn(c, r)
    <3>1. hello[c] # NoHello /\ conn[c] # "lost" /\ farewell[c] # "sent"
      BY <1>1, <1>4, NotAHelloAssumption DEF AliveOK, ConnOK
    <3>2. place[c] \in {"session", "serving", "closing"}
      BY <1>1, <1>4, <3>1 DEF AliveOK, ConnOK, MInv, CliTypeOK, Places
    <3>3. CASE place[c] = "session"
      BY <1>1, <1>4, <3>1, <3>3 DEF CliCanGetOn, CanReadSession, AliveOK
    <3>4. CASE place[c] = "serving"
      <4>1. conn[c] = "open"
        BY <1>1, <3>1, <3>4 DEF AliveOK
      <4>2. job[r] \in {"none", "replaying", "written", "refused"}
        BY <1>1, <4>1 DEF ServedOK, JobOK, MInv, CliTypeOK, Jobs
      <4>. QED
        BY <1>1, <3>4, <4>1, <4>2
        DEF CliCanGetOn, CanAccept, CanAnswer, CanDeliver, Alive, JobOK
    <3>5. CASE place[c] = "closing"
      BY <1>1, <3>1, <3>5 DEF CliCanGetOn, CanSendClose, Alive, AliveOK
    <3>. QED BY <3>2, <3>3, <3>4, <3>5
  <2>. QED BY <1>4, <2>1 DEF CanGetOn
<1>. QED BY <1>2, <1>3, <1>4

\* A tunnel that has no stream left has given one to a request that does not
\* hang.
LEMMA SomeStreamComesBack ==
  ASSUME IsFiniteSet(Slow), Cardinality(Slow) < MaxStreams, NEW c,
         ~(Cardinality(OpenStreams(c)) < MaxStreams)
  PROVE  OpenStreams(c) \ Slow # {}
<1> SUFFICES ASSUME OpenStreams(c) \subseteq Slow PROVE FALSE
  OBVIOUS
<1>1. /\ Cardinality(Slow) \in Nat
      /\ Cardinality(OpenStreams(c)) \in Nat
      /\ Cardinality(OpenStreams(c)) <= Cardinality(Slow)
  BY FS_Subset, FS_CardinalityType
<1>. QED BY <1>1, MaxStreamsAssumption

\* No browser ever waits for nobody.
THEOREM RequestsAreNeverStuck == MSpec => []RequestsNeverStuck
<1>1. MInv /\ WaitInv => RequestsNeverStuck
  <2> SUFFICES ASSUME MInv, WaitInv, IsFiniteSet(Slow), Cardinality(Slow) < MaxStreams,
                      NEW r \in Reqs \ Slow, stage[r] \in {"open", "await"}
               PROVE  \/ CanGetOn(r)
                      \/ /\ stage[r] = "open"
                         /\ \E q \in OpenStreams(via[r]) \ Slow : CanGetOn(q)
    BY DEF RequestsNeverStuck, CanGetOn, MInv, TypeInv, TypeOK, Stages
  <2>1. CASE stage[r] = "await"
    <3>1. CASE stream[r] # "sent" \/ link[via[r]] = "down"
      BY <2>1, <3>1
      DEF CanGetOn, ResponseEnds, WaitInv, ServedOK, MInv, TypeInv, TypeOK, Streams
    <3>2. CASE stream[r] = "sent" /\ link[via[r]] # "down"
      BY <3>2, StreamGetsOn
    <3>. QED BY <3>1, <3>2
  <2>2. CASE stage[r] = "open"
    <3>1. CASE StreamGranted(r)
      BY <2>2, <3>1 DEF CanGetOn
    <3>2. CASE ~StreamGranted(r)
      <4>1. PICK q \in OpenStreams(via[r]) \ Slow : TRUE
        BY <3>2, SomeStreamComesBack DEF StreamGranted
      <4>2. q \in Reqs \ Slow /\ stream[q] = "sent" /\ link[via[q]] # "down"
        BY <3>2, <4>1 DEF OpenStreams, StreamGranted
      <4>. QED BY <2>2, <4>1, <4>2, StreamGetsOn
    <3>. QED BY <3>1, <3>2
  <2>. QED BY <2>1, <2>2
<1>. QED BY <1>1, MobilinkInvariant, WaitInvariant, PTL
=============================================================================
