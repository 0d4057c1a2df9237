----------------------- MODULE MobilinkHistoryProofs ------------------------
(***************************************************************************)
(* Proofs about the whole of Mobilink, from the history of each request:   *)
(* what is proved of the server alone in RelayHistoryProofs and            *)
(* OwnerProofs holds behind real CLIs and through restarts, and what a     *)
(* developer's application gets is what the server has routed to it.       *)
(*                                                                         *)
(* A step of the whole is a step of the server's history (HNext), which    *)
(* the lemmas RouteStep, PromiseStep, BetweenInvStep, CalmInvStep,         *)
(* OptionsStep and SoleStep are about, or a restart that is recorded.      *)
(* What is left to show is what a restart does to each invariant.          *)
(***************************************************************************)
EXTENDS MobilinkHistory, MobilinkProofs, OwnerProofs

RecordedRestart == ServerRestarts /\ Record

\* The history restricts nothing: what is proved of Mobilink holds with it.
THEOREM WholeIsMobilink == MHSpec => MSpec
<1>1. MHInit => MInit
  BY DEF MHInit
<1>2. [MHNext]_mhvars => [MNext]_mvars
  BY DEF MHNext, mhvars
<1>. QED BY <1>1, <1>2, PTL DEF MHSpec, MSpec

\* What a step of the whole is to the server and its history.
LEMMA StepOfHistory ==
  ASSUME MInv, [MHNext]_mhvars
  PROVE  [HNext]_hvars \/ RecordedRestart
<1>1. CASE MHNext /\ UNCHANGED vars
  BY <1>1 DEF MHNext, hvars
<1>2. CASE MHNext /\ ~UNCHANGED vars
  <2>1. MNext /\ Record
    BY <1>2 DEF MHNext
  <2>2. Next \/ ServerRestarts
    BY <1>2, <2>1, StepOfRelay DEF MInv, TypeInv
  <2>. QED BY <2>1, <2>2 DEF HNext, RecordedRestart
<1>3. CASE UNCHANGED mhvars
  BY <1>3 DEF mhvars, mvars, hvars
<1>. QED BY <1>1, <1>2, <1>3
-----------------------------------------------------------------------------
(***************************************************************************)
(* Routing and the promise of PublicHost.                                  *)
(***************************************************************************)

\* What a restart does to the history: whoever waits sees the host without an
\* owner, and nobody is under way any more.
LEMMA RestartRecorded ==
  ASSUME RouteInv, RecordedRestart
  PROVE  /\ Owner' = NoConn
         /\ \A r \in Reqs :
              /\ stage'[r] = IF stage[r] = "idle" THEN "idle" ELSE "done"
              /\ via'[r] = via[r]
              /\ answer'[r] = IF stage[r] \in {"idle", "done"} THEN answer[r] ELSE "cut"
              /\ owners'[r] = IF stage[r] \in {"idle", "done"} THEN owners[r]
                                                               ELSE owners[r] \cup {NoConn}
<1>1. Owner' = NoConn
  BY DEF RecordedRestart, ServerRestarts, ServerStartsEmpty, Owner
<1>2. ASSUME NEW r \in Reqs
      PROVE  /\ stage'[r] = IF stage[r] = "idle" THEN "idle" ELSE "done"
             /\ via'[r] = via[r]
             /\ answer'[r] = IF stage[r] \in {"idle", "done"} THEN answer[r] ELSE "cut"
  BY DEF RecordedRestart, ServerRestarts, ServerStartsEmpty
<1>3. ASSUME NEW r \in Reqs
      PROVE  owners'[r] = IF stage[r] \in {"idle", "done"} THEN owners[r]
                                                           ELSE owners[r] \cup {NoConn}
  <2>1. CASE stage[r] \in {"idle", "done"}
    BY <1>2, <2>1 DEF RecordedRestart, Record
  <2>2. CASE stage[r] \notin {"idle", "done"}
    <3>1. owners'[r] = owners[r] \cup {Owner, NoConn}
      BY <1>1, <1>2, <2>2 DEF RecordedRestart, Record
    <3>2. Owner \in owners[r]
      BY <2>2 DEF RouteInv, OwnerRecorded
    <3>. QED BY <2>2, <3>1, <3>2
  <2>. QED BY <2>1, <2>2
<1>. QED BY <1>1, <1>2, <1>3

\* No request is on its way through a restart, so that none is routed by what
\* it read in the server's earlier life.
LEMMA RouteSurvivesRestart ==
  ASSUME RouteInv, RecordedRestart
  PROVE  RouteInv'
<1>1. OwnerRecorded' /\ PickedWasOwner'
  BY RestartRecorded DEF OwnerRecorded, PickedWasOwner
<1>2. \A r \in Reqs : owners[r] \subseteq owners'[r]
  BY RestartRecorded
<1>3. RoutedToAnOwner'
  BY <1>2, RestartRecorded DEF RouteInv, RoutedToAnOwner
<1>4. NotFoundHasACause'
  BY <1>2, RestartRecorded DEF RouteInv, NotFoundHasACause
<1>. QED BY <1>1, <1>3, <1>4 DEF RouteInv

\* A restart is the end of the server in PublicHost.
LEMMA RestartIsAStop ==
  ASSUME RouteInv, AskedInv, OwnersType, RecordedRestart
  PROVE  Public!ServerStops /\ AskedInv' /\ OwnersType'
<1>1. \A r \in Reqs : stage[r] \in {"idle", "done"} <=> ~(owners[r] # {} /\ answer[r] = "none")
  BY DEF AskedInv
<1>2. owners' = [r \in Reqs |-> IF owners[r] # {} /\ answer[r] = "none"
                                THEN owners[r] \cup {NoConn} ELSE owners[r]]
  <2>1. owners' = [r \in Reqs |-> owners'[r]]
    BY DEF RecordedRestart, Record
  <2>2. \A r \in Reqs : owners'[r] = IF owners[r] # {} /\ answer[r] = "none"
                                     THEN owners[r] \cup {NoConn} ELSE owners[r]
    BY <1>1, RestartRecorded
  <2>. QED BY <2>1, <2>2
<1>3. answer' = [r \in Reqs |-> IF owners[r] # {} /\ answer[r] = "none"
                                THEN "cut" ELSE answer[r]]
  BY <1>1 DEF RecordedRestart, ServerRestarts
<1>4. UNCHANGED via
  BY DEF RecordedRestart, ServerRestarts, ServerStartsEmpty
<1>5. Public!ServerStops
  BY <1>2, <1>3, <1>4, RestartRecorded DEF Public!ServerStops, Public!Waiting
<1>6. AskedInv'
  BY RestartRecorded DEF AskedInv
<1>7. OwnersType'
  BY <1>2 DEF OwnersType
<1>. QED BY <1>5, <1>6, <1>7

WholeInv == MInv /\ RouteInv /\ AskedInv /\ OwnersType

LEMMA WholeStep ==
  ASSUME WholeInv, MInv', [MHNext]_mhvars
  PROVE  WholeInv' /\ [Public!PublicNext \/ Public!ServerStops]_Public!pvars
<1>1. MInv /\ TypeInv /\ MapInv /\ RouteInv /\ AskedInv /\ OwnersType /\ (TypeInv /\ MapInv)'
  BY DEF WholeInv, MInv
<1>2. CASE [HNext]_hvars
  <2>1. RouteInv'
    BY <1>1, <1>2, RouteStep
  <2>. QED BY <1>1, <1>2, <2>1, PromiseStep DEF WholeInv
<1>3. CASE RecordedRestart
  BY <1>1, <1>3, RouteSurvivesRestart, RestartIsAStop DEF WholeInv
<1>. QED BY <1>1, <1>2, <1>3, StepOfHistory

\* WholeInv holds in every reachable state.
THEOREM WholeInvariant == MHSpec => []WholeInv
<1>1. MHInit => RouteInv /\ AskedInv /\ OwnersType
  BY NoConnAssumption
  DEF MHInit, HInit, Init, RouteInv, OwnerRecorded, PickedWasOwner, RoutedToAnOwner,
      NotFoundHasACause, AskedInv, OwnersType
<1>2. MInv /\ MHInit => WholeInv
  BY <1>1 DEF WholeInv
<1>3. WholeInv /\ MInv' /\ [MHNext]_mhvars => WholeInv'
  BY WholeStep
<1>4. MHSpec => []MInv
  BY WholeIsMobilink, MobilinkInvariant, PTL
<1>. QED BY <1>2, <1>3, <1>4, PTL DEF MHSpec

\* The whole system keeps the promise of PublicHost, through every restart.
THEOREM PromiseKeptThroughRestarts == MHSpec => PromiseSurvivesRestarts
<1>1. MHInit => Public!PublicInit
  BY DEF MHInit, HInit, Init, RegistryInit, Owner, Public!PublicInit
<1>2. WholeInv /\ MInv' /\ [MHNext]_mhvars
      => [Public!PublicNext \/ Public!ServerStops]_Public!pvars
  BY WholeStep
<1>3. MHSpec => []MInv /\ []WholeInv
  BY WholeIsMobilink, MobilinkInvariant, WholeInvariant, PTL
<1>4. MHSpec => Public!PublicInit /\ [][Public!PublicNext \/ Public!ServerStops]_Public!pvars
  BY <1>1, <1>2, <1>3, PTL DEF MHSpec
<1>. QED BY <1>4 DEF PromiseSurvivesRestarts, Public!RestartingSpec

\* A restart refuses nobody for want of a tunnel.
LEMMA BetweenSurvivesRestart ==
  ASSUME BetweenInv, RecordedRestart
  PROVE  BetweenInv'
<1> SUFFICES ASSUME NEW r \in Reqs PROVE BetweenRoute(r)'
  BY DEF BetweenInv
<1>1. /\ stage'[r] = IF stage[r] = "idle" THEN "idle" ELSE "done"
      /\ answer'[r] = IF stage[r] \in {"idle", "done"} THEN answer[r] ELSE "cut"
      /\ via'[r] = via[r]
  BY DEF RecordedRestart, ServerRestarts, ServerStartsEmpty
<1>2. between'[r] = between[r]
  BY <1>1 DEF RecordedRestart, Record
<1>. QED BY <1>1, <1>2 DEF BetweenInv, BetweenRoute

\* BetweenInv holds in every reachable state of the whole.
THEOREM WholeBetweenInvariant == MHSpec => []BetweenInv
<1>1. MHInit => BetweenInv
  BY DEF MHInit, HInit, Init, BetweenInv, BetweenRoute
<1>2. MInv /\ MInv' /\ BetweenInv /\ [MHNext]_mhvars => BetweenInv'
  <2> SUFFICES ASSUME MInv, MInv', BetweenInv, [MHNext]_mhvars PROVE BetweenInv'
    OBVIOUS
  <2>1. TypeInv /\ MapInv /\ TypeInv' /\ MapInv'
    BY DEF MInv
  <2>. QED BY <2>1, StepOfHistory, BetweenInvStep, BetweenSurvivesRestart
<1>3. MHSpec => []MInv
  BY WholeIsMobilink, MobilinkInvariant, PTL
<1>. QED BY <1>1, <1>2, <1>3, PTL DEF MHSpec

\* A request is routed to an owner of the host of its own time, and told that
\* there is no session or no tunnel for a reason, whatever the server has been
\* through.
THEOREM RoutingSurvivesRestarts ==
  MHSpec => [](RoutedToAnOwner /\ NotFoundHasACause /\ MissingTunnelHasACause)
<1>1. WholeInv => RoutedToAnOwner /\ NotFoundHasACause
  BY DEF WholeInv, RouteInv
<1>2. BetweenInv => MissingTunnelHasACause
  BY DEF BetweenInv, BetweenRoute, MissingTunnelHasACause
<1>. QED BY <1>1, <1>2, WholeInvariant, WholeBetweenInvariant, PTL
-----------------------------------------------------------------------------
(***************************************************************************)
(* What a developer who owns the host can count on.                        *)
(***************************************************************************)

\* A host is not calm while its server restarts, and what was answered before
\* stays answered as it was.
LEMMA CalmSurvivesRestart ==
  ASSUME CalmInv, RecordedRestart
  PROVE  CalmInv'
<1> SUFFICES ASSUME NEW r \in Reqs, calm'[r] PROVE CalmRoute(r)'
  BY DEF CalmInv, CalmRoute
<1>1. UNCHANGED stream
  BY DEF RecordedRestart, ServerRestarts, ServerStartsEmpty
<1>2. /\ stage'[r] = IF stage[r] = "idle" THEN "idle" ELSE "done"
      /\ answer'[r] = IF stage[r] \in {"idle", "done"} THEN answer[r] ELSE "cut"
  BY DEF RecordedRestart, ServerRestarts
<1>3. CASE stage[r] = "idle"
  BY <1>2, <1>3 DEF CalmRoute
<1>4. CASE stage[r] = "done"
  <2>1. calm[r]
    BY <1>4 DEF RecordedRestart, Record
  <2>. QED BY <1>1, <1>2, <1>4, <2>1 DEF CalmInv, CalmRoute
<1>5. CASE stage[r] \notin {"idle", "done"}
  <2>1. OwnerServes'
    BY <1>2, <1>5 DEF RecordedRestart, Record
  <2>2. Owner' = NoConn
    BY DEF RecordedRestart, ServerRestarts, ServerStartsEmpty, Owner
  <2>. QED BY <2>1, <2>2, NoConnAssumption DEF OwnerServes
<1>. QED BY <1>3, <1>4, <1>5

\* CalmInv holds in every reachable state of the whole.
THEOREM WholeCalmInvariant == MHSpec => []CalmInv
<1>1. MHInit => CalmInv
  BY DEF MHInit, HInit, Init, CalmInv, CalmRoute
<1>2. MInv /\ CalmInv /\ [MHNext]_mhvars => CalmInv'
  BY StepOfHistory, CalmInvStep, CalmSurvivesRestart DEF MInv
<1>3. MHSpec => []MInv
  BY WholeIsMobilink, MobilinkInvariant, PTL
<1>. QED BY <1>1, <1>2, <1>3, PTL DEF MHSpec

\* Behind the real CLI of the one developer who owns the host, a browser gets
\* its answer.
THEOREM WholeCalmHostServes == MHSpec => []CalmHostServes
<1>1. CalmInv => CalmHostServes
  BY DEF CalmInv, CalmRoute, CalmHostServes
<1>. QED BY <1>1, WholeCalmInvariant, PTL

\* The options of a tunnel end with it: a restart leaves none in force.
LEMMA OptionsSurviveRestart ==
  ASSUME OptionsInv, ServerRestarts
  PROVE  OptionsInv'
<1>1. FrontIsAnEntry'
  BY DEF ServerRestarts, ServerStartsEmpty, FrontIsAnEntry, Entries
<1>2. HelloStands'
  BY DEF ServerRestarts, ServerStartsEmpty, OptionsInv, HelloStands
<1>. QED BY <1>1, <1>2 DEF OptionsInv

\* What was relayed before a restart was treated as its developer asked.
LEMMA SoleSurvivesRestart ==
  ASSUME SoleInv, RecordedRestart
  PROVE  SoleInv'
<1> SUFFICES ASSUME NEW r \in Reqs PROVE SoleRoute(r)'
  BY DEF SoleInv
<1>1. UNCHANGED <<via, rewrite, inject, hello>>
  BY DEF RecordedRestart, ServerRestarts, ServerStartsEmpty
<1>2. /\ stage'[r] = IF stage[r] = "idle" THEN "idle" ELSE "done"
      /\ answer'[r] = IF stage[r] \in {"idle", "done"} THEN answer[r] ELSE "cut"
  BY DEF RecordedRestart, ServerRestarts
<1>3. SoleRoute(r)
  BY DEF SoleInv
<1>4. CASE stage[r] = "idle"
  BY <1>1, <1>2, <1>3, <1>4 DEF SoleRoute
<1>5. CASE stage[r] = "done"
  <2>1. sole'[r] = sole[r] /\ stage'[r] = "done" /\ answer'[r] = answer[r]
    BY <1>2, <1>5 DEF RecordedRestart, Record
  <2>2. sole[r] /\ answer[r] = "relayed" =>
          /\ rewrite'[r] = (hello'[via'[r]].auth = "cookie")
          /\ inject'[r] = ~hello'[via'[r]].noEruda
    BY <1>1, <1>3 DEF SoleRoute
  <2>3. answer[r] = "relayed" => via'[r] # NoConn
    BY <1>1, <1>3 DEF SoleRoute
  <2>. QED BY <2>1, <2>2, <2>3 DEF SoleRoute
<1>6. CASE stage[r] \notin {"idle", "done"}
  BY <1>2, <1>6 DEF SoleRoute
<1>. QED BY <1>4, <1>5, <1>6

\* OptionsInv and SoleInv hold in every reachable state of the whole.
THEOREM WholeSoleInvariant == MHSpec => [](OptionsInv /\ SoleInv)
<1>1. MHInit => OptionsInv /\ SoleInv
  BY NoConnAssumption
  DEF MHInit, HInit, Init, TunnelInit, OptionsInv, FrontIsAnEntry, HelloStands, Entries,
      SoleInv, SoleRoute
<1>2. MInv /\ OptionsInv /\ SoleInv /\ [MHNext]_mhvars => OptionsInv' /\ SoleInv'
  <2> SUFFICES ASSUME MInv, OptionsInv, SoleInv, [MHNext]_mhvars
               PROVE  OptionsInv' /\ SoleInv'
    OBVIOUS
  <2>1. CASE [HNext]_hvars
    <3>1. [Next]_vars
      BY <2>1 DEF HNext, hvars
    <3>. QED BY <2>1, <3>1, OptionsStep, SoleStep DEF MInv
  <2>2. CASE RecordedRestart
    BY <2>2, OptionsSurviveRestart, SoleSurvivesRestart DEF RecordedRestart
  <2>. QED BY <2>1, <2>2, StepOfHistory
<1>3. MHSpec => []MInv
  BY WholeIsMobilink, MobilinkInvariant, PTL
<1>. QED BY <1>1, <1>2, <1>3, PTL DEF MHSpec

\* A developer whose tunnel is the only one gets what the command line asked
\* for, in every life of the server.
THEOREM WholeSoleTunnelOptionsHonoured == MHSpec => []SoleTunnelOptionsHonoured
<1>1. SoleInv => SoleTunnelOptionsHonoured
  BY DEF SoleInv, SoleRoute, SoleTunnelOptionsHonoured
<1>. QED BY <1>1, WholeSoleInvariant, PTL
-----------------------------------------------------------------------------
(***************************************************************************)
(* From end to end: what is relayed is what a task of a CLI has delivered. *)
(***************************************************************************)
FrameOK(r) ==
  /\ stream[r] = "frame" => job[r] = "delivered"
  /\ stage[r] \in {"auth", "eruda"} => stream[r] = "frame"
  /\ answer[r] = "relayed" => stream[r] = "frame" /\ stage[r] = "done"

FrameInv == \A r \in Reqs : FrameOK(r)

\* A step of a process leaves the frames alone, except that a task delivers
\* one.
LEMMA FramesStand ==
  ASSUME MInv, FrameInv, UNCHANGED requests, NEW q \in Reqs,
         UNCHANGED job \/ \E c \in Conns, r \in Reqs : AcceptStream(c, r) \/ Answer(c, r)
  PROVE  FrameOK(q)'
<1>1. UNCHANGED <<stream, stage, answer>>
  BY DEF requests
<1>2. job[q] = "delivered" => job'[q] = "delivered"
  BY DEF CanAnswer, CanAccept, MInv, CliTypeOK, AcceptStream, Answer
<1>. QED BY <1>1, <1>2 DEF FrameInv, FrameOK

\* The handling of a request keeps a frame once it is there.
LEMMA FramesReadOnce ==
  ASSUME MInv, FrameInv, UNCHANGED job, NEW q \in Reqs,
         NEW r \in Reqs, RequestArrives(r) \/ RequestStep(r)
  PROVE  FrameOK(q)'
<1>1. FrameOK(q) /\ JobOK(r)
  BY DEF FrameInv, MInv, EndsInv
<1> USE DEF MInv, TypeInv, TypeOK, MoveTo, AnswerWith
<1>2. CASE RequestArrives(r) BY <1>1, <1>2 DEF RequestArrives, FrameOK
<1>3. CASE ReadCurrent(r) BY <1>1, <1>3 DEF ReadCurrent, FrameOK
<1>4. CASE GetSession(r) BY <1>1, <1>4 DEF GetSession, FrameOK
<1>5. CASE FindTunnel(r) BY <1>1, <1>5 DEF FindTunnel, FrameOK
<1>6. CASE SendRequest(r) BY <1>1, <1>6 DEF SendRequest, FrameOK, JobOK
<1>7. CASE ReadResponse(r) BY <1>1, <1>7 DEF ReadResponse, FrameOK
<1>8. CASE ReadAuthMode(r) BY <1>1, <1>8 DEF ReadAuthMode, FrameOK
<1>9. CASE ReadEruda(r) BY <1>1, <1>9 DEF ReadEruda, FrameOK
<1>. QED BY <1>2, <1>3, <1>4, <1>5, <1>6, <1>7, <1>8, <1>9 DEF RequestStep

LEMMA FrameStep ==
  ASSUME MInv, FrameInv, [MNext]_mvars
  PROVE  FrameInv'
<1> SUFFICES ASSUME NEW q \in Reqs PROVE FrameOK(q)'
  BY DEF FrameInv
<1>1. ASSUME NEW c \in Conns, NEW r \in Reqs, CliResponds(c, r) PROVE FrameOK(q)'
  BY <1>1 DEF CanDeliver, CliResponds, Deliver, FrameInv, FrameOK, MInv, TypeInv, TypeOK,
    CliTypeOK
<1>2. ASSUME NEW c \in Conns, NEW r \in Reqs, CliTakesRequest(c, r) \/ CliReplays(c, r)
      PROVE  FrameOK(q)'
  BY <1>2, FramesStand DEF CliTakesRequest, CliReplays, vars
<1>3. ASSUME NEW c \in Conns, CliStep(c) \/ CliGivesUp(c) \/ CliDies(c) PROVE FrameOK(q)'
  <2>1. UNCHANGED <<job, requests>>
    BY <1>3 DEF CliStep, CliAlone, CliConnects, CliGivesUp, CliSaysHello, CliGetsSession,
      CliSaysGoodbye, CliDies, CliNoticesLoss, ParseArguments, ResolveHost, Connect,
      ConnectFails, SendHello, ReadSession, HandshakeFails, LoseConnection, ServeEnds,
      PressCtrlC, SendClose, WaitIdle, Killed, vars, ServerAlone
  <2>. QED BY <2>1, FramesStand
<1>4. ASSUME NEW c \in Conns,
             \/ NetworkFails(c) \/ ServerAccepts(c)
             \/ ServerNoticesLoss(c) /\ UNCHANGED cvars
             \/ HandlerStep(c) /\ UNCHANGED cvars
      PROVE  FrameOK(q)'
  <2>1. UNCHANGED <<job, requests>>
    BY <1>4 DEF NetworkFails, ServerAccepts, CliGoesAway, Accept, ServerNoticesLoss,
                HandlerStep, ReadHello, OpenSession, InsertTunnel, Reply, DropTunnel,
                ForgetSession, cvars
  <2>. QED BY <2>1, FramesStand
<1>5. ASSUME NEW r \in Reqs, UNCHANGED cvars, RequestArrives(r) \/ RequestStep(r)
      PROVE  FrameOK(q)'
  BY <1>5, FramesReadOnce DEF cvars
<1>6. CASE ServerRestarts
  BY <1>6 DEF ServerRestarts, ServerStartsEmpty, cvars, FrameInv, FrameOK
<1>7. CASE UNCHANGED mvars
  BY <1>7, FramesStand DEF mvars, vars, cvars
<1>. QED
  BY <1>1, <1>2, <1>3, <1>4, <1>5, <1>6, <1>7 DEF MNext, StreamStep, ServerStep

\* FrameInv holds in every reachable state of Mobilink.
THEOREM FrameInvariant == MSpec => []FrameInv
<1>1. MInit => FrameInv
  BY DEF MInit, Init, FrameInv, FrameOK
<1>2. MInv /\ FrameInv /\ [MNext]_mvars => FrameInv'
  BY FrameStep
<1>. QED BY <1>1, <1>2, MobilinkInvariant, PTL DEF MSpec

\* A developer's application sees only the requests of browsers that waited
\* while that developer owned the host, and a browser only what the one CLI
\* that got its request has sent back.
THEOREM OnlyOwnersEverSeeRequests == MHSpec => []OnlyOwnersSeeRequests
<1>1. WholeInv /\ FrameInv => OnlyOwnersSeeRequests
  <2> SUFFICES ASSUME WholeInv, FrameInv, NEW r \in Reqs
               PROVE  /\ job[r] # "none" => on[r] \in owners[r] \ {NoConn}
                      /\ answer[r] = "relayed" => job[r] = "delivered" /\ on[r] = via[r]
    BY DEF OnlyOwnersSeeRequests
  <2>1. job[r] # "none" => on[r] = via[r] /\ via[r] # NoConn
    BY NoConnAssumption DEF WholeInv, MInv, EndsInv, JobOK
  <2>2. via[r] # NoConn => via[r] \in owners[r]
    BY DEF WholeInv, RouteInv, RoutedToAnOwner
  <2>. QED BY <2>1, <2>2 DEF FrameInv, FrameOK
<1>. QED BY <1>1, WholeInvariant, WholeIsMobilink, FrameInvariant, PTL
=============================================================================
