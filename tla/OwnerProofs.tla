----------------------------- MODULE OwnerProofs ----------------------------
(***************************************************************************)
(* Proofs of what a developer who owns the public host can count on: to be *)
(* served, whatever the other connections do, while established and        *)
(* connected; to be missed by a request only while their tunnel is being   *)
(* opened or removed; and to have the options they announced honoured,     *)
(* while no other tunnel is in the map.                                    *)
(***************************************************************************)
EXTENDS RelayHistoryProofs
-----------------------------------------------------------------------------
(***************************************************************************)
(* A calm host is served.                                                  *)
(***************************************************************************)

\* What a request of a calm host has in its hands at each place.
CalmRoute(r) ==
  calm[r] =>
    /\ stage[r] \notin {"idle", "done"} => OwnerServes
    /\ stage[r] \in {"session", "lookup"} => picked[r] = current
    /\ stage[r] \in {"open", "await", "auth", "eruda"} => via[r] = Owner
    /\ stage[r] = "done" =>
         \/ answer[r] \in {"relayed", "413"}
         \/ answer[r] = "502" /\ stream[r] = "unreadable"

CalmInv == \A r \in Reqs : CalmRoute(r)

\* While the owner stays the same developer and is served, the owning session
\* stays the same too: that developer's handler holds no other.
LEMMA OwnerKeepsSession ==
  ASSUME TypeInv, MapInv, Next, OwnerServes, OwnerServes', Owner' = Owner
  PROVE  current' = current
<1> USE NoIdAssumption, NoConnAssumption
<1> USE DEF TypeInv, TypeOK, RegistryTypeOK
<1>1. CASE UNCHANGED registry
  BY <1>1 DEF registry
<1>2. ASSUME NEW c \in Conns, NEW i \in Ids, RegisterSession(i, c), task[c] = "register"
      PROVE  FALSE
  <2>1. Owner' = c
    BY <1>2 DEF RegisterSession, Owner
  <2>. QED BY <1>2, <2>1 DEF OwnerServes
<1>3. ASSUME NEW c \in Conns, NEW i \in Ids, CloseSession(i), current' # current
      PROVE  FALSE
  <2>1. current' = NoId
    BY <1>3 DEF CloseSession
  <2>. QED BY <2>1 DEF Owner, OwnerServes
<1>. QED BY <1>1, <1>2, <1>3, RegistrySteps

\* A stream that has ended stays as it is while its request stands still.
LEMMA StreamStands ==
  ASSUME Next, TypeOK, NEW r \in Reqs, stage[r] # "open"
  PROVE  stream'[r] = stream[r] \/ stream[r] = "sent"
<1> USE DEF TypeOK
<1>1. ASSUME NEW c \in Conns,
             \/ Accept(c) \/ CliSendsHello(c) \/ CliGoesAway(c) \/ ServerNoticesLoss(c)
             \/ HandlerStep(c)
      PROVE  stream'[r] = stream[r]
  BY <1>1 DEF Accept, CliSendsHello, CliGoesAway, ServerNoticesLoss, HandlerStep, requests,
              ReadHello, OpenSession, InsertTunnel, Reply, DropTunnel, ForgetSession
<1>2. ASSUME NEW q \in Reqs, CliAnswers(q) PROVE stream'[r] = stream[r] \/ stream[r] = "sent"
  BY <1>2 DEF CliAnswers
<1>3. ASSUME NEW q \in Reqs, SendRequest(q) PROVE stream'[r] = stream[r]
  BY <1>3 DEF SendRequest
<1>4. ASSUME NEW q \in Reqs,
             \/ RequestArrives(q) \/ ReadCurrent(q) \/ GetSession(q) \/ FindTunnel(q)
             \/ ReadResponse(q) \/ ReadAuthMode(q) \/ ReadEruda(q)
      PROVE  stream'[r] = stream[r]
  BY <1>4 DEF RequestArrives, ReadCurrent, GetSession, FindTunnel, ReadResponse,
              ReadAuthMode, ReadEruda
<1>. QED
  BY <1>1, <1>2, <1>3, <1>4 DEF Next, RequestStep

\* A request of a calm host that stands still keeps what it has.
LEMMA CalmStands ==
  ASSUME TypeInv, MapInv, CalmInv, Next, Record, NEW r \in Reqs,
         stage'[r] = stage[r], picked'[r] = picked[r], via'[r] = via[r], answer'[r] = answer[r],
         calm'[r]
  PROVE  CalmRoute(r)'
<1>1. CASE stage[r] = "idle"
  BY <1>1 DEF CalmRoute
<1>2. CASE stage[r] = "done"
  <2>1. calm[r]
    BY <1>2 DEF Record
  <2>2. stream'[r] = stream[r] \/ stream[r] = "sent"
    BY <1>2, StreamStands DEF TypeInv
  <2>. QED BY <1>2, <2>1, <2>2 DEF CalmInv, CalmRoute
<1>3. CASE stage[r] \notin {"idle", "done"}
  <2>1. calm[r] /\ OwnerServes' /\ Owner' = Owner
    BY <1>3 DEF Record
  <2>2. OwnerServes
    BY <1>3, <2>1 DEF CalmInv, CalmRoute
  <2>3. current' = current
    BY <2>1, <2>2, OwnerKeepsSession
  <2>. QED BY <1>3, <2>1, <2>3 DEF CalmInv, CalmRoute
<1>. QED BY <1>1, <1>2, <1>3

\* A step of a request of a calm host finds what the owner's handler left.
LEMMA CalmStep ==
  ASSUME TypeInv, MapInv, CalmInv, Record, NEW r \in Reqs,
         RequestArrives(r) \/ RequestStep(r), calm'[r]
  PROVE  CalmRoute(r)'
<1> USE NoIdAssumption, NoConnAssumption
<1> USE DEF TypeInv, TypeOK, RegistryTypeOK, AnswerWith, MoveTo
<1>1. UNCHANGED <<registry, tunnelMap, handlers>>
  BY DEF RequestArrives, RequestStep, ReadCurrent, GetSession, FindTunnel, SendRequest,
         ReadResponse, ReadAuthMode, ReadEruda
<1>2. Owner' = Owner /\ (OwnerServes' <=> OwnerServes) /\ current' = current
  BY <1>1 DEF registry, handlers, Owner, OwnerServes
<1>3. CASE RequestArrives(r)
  <2>1. stage[r] = "idle" /\ stage'[r] \in {"resolve", "done"}
        /\ (stage'[r] = "done" => answer'[r] = "413")
    BY <1>3 DEF RequestArrives
  <2>2. OwnerServes
    BY <2>1 DEF Record
  <2>. QED BY <1>2, <2>1, <2>2 DEF CalmRoute
<1>4. CASE RequestStep(r)
  <2>1. stage[r] \notin {"idle", "done"}
    BY <1>4 DEF RequestStep, ReadCurrent, GetSession, FindTunnel, SendRequest,
                ReadResponse, ReadAuthMode, ReadEruda
  <2>2. calm[r] /\ OwnerServes /\ OwnerServes'
    BY <1>2, <2>1 DEF Record, CalmInv, CalmRoute
  <2>3. /\ Owner \in Conns /\ task[Owner] = "serving" /\ link[Owner] = "up"
        /\ current \in Ids /\ Owner = sessions[current] /\ Registered(current)
    BY <2>2 DEF OwnerServes, Owner, Registered
  <2>4. tunnels[current] = Owner
    <3>1. sid[Owner] = current
      BY <2>3 DEF MapInv, SessionsAccounted
    <3>. QED BY <2>3, <3>1 DEF MapInv, HandlerKeepsItsEntries
  <2>5. CASE ReadCurrent(r)
    <3>1. stage'[r] = "session" /\ picked'[r] = current
      BY <2>3, <2>5 DEF ReadCurrent
    <3>. QED BY <1>2, <2>2, <3>1 DEF CalmRoute
  <2>6. CASE GetSession(r)
    <3>1. stage[r] = "session" /\ picked[r] = current /\ picked' = picked
      BY <2>2, <2>6 DEF GetSession, CalmInv, CalmRoute
    <3>2. stage'[r] = "lookup"
      BY <2>3, <2>6, <3>1 DEF GetSession
    <3>. QED BY <1>2, <2>2, <3>1, <3>2 DEF CalmRoute
  <2>7. CASE FindTunnel(r)
    <3>1. stage[r] = "lookup" /\ picked[r] = current
      BY <2>2, <2>7 DEF FindTunnel, CalmInv, CalmRoute
    <3>2. stage'[r] = "open" /\ via'[r] = Owner
      BY <2>3, <2>4, <2>7, <3>1 DEF FindTunnel
    <3>. QED BY <1>2, <2>2, <3>2 DEF CalmRoute
  <2>8. CASE SendRequest(r)
    <3>1. stage[r] = "open" /\ via[r] = Owner /\ via' = via
      BY <2>2, <2>8 DEF SendRequest, CalmInv, CalmRoute
    <3>2. stage'[r] = "await"
      BY <2>3, <2>8, <3>1 DEF SendRequest
    <3>. QED BY <1>2, <2>2, <3>1, <3>2 DEF CalmRoute
  <2>9. CASE ReadResponse(r)
    <3>1. stage[r] = "await" /\ via[r] = Owner /\ via' = via /\ stream' = stream
      BY <2>2, <2>9 DEF ReadResponse, CalmInv, CalmRoute
    <3>2. \/ stage'[r] = "auth"
          \/ stage'[r] = "done" /\ answer'[r] = "502" /\ stream[r] = "unreadable"
      BY <2>3, <2>9, <3>1 DEF ReadResponse, ResponseEnds
    <3>. QED BY <1>2, <2>2, <3>1, <3>2 DEF CalmRoute
  <2>10. CASE ReadAuthMode(r)
    <3>1. stage[r] = "auth" /\ via[r] = Owner /\ via' = via /\ stage'[r] = "eruda"
      BY <2>2, <2>10 DEF ReadAuthMode, CalmInv, CalmRoute
    <3>. QED BY <1>2, <2>2, <3>1 DEF CalmRoute
  <2>11. CASE ReadEruda(r)
    <3>1. stage'[r] = "done" /\ answer'[r] = "relayed"
      BY <2>11 DEF ReadEruda
    <3>. QED BY <3>1 DEF CalmRoute
  <2>. QED BY <1>4, <2>5, <2>6, <2>7, <2>8, <2>9, <2>10, <2>11 DEF RequestStep
<1>. QED BY <1>3, <1>4

\* Every step preserves CalmInv.
LEMMA CalmInvStep ==
  ASSUME TypeInv, MapInv, CalmInv, [HNext]_hvars
  PROVE  CalmInv'
<1>1. ASSUME TypeInv, MapInv, CalmInv, HNext, NEW r \in Reqs, calm'[r] PROVE CalmRoute(r)'
  <2>1. Next /\ Record
    BY <1>1 DEF HNext
  <2>. QED
    BY <1>1, <2>1, CalmStands, CalmStep, RequestSteps DEF TypeInv
<1>2. ASSUME CalmInv, UNCHANGED hvars PROVE CalmInv'
  BY <1>2 DEF hvars, vars, history, registry, handlers, requests, CalmInv, CalmRoute,
              OwnerServes, Owner
<1>. QED BY <1>1, <1>2 DEF CalmInv, CalmRoute

\* CalmInv holds in every reachable state.
THEOREM CalmInvariant == HSpec => []CalmInv
<1>1. HInit => CalmInv
  BY DEF HInit, CalmInv, CalmRoute
<1>2. TypeInv /\ MapInv /\ CalmInv /\ [HNext]_hvars => CalmInv'
  BY CalmInvStep
<1>3. HSpec => []TypeInv /\ []MapInv
  BY HistoryIsOnlyHistory, TypeInvariant, MapInvariant, PTL
<1>. QED
  BY <1>1, <1>2, <1>3, PTL DEF HSpec

\* While one established tunnel owns the host, nothing the other developers do
\* costs a request its answer.
THEOREM CalmHostAlwaysServes == HSpec => []CalmHostServes
<1>1. CalmInv => CalmHostServes
  BY DEF CalmInv, CalmRoute, CalmHostServes
<1>. QED BY <1>1, CalmInvariant, PTL
-----------------------------------------------------------------------------
(***************************************************************************)
(* A tunnel is missing only on the way between the two maps.  A request    *)
(* has read a registered session; the tunnel of such a session is in its   *)
(* map but for the two moments that between records.                       *)
(***************************************************************************)
BetweenRoute(r) ==
  /\ stage[r] = "lookup" => between[r] \/ tunnels[picked[r]] # NoConn
  /\ stage[r] \in {"open", "await", "auth", "eruda"} => via[r] # NoConn
  /\ answer[r] = "502" /\ via[r] = NoConn => between[r]

BetweenInv == \A r \in Reqs : BetweenRoute(r)

\* A registered session whose handler is not on its way has its tunnel.
LEMMA RegisteredHasTunnel ==
  ASSUME TypeOK, MapInv, NEW i \in Ids, Registered(i), ~InOneMap(i)
  PROVE  tunnels[i] # NoConn
<1>1. sessions[i] \in Conns
  BY DEF TypeOK, RegistryTypeOK, Registered
<1>2. /\ sid[sessions[i]] = i
      /\ \/ task[sessions[i]] \in {"reply", "serving"}
         \/ task[sessions[i]] = "failed" /\ tunnels[i] = sessions[i]
  BY DEF MapInv, SessionsAccounted, InOneMap
<1>3. CASE task[sessions[i]] \in {"reply", "serving"}
  <2>1. tunnels[sid[sessions[i]]] = sessions[i]
    BY <1>1, <1>3 DEF MapInv, HandlerKeepsItsEntries
  <2>. QED BY <1>1, <1>2, <2>1, NoConnAssumption
<1>. QED BY <1>1, <1>2, <1>3, NoConnAssumption

\* A session that has its tunnel stays registered.
LEMMA TunnelKeepsSession ==
  ASSUME TypeOK, MapInv, Next, NEW i \in Ids, tunnels[i] # NoConn
  PROVE  Registered(i)'
<1> USE NoConnAssumption DEF TypeOK, RegistryTypeOK, TunnelTypeOK
<1>1. sessions[i] # NoConn
  BY DEF MapInv, RegistryCoversTunnels
<1>2. CASE UNCHANGED registry
  BY <1>1, <1>2 DEF registry, Registered
<1>3. ASSUME NEW c \in Conns, NEW j \in Ids, RegisterSession(j, c) PROVE Registered(i)'
  BY <1>1, <1>3 DEF RegisterSession, Registered
<1>4. ASSUME NEW j \in Ids, CloseSession(j), tunnels[j] = NoConn PROVE Registered(i)'
  BY <1>1, <1>4 DEF CloseSession, Registered
<1>. QED BY <1>2, <1>3, <1>4, RegistrySteps

\* A request that stands still.
LEMMA BetweenStands ==
  ASSUME TypeInv, MapInv, TypeInv', MapInv', BetweenInv, Next, Record, NEW r \in Reqs,
         stage'[r] = stage[r], picked'[r] = picked[r], via'[r] = via[r], answer'[r] = answer[r]
  PROVE  BetweenRoute(r)'
<1>1. BetweenRoute(r)
  BY DEF BetweenInv
<1>2. between[r] => between'[r]
  BY DEF Record
<1>3. ASSUME stage[r] = "lookup", ~between'[r] PROVE tunnels'[picked[r]] # NoConn
  <2>1. picked[r] \in Ids /\ tunnels[picked[r]] # NoConn
    BY <1>1, <1>2, <1>3 DEF BetweenRoute, TypeInv, PickedBeforeLookup
  <2>2. Registered(picked[r])'
    <3>1. sessions'[picked[r]] # NoConn
      BY <2>1, TunnelKeepsSession DEF TypeInv, Registered
    <3>. QED BY <3>1 DEF Registered
  <2>3. ~InOneMap(picked[r])'
    BY <1>3 DEF Record
  <2>4. ASSUME NEW i \in Ids, Registered(i)', ~InOneMap(i)' PROVE tunnels'[i] # NoConn
    <3>1. sessions'[i] \in Conns
      BY <2>4 DEF TypeInv, TypeOK, RegistryTypeOK, Registered
    <3>2. /\ sid'[sessions'[i]] = i
          /\ \/ task'[sessions'[i]] \in {"reply", "serving"}
             \/ task'[sessions'[i]] = "failed" /\ tunnels'[i] = sessions'[i]
      BY <2>4 DEF MapInv, SessionsAccounted, InOneMap
    <3>3. CASE task'[sessions'[i]] \in {"reply", "serving"}
      <4>1. tunnels'[sid'[sessions'[i]]] = sessions'[i]
        BY <3>1, <3>3 DEF MapInv, HandlerKeepsItsEntries
      <4>. QED BY <3>1, <3>2, <4>1, NoConnAssumption
    <3>. QED BY <3>1, <3>2, <3>3, NoConnAssumption
  <2>5. picked'[r] = picked[r]
    OBVIOUS
  <2>. QED BY <2>1, <2>2, <2>3, <2>4, <2>5 DEF Registered, InOneMap
<1>. QED BY <1>1, <1>2, <1>3 DEF BetweenRoute

\* A step of the request.
LEMMA BetweenStep ==
  ASSUME TypeInv, MapInv, BetweenInv, Record, NEW r \in Reqs,
         RequestArrives(r) \/ RequestStep(r)
  PROVE  BetweenRoute(r)'
<1> USE NoConnAssumption
<1> USE DEF TypeInv, TypeOK, TunnelTypeOK, AnswerWith, MoveTo, BetweenRoute
<1>1. BetweenRoute(r) /\ (between[r] => between'[r])
  BY DEF BetweenInv, Record
<1>2. CASE RequestArrives(r)
  BY <1>1, <1>2 DEF RequestArrives
<1>3. CASE ReadCurrent(r)
  BY <1>1, <1>3 DEF ReadCurrent
<1>4. CASE GetSession(r)
  <2>1. UNCHANGED <<registry, tunnelMap, handlers, picked, via>> /\ stage[r] = "session"
    BY <1>4 DEF GetSession
  <2>2. CASE Registered(picked[r])
    <3>1. stage'[r] = "lookup" /\ answer'[r] = answer[r]
      BY <1>4, <2>2 DEF GetSession
    <3>2. picked[r] \in Ids
      BY <2>1 DEF PickedBeforeLookup
    <3>3. InOneMap(picked[r])' <=> InOneMap(picked[r])
      BY <2>1 DEF InOneMap, Registered, registry, handlers
    <3>4. between'[r] \/ ~InOneMap(picked[r])
      BY <3>1, <3>3 DEF Record
    <3>5. between'[r] \/ tunnels[picked[r]] # NoConn
      BY <2>2, <3>2, <3>4, RegisteredHasTunnel
    <3>. QED BY <1>1, <2>1, <3>1, <3>5 DEF tunnelMap
  <2>3. CASE ~Registered(picked[r])
    <3>1. stage'[r] = "done" /\ answer'[r] = "404"
      BY <1>4, <2>3 DEF GetSession
    <3>. QED BY <3>1
  <2>. QED BY <2>2, <2>3
<1>5. CASE FindTunnel(r)
  <2>1. CASE tunnels[picked[r]] = NoConn
    <3>1. stage'[r] = "done" /\ stage[r] = "lookup"
      BY <1>5, <2>1 DEF FindTunnel
    <3>. QED BY <1>1, <2>1, <3>1
  <2>2. CASE tunnels[picked[r]] # NoConn
    <3>1. stage'[r] = "open" /\ via'[r] # NoConn
      BY <1>5, <2>2 DEF FindTunnel
    <3>. QED BY <3>1
  <2>. QED BY <2>1, <2>2
<1>6. CASE SendRequest(r)
  <2>1. via[r] # NoConn /\ via' = via /\ stage'[r] # "lookup"
    BY <1>1, <1>6 DEF SendRequest
  <2>. QED BY <2>1
<1>7. CASE ReadResponse(r)
  <2>1. via[r] # NoConn /\ via' = via /\ stage'[r] # "lookup"
    BY <1>1, <1>7 DEF ReadResponse
  <2>. QED BY <2>1
<1>8. CASE ReadAuthMode(r) \/ ReadEruda(r)
  <2>1. via[r] # NoConn /\ via' = via /\ stage'[r] # "lookup"
    BY <1>1, <1>8 DEF ReadAuthMode, ReadEruda
  <2>. QED BY <2>1
<1>. QED BY <1>2, <1>3, <1>4, <1>5, <1>6, <1>7, <1>8 DEF RequestStep

\* Every step preserves BetweenInv.
LEMMA BetweenInvStep ==
  ASSUME TypeInv, MapInv, TypeInv', MapInv', BetweenInv, [HNext]_hvars
  PROVE  BetweenInv'
<1>1. ASSUME HNext, NEW r \in Reqs PROVE BetweenRoute(r)'
  <2>1. Next /\ Record
    BY <1>1 DEF HNext
  <2>. QED BY <2>1, BetweenStands, BetweenStep, RequestSteps DEF TypeInv
<1>2. ASSUME UNCHANGED hvars PROVE BetweenInv'
  BY <1>2 DEF hvars, vars, history, tunnelMap, requests, BetweenInv, BetweenRoute
<1>. QED BY <1>1, <1>2 DEF BetweenInv

\* A request is refused for want of a tunnel only when its session was, at
\* some moment since, between the two maps.
THEOREM MissingTunnelAlwaysHasACause == HSpec => []MissingTunnelHasACause
<1>1. HInit => BetweenInv
  BY DEF HInit, Init, BetweenInv, BetweenRoute
<1>2. TypeInv /\ MapInv /\ (TypeInv /\ MapInv)' /\ BetweenInv /\ [HNext]_hvars => BetweenInv'
  BY BetweenInvStep
<1>3. HSpec => []TypeInv /\ []MapInv
  BY HistoryIsOnlyHistory, TypeInvariant, MapInvariant, PTL
<1>4. BetweenInv => MissingTunnelHasACause
  BY DEF BetweenInv, BetweenRoute, MissingTunnelHasACause
<1>. QED
  BY <1>1, <1>2, <1>3, <1>4, PTL DEF HSpec
-----------------------------------------------------------------------------
(***************************************************************************)
(* The entry at the front of a map with a single one is the owner's own.   *)
(***************************************************************************)

\* The front of the map is one of its entries, and nothing when there is none.
FrontIsAnEntry ==
  /\ Entries(tunnels) = {} => front = NoId
  /\ Entries(tunnels) # {} => front \in Entries(tunnels)

\* A Hello has been read, and is not sent again, once its connection has got
\* beyond it, has a tunnel, or has been found for a request.
HelloStands ==
  /\ \A c \in Conns : task[c] \in {"register", "insert"} => hello[c] \in Options
  /\ \A i \in Ids : tunnels[i] # NoConn => hello[tunnels[i]] \in Options
  /\ \A r \in Reqs : via[r] # NoConn => hello[via[r]] \in Options

OptionsInv == FrontIsAnEntry /\ HelloStands

\* No step takes back a Hello that has been sent.
LEMMA HelloSentOnce ==
  ASSUME TypeOK, Next, NEW c \in Conns, hello[c] \in Options
  PROVE  hello'[c] = hello[c]
<1> USE NotAHelloAssumption
<1> USE DEF TypeOK
<1>1. ASSUME NEW d \in Conns, CliSendsHello(d) PROVE hello'[c] = hello[c]
  BY <1>1 DEF CliSendsHello
<1>2. ASSUME NEW d \in Conns,
             \/ Accept(d) \/ CliGoesAway(d) \/ ServerNoticesLoss(d) \/ HandlerStep(d)
      PROVE  hello' = hello
  BY <1>2 DEF Accept, CliGoesAway, ServerNoticesLoss, HandlerStep, ReadHello, OpenSession,
              InsertTunnel, Reply, DropTunnel, ForgetSession
<1>3. ASSUME NEW r \in Reqs, RequestArrives(r) \/ RequestStep(r) \/ CliAnswers(r)
      PROVE  hello' = hello
  BY <1>3 DEF RequestArrives, RequestStep, CliAnswers, ReadCurrent, GetSession, FindTunnel,
              SendRequest, ReadResponse, ReadAuthMode, ReadEruda, handlers
<1>. QED BY <1>1, <1>2, <1>3 DEF Next

\* What a step may do to the tunnel map.
LEMMA TunnelSteps ==
  ASSUME Next
  PROVE  \/ UNCHANGED tunnelMap
         \/ \E c \in Conns :
              /\ UNCHANGED <<requests, hello>>
              /\ \/ task[c] = "insert" /\ InsertEntry(sid[c], c)
                 \/ task[c] = "serving" /\ RemoveEntry(sid[c])
<1>1. ASSUME NEW c \in Conns,
             \/ Accept(c) \/ CliSendsHello(c) \/ CliGoesAway(c) \/ ServerNoticesLoss(c)
             \/ ReadHello(c) \/ OpenSession(c) \/ Reply(c) \/ ForgetSession(c)
      PROVE  UNCHANGED tunnelMap
  BY <1>1 DEF Accept, CliSendsHello, CliGoesAway, ServerNoticesLoss, ReadHello, OpenSession,
              Reply, ForgetSession
<1>2. ASSUME NEW r \in Reqs, RequestArrives(r) \/ RequestStep(r) \/ CliAnswers(r)
      PROVE  UNCHANGED tunnelMap
  BY <1>2 DEF RequestArrives, RequestStep, CliAnswers, ReadCurrent, GetSession, FindTunnel,
              SendRequest, ReadResponse, ReadAuthMode, ReadEruda
<1>. QED
  BY <1>1, <1>2 DEF Next, HandlerStep, InsertTunnel, DropTunnel

\* Every step of the server preserves OptionsInv.
LEMMA OptionsStep ==
  ASSUME TypeInv, MapInv, OptionsInv, [Next]_vars
  PROVE  OptionsInv'
<1> USE NoIdAssumption, NoConnAssumption
<1>1. ASSUME TypeInv, MapInv, OptionsInv, Next PROVE OptionsInv'
  <2> USE DEF TypeInv, TypeOK, TunnelTypeOK
  <2>1. FrontIsAnEntry'
    <3>1. CASE UNCHANGED tunnelMap
      BY <1>1, <3>1 DEF OptionsInv, FrontIsAnEntry, Entries, tunnelMap
    <3>2. ASSUME NEW c \in Conns, task[c] = "insert", InsertEntry(sid[c], c)
          PROVE  FrontIsAnEntry'
      BY <3>2 DEF InsertEntry, FrontIsAnEntry, Entries
    <3>3. ASSUME NEW c \in Conns, task[c] = "serving", RemoveEntry(sid[c])
          PROVE  FrontIsAnEntry'
      <4>1. sid[c] \in Ids /\ tunnels[sid[c]] = c
        BY <1>1, <3>3 DEF MapInv, HandlerKeepsItsEntries
      <4>2. front \in Entries(tunnels)
        BY <1>1, <4>1 DEF OptionsInv, FrontIsAnEntry, Entries
      <4>3. Entries(tunnels') = Entries(tunnels) \ {sid[c]}
        BY <1>1, <3>3, <4>1 DEF RemoveEntry, Entries
      <4>. QED BY <3>3, <4>2, <4>3 DEF RemoveEntry, FrontIsAnEntry
    <3>. QED BY <1>1, <3>1, <3>2, <3>3, TunnelSteps
  <2>2. ASSUME NEW c \in Conns, task'[c] \in {"register", "insert"}
        PROVE  hello'[c] \in Options
    <3>1. hello[c] \in Options
      BY <1>1, <2>2 DEF OptionsInv, HelloStands, Next, Accept, CliSendsHello, CliGoesAway,
         ServerNoticesLoss, HandlerStep, ReadHello, OpenSession, InsertTunnel, Reply,
         DropTunnel, ForgetSession, AbandonConnection, RequestArrives, RequestStep,
         CliAnswers, ReadCurrent, GetSession, FindTunnel, SendRequest, ReadResponse,
         ReadAuthMode, ReadEruda, handlers
    <3>. QED BY <1>1, <3>1, HelloSentOnce
  <2>3. ASSUME NEW i \in Ids, tunnels'[i] # NoConn
        PROVE  hello'[tunnels'[i]] \in Options
    <3>1. CASE UNCHANGED tunnelMap
      BY <1>1, <2>3, <3>1, HelloSentOnce DEF OptionsInv, HelloStands, tunnelMap
    <3>2. ASSUME NEW c \in Conns, hello' = hello, task[c] = "insert", InsertEntry(sid[c], c)
          PROVE  hello'[tunnels'[i]] \in Options
      BY <1>1, <2>3, <3>2 DEF InsertEntry, OptionsInv, HelloStands
    <3>3. ASSUME NEW c \in Conns, hello' = hello, task[c] = "serving", RemoveEntry(sid[c])
          PROVE  hello'[tunnels'[i]] \in Options
      BY <1>1, <2>3, <3>3 DEF RemoveEntry, OptionsInv, HelloStands
    <3>. QED BY <1>1, <3>1, <3>2, <3>3, TunnelSteps
  <2>4. ASSUME NEW r \in Reqs, via'[r] # NoConn
        PROVE  hello'[via'[r]] \in Options
    <3>1. CASE via'[r] = via[r]
      BY <1>1, <2>4, <3>1, HelloSentOnce DEF OptionsInv, HelloStands
    <3>2. CASE via'[r] # via[r]
      <4>1. FindTunnel(r)
        BY <1>1, <3>2, RequestSteps DEF RequestArrives, RequestStep, ReadCurrent, GetSession,
           SendRequest, ReadResponse, ReadAuthMode, ReadEruda
      <4>2. picked[r] \in Ids /\ via'[r] = tunnels[picked[r]] /\ hello' = hello
        BY <1>1, <3>2, <4>1 DEF FindTunnel, PickedBeforeLookup, handlers
      <4>. QED BY <1>1, <2>4, <4>2 DEF OptionsInv, HelloStands
    <3>. QED BY <3>1, <3>2
  <2>. QED BY <2>1, <2>2, <2>3, <2>4 DEF OptionsInv, HelloStands
<1>2. ASSUME OptionsInv, UNCHANGED vars PROVE OptionsInv'
  BY <1>2 DEF vars, tunnelMap, handlers, requests, OptionsInv, FrontIsAnEntry, HelloStands,
              Entries
<1>. QED BY <1>1, <1>2

\* OptionsInv is an invariant of Relay.
THEOREM OptionsInvariant == Spec => []OptionsInv
<1> USE NoIdAssumption, NoConnAssumption
<1>1. Init => OptionsInv
  BY DEF Init, TunnelInit, OptionsInv, FrontIsAnEntry, HelloStands, Entries
<1>2. TypeInv /\ MapInv /\ OptionsInv /\ [Next]_vars => OptionsInv'
  BY OptionsStep
<1>. QED
  BY <1>1, <1>2, TypeInvariant, MapInvariant, PTL DEF Spec
-----------------------------------------------------------------------------
\* What holds of a request whose developer's tunnel has been the only one since
\* it was found.
SoleRoute(r) ==
  /\ stage[r] \in {"open", "await", "auth", "eruda"} => via[r] # NoConn
  /\ stage[r] \in {"idle", "resolve", "session", "lookup"} => via[r] = NoConn
  /\ answer[r] = "relayed" => stage[r] = "done" /\ via[r] # NoConn
  /\ sole[r] /\ via[r] # NoConn /\ stage[r] # "done" => OnlyTunnel(via[r])
  /\ sole[r] /\ stage[r] = "eruda" => rewrite[r] = (hello[via[r]].auth = "cookie")
  /\ sole[r] /\ answer[r] = "relayed" =>
       /\ rewrite[r] = (hello[via[r]].auth = "cookie")
       /\ inject[r] = ~hello[via[r]].noEruda

SoleInv == \A r \in Reqs : SoleRoute(r)

\* With a single entry in the map, the options in force are its developer's.
LEMMA OnlyTunnelInForce ==
  ASSUME FrontIsAnEntry, NEW c \in Conns, OnlyTunnel(c)
  PROVE  OptionsInForce = hello[c]
<1>1. PICK i \in Ids : Entries(tunnels) = {i} /\ tunnels[i] = c
  BY DEF OnlyTunnel
<1>2. front = i
  BY <1>1 DEF FrontIsAnEntry
<1>. QED BY <1>1, <1>2, NoIdAssumption DEF OptionsInForce

\* A step that is not the request's own changes nothing it has decided.
LEMMA TreatmentStands ==
  ASSUME Next, TypeOK, NEW r \in Reqs
  PROVE  \/ rewrite'[r] = rewrite[r] /\ inject'[r] = inject[r]
         \/ RequestStep(r)
<1> USE DEF TypeOK
<1>1. ASSUME NEW c \in Conns,
             \/ Accept(c) \/ CliSendsHello(c) \/ CliGoesAway(c) \/ ServerNoticesLoss(c)
             \/ HandlerStep(c)
      PROVE  UNCHANGED <<rewrite, inject>>
  BY <1>1 DEF Accept, CliSendsHello, CliGoesAway, ServerNoticesLoss, HandlerStep, requests,
              ReadHello, OpenSession, InsertTunnel, Reply, DropTunnel, ForgetSession
<1>2. ASSUME NEW q \in Reqs,
             \/ RequestArrives(q) \/ CliAnswers(q) \/ ReadCurrent(q) \/ GetSession(q)
             \/ FindTunnel(q) \/ SendRequest(q) \/ ReadResponse(q)
      PROVE  UNCHANGED <<rewrite, inject>>
  BY <1>2 DEF RequestArrives, CliAnswers, ReadCurrent, GetSession, FindTunnel, SendRequest,
              ReadResponse
<1>3. ASSUME NEW q \in Reqs, q # r, ReadAuthMode(q) \/ ReadEruda(q)
      PROVE  rewrite'[r] = rewrite[r] /\ inject'[r] = inject[r]
  BY <1>3 DEF ReadAuthMode, ReadEruda
<1>. QED BY <1>1, <1>2, <1>3 DEF Next, RequestStep

\* Once a request is routed, sole is never regained.
LEMMA SoleRecorded ==
  ASSUME Record, NEW r \in Reqs, sole'[r], via[r] # NoConn, via'[r] # NoConn
  PROVE  sole[r]
<1>1. CASE stage[r] = "done"
  BY <1>1 DEF Record
<1>2. CASE stage[r] # "done"
  BY <1>2 DEF Record
<1>. QED BY <1>1, <1>2

\* Every step preserves SoleInv.
LEMMA SoleStep ==
  ASSUME TypeInv, OptionsInv, SoleInv, [HNext]_hvars
  PROVE  SoleInv'
<1> USE NoConnAssumption
<1>1. ASSUME TypeInv, OptionsInv, SoleInv, HNext, NEW r \in Reqs PROVE SoleRoute(r)'
  <2>1. Next /\ Record /\ TypeOK /\ SoleRoute(r) /\ FrontIsAnEntry
    BY <1>1 DEF HNext, TypeInv, OptionsInv, SoleInv
  <2>2. via[r] # NoConn => via[r] \in Conns /\ hello'[via[r]] = hello[via[r]]
    BY <1>1, <2>1, HelloSentOnce DEF OptionsInv, HelloStands, TypeOK
  <2>3. CASE /\ stage'[r] = stage[r] /\ picked'[r] = picked[r]
             /\ via'[r] = via[r] /\ answer'[r] = answer[r]
             /\ rewrite'[r] = rewrite[r] /\ inject'[r] = inject[r]
    <3>1. sole'[r] /\ via[r] # NoConn => sole[r]
      BY <2>1, <2>3, SoleRecorded
    <3>2. sole'[r] /\ via'[r] # NoConn /\ stage'[r] # "done" => OnlyTunnel(via[r])'
      BY <2>1, <2>3 DEF Record
    <3>. QED BY <2>1, <2>2, <2>3, <3>1, <3>2 DEF SoleRoute
  <2>4. CASE RequestArrives(r) \/ RequestStep(r)
    <3> USE DEF TypeOK, MoveTo, AnswerWith
    <3>1. UNCHANGED <<tunnelMap, handlers>>
      BY <2>4 DEF RequestArrives, RequestStep, ReadCurrent, GetSession, FindTunnel,
                  SendRequest, ReadResponse, ReadAuthMode, ReadEruda
    <3>2. \A c \in Conns : OnlyTunnel(c)' <=> OnlyTunnel(c)
      BY <3>1 DEF tunnelMap, OnlyTunnel, Entries
    <3>3. CASE RequestArrives(r) \/ ReadCurrent(r) \/ GetSession(r)
      <4>1. /\ via'[r] = NoConn /\ answer'[r] # "relayed"
            /\ stage'[r] \in {"resolve", "session", "lookup", "done"}
        BY <2>1, <3>3 DEF RequestArrives, ReadCurrent, GetSession, SoleRoute
      <4>. QED BY <4>1 DEF SoleRoute
    <3>4. CASE FindTunnel(r)
      <4>1. /\ stage'[r] \in {"open", "done"} /\ answer'[r] # "relayed"
            /\ stage'[r] = "open" => via'[r] \in Conns
        <5>1. CASE tunnels[picked[r]] = NoConn
          BY <2>1, <3>4, <5>1 DEF FindTunnel, SoleRoute
        <5>2. CASE tunnels[picked[r]] # NoConn
          BY <1>1, <2>1, <3>4, <5>2
          DEF FindTunnel, SoleRoute, TypeInv, PickedBeforeLookup, TunnelTypeOK
        <5>. QED BY <5>1, <5>2
      <4>2. sole'[r] /\ stage'[r] = "open" => OnlyTunnel(via'[r])
        BY <2>1, <3>4, <4>1 DEF Record, SoleRoute, FindTunnel
      <4>3. sole'[r] /\ stage'[r] = "open" => OnlyTunnel(via[r])'
        BY <3>2, <4>1, <4>2
      <4>. QED BY <4>1, <4>3 DEF SoleRoute
    <3>5. CASE SendRequest(r) \/ ReadResponse(r)
      <4>1. /\ via'[r] = via[r] /\ via[r] # NoConn /\ stage[r] # "done"
            /\ stage'[r] \in {"await", "auth", "done"} /\ answer'[r] # "relayed"
        BY <2>1, <3>5 DEF SendRequest, ReadResponse, SoleRoute
      <4>2. sole'[r] => OnlyTunnel(via[r])'
        BY <2>1, <4>1 DEF Record
      <4>. QED BY <4>1, <4>2 DEF SoleRoute
    <3>6. CASE ReadAuthMode(r)
      <4>1. /\ via' = via /\ via[r] \in Conns /\ stage[r] = "auth"
            /\ stage'[r] = "eruda" /\ answer'[r] # "relayed"
            /\ rewrite'[r] = (OptionsInForce.auth = "cookie")
        BY <2>1, <3>6 DEF ReadAuthMode, SoleRoute
      <4>2. sole'[r] => sole[r] /\ OnlyTunnel(via[r])'
        BY <2>1, <4>1 DEF Record
      <4>3. sole'[r] => OptionsInForce = hello[via[r]]
        BY <2>1, <3>2, <4>1, <4>2, OnlyTunnelInForce
      <4>. QED BY <2>2, <4>1, <4>2, <4>3 DEF SoleRoute
    <3>7. CASE ReadEruda(r)
      <4>1. /\ via' = via /\ via[r] \in Conns /\ stage[r] = "eruda"
            /\ stage'[r] = "done" /\ rewrite' = rewrite
            /\ inject'[r] = ~OptionsInForce.noEruda
        BY <2>1, <3>7 DEF ReadEruda, SoleRoute
      <4>2. sole'[r] => sole[r] /\ OnlyTunnel(via[r])'
        BY <2>1, <4>1 DEF Record
      <4>3. sole'[r] => OptionsInForce = hello[via[r]]
        BY <2>1, <3>2, <4>1, <4>2, OnlyTunnelInForce
      <4>. QED BY <2>1, <2>2, <4>1, <4>2, <4>3 DEF SoleRoute
    <3>. QED BY <2>4, <3>3, <3>4, <3>5, <3>6, <3>7 DEF RequestStep
  <2>. QED BY <2>1, <2>3, <2>4, RequestSteps, TreatmentStands
<1>2. ASSUME SoleInv, UNCHANGED hvars PROVE SoleInv'
  BY <1>2 DEF hvars, vars, history, tunnelMap, handlers, requests, SoleInv, SoleRoute,
              OnlyTunnel, Entries
<1>. QED BY <1>1, <1>2 DEF SoleInv

\* SoleInv holds in every reachable state.
THEOREM SoleInvariant == HSpec => []SoleInv
<1> USE NoConnAssumption
<1>1. HInit => SoleInv
  BY DEF HInit, Init, SoleInv, SoleRoute
<1>2. TypeInv /\ OptionsInv /\ SoleInv /\ [HNext]_hvars => SoleInv'
  BY SoleStep
<1>3. HSpec => []TypeInv /\ []OptionsInv
  BY HistoryIsOnlyHistory, TypeInvariant, OptionsInvariant, PTL
<1>. QED
  BY <1>1, <1>2, <1>3, PTL DEF HSpec

\* Whatever any number of developers ask for, one whose tunnel is the only one
\* gets what they asked for.
THEOREM SoleTunnelOptionsAlwaysHonoured == HSpec => []SoleTunnelOptionsHonoured
<1>1. SoleInv => SoleTunnelOptionsHonoured
  BY DEF SoleInv, SoleRoute, SoleTunnelOptionsHonoured
<1>. QED BY <1>1, SoleInvariant, PTL
=============================================================================
