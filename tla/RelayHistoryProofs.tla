------------------------- MODULE RelayHistoryProofs -------------------------
(***************************************************************************)
(* Proofs about what a browser gets, from the history of its request: who  *)
(* sees it, why it fails, and that the server keeps the promise of         *)
(* PublicHost.                                                             *)
(***************************************************************************)
EXTENDS RelayHistory, RelayProofs

\* The history variables restrict nothing: with them, the server still does
\* what Relay says, and what is proved of Relay holds.
THEOREM HistoryIsOnlyHistory == HSpec => Spec
<1>1. HInit => Init
  BY DEF HInit
<1>2. [HNext]_hvars => [Next]_vars
  BY DEF HNext, hvars
<1>. QED
  BY <1>1, <1>2, PTL DEF HSpec, Spec

\* What a step records of a request that is under way.
LEMMA OwnersGrow ==
  ASSUME Record, NEW r \in Reqs
  PROVE  /\ owners[r] \subseteq owners'[r]
         /\ stage'[r] # "idle" /\ stage[r] # "done" => {Owner, Owner'} \subseteq owners'[r]
BY DEF Record

\* What a step may do to the registry: nothing, or one of its operations on
\* behalf of a handler.
LEMMA RegistrySteps ==
  ASSUME MapInv, Next
  PROVE  \/ UNCHANGED registry
         \/ /\ UNCHANGED requests
            /\ \E c \in Conns, i \in Ids :
                 \/ RegisterSession(i, c) /\ task[c] = "register"
                 \/ /\ CloseSession(i) /\ sid[c] = i /\ sessions[i] = c
                    /\ tunnels[i] = NoConn
<1>1. ASSUME NEW c \in Conns, OpenSession(c)
      PROVE  \/ UNCHANGED registry
             \/ UNCHANGED requests /\ \E i \in Ids : RegisterSession(i, c) /\ task[c] = "register"
  BY <1>1 DEF OpenSession
<1>2. ASSUME NEW c \in Conns, ForgetSession(c)
      PROVE  /\ UNCHANGED requests
             /\ \E i \in Ids : /\ CloseSession(i) /\ sid[c] = i /\ sessions[i] = c
                              /\ tunnels[i] = NoConn
  BY <1>2 DEF ForgetSession, MapInv, HandlerKeepsItsEntries
<1>3. ASSUME NEW c \in Conns,
             \/ Accept(c) \/ CliSendsHello(c) \/ CliGoesAway(c) \/ ServerNoticesLoss(c)
             \/ ReadHello(c) \/ InsertTunnel(c) \/ Reply(c) \/ DropTunnel(c)
      PROVE  UNCHANGED registry
  BY <1>3 DEF Accept, CliSendsHello, CliGoesAway, ServerNoticesLoss, ReadHello,
              InsertTunnel, Reply, DropTunnel
<1>4. ASSUME NEW r \in Reqs, RequestArrives(r) \/ RequestStep(r) \/ CliAnswers(r)
      PROVE  UNCHANGED registry
  BY <1>4 DEF RequestArrives, RequestStep, CliAnswers, ReadCurrent, GetSession,
              FindTunnel, SendRequest, ReadResponse, ReadAuthMode, ReadEruda
<1>. QED
  BY <1>1, <1>2, <1>3, <1>4 DEF Next, HandlerStep

\* What a step may do to a request: nothing that a route depends on, or one
\* step of the handling of that request.
LEMMA RequestSteps ==
  ASSUME Next, TypeOK, NEW r \in Reqs
  PROVE  \/ /\ stage'[r] = stage[r] /\ picked'[r] = picked[r]
            /\ via'[r] = via[r] /\ answer'[r] = answer[r]
         \/ RequestArrives(r) \/ RequestStep(r)
<1> USE DEF TypeOK, AnswerWith, MoveTo
<1>1. ASSUME NEW c \in Conns,
             \/ Accept(c) \/ CliSendsHello(c) \/ CliGoesAway(c) \/ ServerNoticesLoss(c)
             \/ HandlerStep(c)
      PROVE  UNCHANGED requests
  BY <1>1 DEF Accept, CliSendsHello, CliGoesAway, ServerNoticesLoss, HandlerStep,
              ReadHello, OpenSession, InsertTunnel, Reply, DropTunnel, ForgetSession
<1>2. ASSUME NEW q \in Reqs, CliAnswers(q)
      PROVE  UNCHANGED <<stage, picked, via, answer>>
  BY <1>2 DEF CliAnswers
<1>3. ASSUME NEW q \in Reqs, q # r, RequestArrives(q)
      PROVE  /\ stage'[r] = stage[r] /\ picked'[r] = picked[r]
             /\ via'[r] = via[r] /\ answer'[r] = answer[r]
  BY <1>3 DEF RequestArrives
<1>4. ASSUME NEW q \in Reqs, q # r, RequestStep(q)
      PROVE  /\ stage'[r] = stage[r] /\ picked'[r] = picked[r]
             /\ via'[r] = via[r] /\ answer'[r] = answer[r]
  <2>1. CASE ReadCurrent(q) BY <1>4, <2>1 DEF ReadCurrent
  <2>2. CASE GetSession(q) BY <1>4, <2>2 DEF GetSession
  <2>3. CASE FindTunnel(q) BY <1>4, <2>3 DEF FindTunnel
  <2>4. CASE SendRequest(q) BY <1>4, <2>4 DEF SendRequest
  <2>5. CASE ReadResponse(q) BY <1>4, <2>5 DEF ReadResponse
  <2>6. CASE ReadAuthMode(q) BY <1>4, <2>6 DEF ReadAuthMode
  <2>7. CASE ReadEruda(q) BY <1>4, <2>7 DEF ReadEruda
  <2>. QED BY <1>4, <2>1, <2>2, <2>3, <2>4, <2>5, <2>6, <2>7 DEF RequestStep
<1>. QED
  BY <1>1, <1>2, <1>3, <1>4 DEF Next, requests
-----------------------------------------------------------------------------
(***************************************************************************)
(* Routing.  A request carries an id from one read to the next while the   *)
(* registry changes under it.  What makes the route right in the end is    *)
(* that the id was the owner's when it was read, and that a session is     *)
(* registered again under an id only by becoming the owner.                *)
(***************************************************************************)
Cause(r) == NoConn \in owners[r] \/ \E c, d \in owners[r] : c # d

OwnerRecorded ==
  \A r \in Reqs : stage[r] \notin {"idle", "done"} => Owner \in owners[r]

PickedWasOwner ==
  \A r \in Reqs : stage[r] \in {"session", "lookup"} =>
    IF Registered(picked[r]) THEN sessions[picked[r]] \in owners[r] ELSE Cause(r)

RouteInv ==
  /\ OwnerRecorded
  /\ PickedWasOwner
  /\ RoutedToAnOwner
  /\ NotFoundHasACause

\* A request that stands still while the registry moves keeps its route: the
\* session it has picked is still an owner's, or has closed for a reason.
LEMMA RouteSurvivesRegistry ==
  ASSUME TypeInv, MapInv, RouteInv, Next, Record, NEW r \in Reqs,
         stage[r] \in {"session", "lookup"},
         stage'[r] = stage[r], picked'[r] = picked[r]
  PROVE  IF Registered(picked[r])' THEN sessions'[picked'[r]] \in owners'[r] ELSE Cause(r)'
<1> USE NoIdAssumption, NoConnAssumption
<1> DEFINE i == picked[r]
<1>1. i \in Ids
  BY DEF TypeInv, PickedBeforeLookup
<1>2. owners[r] \subseteq owners'[r] /\ Owner \in owners'[r] /\ Owner' \in owners'[r]
  BY OwnersGrow
<1>3. IF Registered(i) THEN sessions[i] \in owners[r] ELSE Cause(r)
  BY DEF RouteInv, PickedWasOwner
<1>4. Cause(r) => Cause(r)'
  BY <1>2 DEF Cause
<1>5. CASE UNCHANGED registry
  BY <1>2, <1>3, <1>4, <1>5 DEF registry, Registered
<1>6. ASSUME NEW c \in Conns, NEW j \in Ids, RegisterSession(j, c)
      PROVE  IF Registered(i)' THEN sessions'[i] \in owners'[r] ELSE Cause(r)'
  <2>1. CASE i = j
    <3>1. sessions'[i] = c /\ Owner' = c
      BY <1>1, <1>6, <2>1 DEF RegisterSession, Owner, TypeInv, TypeOK, RegistryTypeOK
    <3>. QED BY <1>2, <3>1 DEF Registered
  <2>2. CASE i # j
    <3>1. sessions'[i] = sessions[i]
      BY <1>1, <1>6, <2>2 DEF RegisterSession, TypeInv, TypeOK, RegistryTypeOK
    <3>. QED BY <1>2, <1>3, <1>4, <3>1 DEF Registered
  <2>. QED BY <2>1, <2>2
<1>7. ASSUME NEW c \in Conns, NEW j \in Ids, CloseSession(j), sessions[j] = c
      PROVE  IF Registered(i)' THEN sessions'[i] \in owners'[r] ELSE Cause(r)'
  <2>1. CASE i # j
    <3>1. sessions'[i] = sessions[i]
      BY <1>1, <1>7, <2>1 DEF CloseSession, TypeInv, TypeOK, RegistryTypeOK
    <3>. QED BY <1>2, <1>3, <1>4, <3>1 DEF Registered
  <2>2. CASE i = j
    <3>1. ~Registered(i)' /\ sessions[i] \in owners[r] /\ sessions[i] = c
      BY <1>1, <1>3, <1>7, <2>2 DEF CloseSession, Registered, TypeInv, TypeOK, RegistryTypeOK
    <3>2. CASE current = i
      <4>1. Owner' = NoConn
        BY <1>7, <2>2, <3>2 DEF CloseSession, Owner, Registered
      <4>. QED BY <1>2, <3>1, <4>1 DEF Cause
    <3>3. CASE current = NoId
      <4>1. Owner = NoConn
        BY <3>3 DEF Owner
      <4>. QED BY <1>2, <3>1, <4>1 DEF Cause
    <3>4. CASE current \in Ids /\ current # i
      <4>1. Owner # c
        BY <1>1, <3>1, <3>4 DEF Owner, MapInv, OwnerIsOpen, SessionsAccounted, Registered
      <4>. QED BY <1>2, <3>1, <4>1 DEF Cause
    <3>. QED BY <3>2, <3>3, <3>4 DEF TypeInv, TypeOK, RegistryTypeOK
  <2>. QED BY <2>1, <2>2
<1>. QED
  BY <1>5, <1>6, <1>7, RegistrySteps

\* A request that takes a step of its own, while the registry stands still.
LEMMA RouteSurvivesRequest ==
  ASSUME TypeInv, MapInv, RouteInv, Record, NEW r \in Reqs,
         RequestArrives(r) \/ RequestStep(r)
  PROVE  /\ stage'[r] \in {"session", "lookup"} =>
              IF Registered(picked[r])' THEN sessions'[picked'[r]] \in owners'[r]
                                        ELSE Cause(r)'
         /\ via'[r] # NoConn => via'[r] \in owners'[r]
         /\ answer'[r] = "404" => Cause(r)'
<1> USE NoIdAssumption, NoConnAssumption
<1> USE DEF TypeInv, TypeOK, AnswerWith, MoveTo, RouteInv
<1>1. /\ owners[r] \subseteq owners'[r]
      /\ stage'[r] # "idle" /\ stage[r] # "done" => Owner \in owners'[r]
  BY OwnersGrow
<1>2. Cause(r) => Cause(r)'
  BY <1>1 DEF Cause
<1>3. /\ via[r] # NoConn => via[r] \in owners'[r]
      /\ answer[r] = "404" => Cause(r)'
  BY <1>1, <1>2 DEF RoutedToAnOwner, NotFoundHasACause, Cause
<1>4. UNCHANGED registry
  BY DEF RequestArrives, RequestStep, ReadCurrent, GetSession, FindTunnel, SendRequest,
         ReadResponse, ReadAuthMode, ReadEruda
<1>5. CASE RequestArrives(r)
  BY <1>3, <1>5 DEF RequestArrives
<1>6. CASE ReadCurrent(r)
  <2>1. CASE current = NoId
    <3>1. Owner \in owners'[r] /\ Owner = NoConn
      BY <1>1, <1>6, <2>1 DEF ReadCurrent, Owner
    <3>. QED BY <1>3, <1>6, <2>1, <3>1 DEF ReadCurrent, Cause
  <2>2. CASE current # NoId
    <3>1. /\ stage'[r] = "session" /\ picked'[r] = current /\ UNCHANGED <<via, answer>>
          /\ Owner \in owners'[r] /\ Owner = sessions[current]
      BY <1>1, <1>6, <2>2 DEF ReadCurrent, Owner
    <3>2. Registered(current) /\ Registered(picked[r])'
      BY <1>4, <2>2, <3>1 DEF MapInv, OwnerIsOpen, Registered, registry
    <3>. QED BY <1>3, <1>4, <3>1, <3>2 DEF registry
  <2>. QED BY <2>1, <2>2
<1>7. CASE GetSession(r)
  <2>1. /\ stage[r] = "session" /\ UNCHANGED <<picked, via, sessions>>
        /\ IF Registered(picked[r]) THEN stage'[r] = "lookup" /\ UNCHANGED answer
                                    ELSE stage'[r] = "done" /\ answer'[r] = "404"
    BY <1>7 DEF GetSession, registry
  <2>2. IF Registered(picked[r]) THEN sessions[picked[r]] \in owners'[r] ELSE Cause(r)'
    BY <1>1, <1>2, <2>1 DEF PickedWasOwner
  <2>. QED BY <1>3, <2>1, <2>2 DEF Registered
<1>8. CASE FindTunnel(r)
  <2>1. /\ stage[r] = "lookup" /\ picked[r] \in Ids
        /\ stage'[r] \in {"open", "done"}
        /\ answer'[r] = answer[r] \/ answer'[r] = "502"
        /\ \/ via'[r] = via[r]
           \/ tunnels[picked[r]] # NoConn /\ via'[r] = tunnels[picked[r]]
    <3>1. CASE tunnels[picked[r]] = NoConn
      BY <1>8, <3>1 DEF FindTunnel, PickedBeforeLookup
    <3>2. CASE tunnels[picked[r]] # NoConn
      BY <1>8, <3>2 DEF FindTunnel, PickedBeforeLookup
    <3>. QED BY <3>1, <3>2
  <2>2. tunnels[picked[r]] # NoConn => tunnels[picked[r]] \in owners'[r]
    BY <1>1, <2>1 DEF PickedWasOwner, MapInv, RegistryCoversTunnels, Registered
  <2>. QED BY <1>3, <2>1, <2>2
<1>9. CASE SendRequest(r)
  BY <1>3, <1>9 DEF SendRequest
<1>10. CASE ReadResponse(r)
  BY <1>3, <1>10 DEF ReadResponse
<1>11. CASE ReadAuthMode(r)
  BY <1>3, <1>11 DEF ReadAuthMode
<1>12. CASE ReadEruda(r)
  BY <1>3, <1>12 DEF ReadEruda
<1>. QED
  BY <1>5, <1>6, <1>7, <1>8, <1>9, <1>10, <1>11, <1>12 DEF RequestStep

\* Every step preserves RouteInv.
LEMMA RouteStep ==
  ASSUME TypeInv, MapInv, RouteInv, [HNext]_hvars
  PROVE  RouteInv'
<1> USE NoIdAssumption, NoConnAssumption
<1>1. ASSUME TypeInv, MapInv, RouteInv, HNext PROVE RouteInv'
  <2>1. Next /\ Record
    BY <1>1 DEF HNext
  <2>2. ASSUME NEW r \in Reqs
        PROVE  /\ stage'[r] \in {"session", "lookup"} =>
                    IF Registered(picked[r])' THEN sessions'[picked'[r]] \in owners'[r]
                                              ELSE Cause(r)'
               /\ via'[r] # NoConn => via'[r] \in owners'[r]
               /\ answer'[r] = "404" => Cause(r)'
    <3>1. CASE RequestArrives(r) \/ RequestStep(r)
      BY <1>1, <2>1, <3>1, RouteSurvivesRequest
    <3>2. CASE /\ stage'[r] = stage[r] /\ picked'[r] = picked[r]
               /\ via'[r] = via[r] /\ answer'[r] = answer[r]
      <4>1. stage'[r] \in {"session", "lookup"} =>
               IF Registered(picked[r])' THEN sessions'[picked'[r]] \in owners'[r]
                                         ELSE Cause(r)'
        BY <1>1, <2>1, <3>2, RouteSurvivesRegistry
      <4>2. owners[r] \subseteq owners'[r]
        BY <2>1, OwnersGrow
      <4>. QED
        BY <1>1, <3>2, <4>1, <4>2 DEF RouteInv, RoutedToAnOwner, NotFoundHasACause, Cause
    <3>. QED
      BY <1>1, <2>1, <3>1, <3>2, RequestSteps DEF TypeInv
  <2>3. ASSUME NEW r \in Reqs, stage'[r] \notin {"idle", "done"} PROVE Owner' \in owners'[r]
    <3>1. stage[r] # "done"
      BY <1>1, <2>1, <2>3, RequestSteps
      DEF TypeInv, RequestArrives, RequestStep, ReadCurrent, GetSession, FindTunnel,
          SendRequest, ReadResponse, ReadAuthMode, ReadEruda
    <3>. QED BY <2>1, <2>3, <3>1, OwnersGrow
  <2>4. OwnerRecorded'
    BY <2>3 DEF OwnerRecorded
  <2>5. PickedWasOwner'
    BY <2>2 DEF PickedWasOwner
  <2>6. RoutedToAnOwner'
    BY <2>2 DEF RoutedToAnOwner
  <2>7. NotFoundHasACause'
    BY <2>2 DEF NotFoundHasACause, Cause
  <2>. QED BY <2>4, <2>5, <2>6, <2>7 DEF RouteInv
<1>2. ASSUME RouteInv, UNCHANGED hvars PROVE RouteInv'
  BY <1>2 DEF hvars, vars, history, registry, requests, RouteInv, OwnerRecorded, Owner,
              PickedWasOwner, Registered, RoutedToAnOwner, NotFoundHasACause, Cause
<1>. QED BY <1>1, <1>2

\* RouteInv holds in every reachable state.
THEOREM RouteInvariant == HSpec => []RouteInv
<1> USE NoIdAssumption, NoConnAssumption
<1>1. HInit => RouteInv
  BY DEF HInit, Init, RouteInv, OwnerRecorded, PickedWasOwner, RoutedToAnOwner,
         NotFoundHasACause
<1>2. TypeInv /\ MapInv /\ RouteInv /\ [HNext]_hvars => RouteInv'
  BY RouteStep
<1>3. HSpec => []TypeInv /\ []MapInv
  BY HistoryIsOnlyHistory, TypeInvariant, MapInvariant, PTL
<1>. QED
  BY <1>1, <1>2, <1>3, PTL DEF HSpec

\* No developer ever receives a request of a time when the host was not theirs.
THEOREM RoutedToAnOwnerAlways == HSpec => []RoutedToAnOwner
<1>1. RouteInv => RoutedToAnOwner
  BY DEF RouteInv
<1>. QED BY <1>1, RouteInvariant, PTL

\* A browser that is told there is no session was there when the host had no
\* owner, or when it changed hands.
THEOREM NotFoundAlwaysHasACause == HSpec => []NotFoundHasACause
<1>1. RouteInv => NotFoundHasACause
  BY DEF RouteInv
<1>. QED BY <1>1, RouteInvariant, PTL
-----------------------------------------------------------------------------
(***************************************************************************)
(* The promise of PublicHost.                                              *)
(***************************************************************************)

\* Where a request stands, said once by its stage and once by what PublicHost
\* sees of it.
AskedInv ==
  \A r \in Reqs :
    /\ owners[r] = {} <=> stage[r] = "idle"
    /\ answer[r] = "none" <=> stage[r] # "done"
    /\ stage[r] \in {"idle", "resolve", "session", "lookup"} => via[r] = NoConn
    /\ stage[r] \in {"open", "await", "auth", "eruda"} => via[r] # NoConn

OwnersType == owners \in [Reqs -> SUBSET (Conns \cup {NoConn})]

LEMMA OwnerType ==
  ASSUME TypeInv, MapInv
  PROVE  Owner \in Conns \cup {NoConn}
BY DEF Owner, Registered, TypeInv, TypeOK, RegistryTypeOK, MapInv, OwnerIsOpen

\* What becomes of owners[q] when the stage of q stands still.
LEMMA OwnersOfStill ==
  ASSUME RouteInv, Record, NEW q \in Reqs, stage'[q] = stage[q], Owner' = Owner
  PROVE  owners'[q] = owners[q]
<1>1. CASE stage[q] \in {"idle", "done"}
  BY <1>1 DEF Record
<1>2. CASE stage[q] \notin {"idle", "done"}
  <2>1. owners'[q] = owners[q] \cup {Owner, Owner'}
    BY <1>2 DEF Record
  <2>2. Owner \in owners[q]
    BY <1>2 DEF RouteInv, OwnerRecorded
  <2>. QED BY <2>1, <2>2
<1>. QED BY <1>1, <1>2

\* A request that takes a step: what it does to its own entries, while those
\* of the others and the host stand still.
LEMMA RequestMoves ==
  ASSUME TypeInv, MapInv, RouteInv, AskedInv, OwnersType, Record, NEW r \in Reqs,
         RequestArrives(r) \/ RequestStep(r)
  PROVE  /\ UNCHANGED <<registry, Owner>>
         /\ \A q \in Reqs \ {r} : stage'[q] = stage[q] /\ owners'[q] = owners[q]
         /\ stage' \in [Reqs -> Stages]
         /\ owners' \in [Reqs -> SUBSET (Conns \cup {NoConn})]
         /\ owners'[r] = IF stage[r] = "idle" THEN {Owner} ELSE owners[r]
         /\ \/ /\ stage[r] = "idle" /\ UNCHANGED via
               /\ \/ stage'[r] = "resolve" /\ UNCHANGED answer
                  \/ stage'[r] = "done" /\ answer' = [answer EXCEPT ![r] = "413"]
            \/ /\ stage[r] \in {"resolve", "session"} /\ UNCHANGED via
               /\ \/ stage'[r] \in {"session", "lookup"} /\ UNCHANGED answer
                  \/ stage'[r] = "done" /\ answer' = [answer EXCEPT ![r] = "404"]
            \/ /\ stage[r] = "lookup"
               /\ \/ /\ stage'[r] = "open" /\ UNCHANGED answer
                     /\ \E c \in Conns : via' = [via EXCEPT ![r] = c]
                  \/ /\ stage'[r] = "done" /\ UNCHANGED via
                     /\ answer' = [answer EXCEPT ![r] = "502"]
            \/ /\ stage[r] \in {"open", "await", "auth", "eruda"} /\ UNCHANGED via
               /\ \/ stage'[r] \in {"await", "auth", "eruda"} /\ UNCHANGED answer
                  \/ /\ stage'[r] = "done"
                     /\ \E a \in {"502", "relayed"} : answer' = [answer EXCEPT ![r] = a]
<1> USE NoIdAssumption, NoConnAssumption
<1> USE DEF TypeInv, TypeOK, AnswerWith, MoveTo
<1>1. /\ UNCHANGED registry
      /\ \A q \in Reqs \ {r} : stage'[q] = stage[q]
      /\ stage' \in [Reqs -> Stages]
  <2>1. CASE RequestArrives(r) BY <2>1 DEF RequestArrives, Stages
  <2>2. CASE ReadCurrent(r) BY <2>2 DEF ReadCurrent, Stages
  <2>3. CASE GetSession(r) BY <2>3 DEF GetSession, Stages
  <2>4. CASE FindTunnel(r) BY <2>4 DEF FindTunnel, Stages
  <2>5. CASE SendRequest(r) BY <2>5 DEF SendRequest, Stages
  <2>6. CASE ReadResponse(r) BY <2>6 DEF ReadResponse, Stages
  <2>7. CASE ReadAuthMode(r) BY <2>7 DEF ReadAuthMode, Stages
  <2>8. CASE ReadEruda(r) BY <2>8 DEF ReadEruda, Stages
  <2>. QED BY <2>1, <2>2, <2>3, <2>4, <2>5, <2>6, <2>7, <2>8 DEF RequestStep
<1>2. UNCHANGED Owner
  BY <1>1 DEF registry, Owner, Registered
<1>3. \A q \in Reqs \ {r} : owners'[q] = owners[q]
  BY <1>1, <1>2, OwnersOfStill
<1>4. \/ /\ stage[r] = "idle" /\ UNCHANGED via
         /\ \/ stage'[r] = "resolve" /\ UNCHANGED answer
            \/ stage'[r] = "done" /\ answer' = [answer EXCEPT ![r] = "413"]
      \/ /\ stage[r] \in {"resolve", "session"} /\ UNCHANGED via
         /\ \/ stage'[r] \in {"session", "lookup"} /\ UNCHANGED answer
            \/ stage'[r] = "done" /\ answer' = [answer EXCEPT ![r] = "404"]
      \/ /\ stage[r] = "lookup"
         /\ \/ /\ stage'[r] = "open" /\ UNCHANGED answer
               /\ \E c \in Conns : via' = [via EXCEPT ![r] = c]
            \/ /\ stage'[r] = "done" /\ UNCHANGED via
               /\ answer' = [answer EXCEPT ![r] = "502"]
      \/ /\ stage[r] \in {"open", "await", "auth", "eruda"} /\ UNCHANGED via
         /\ \/ stage'[r] \in {"await", "auth", "eruda"} /\ UNCHANGED answer
            \/ /\ stage'[r] = "done"
               /\ \E a \in {"502", "relayed"} : answer' = [answer EXCEPT ![r] = a]
  <2>1. CASE RequestArrives(r) BY <2>1 DEF RequestArrives
  <2>2. CASE ReadCurrent(r) BY <2>2 DEF ReadCurrent
  <2>3. CASE GetSession(r) BY <2>3 DEF GetSession
  <2>4. CASE FindTunnel(r)
    <3>1. picked[r] \in Ids /\ tunnels[picked[r]] \in Conns \cup {NoConn}
      BY <2>4 DEF FindTunnel, PickedBeforeLookup, TunnelTypeOK
    <3>. QED BY <2>4, <3>1 DEF FindTunnel
  <2>5. CASE SendRequest(r) BY <2>5 DEF SendRequest
  <2>6. CASE ReadResponse(r) BY <2>6 DEF ReadResponse
  <2>7. CASE ReadAuthMode(r) BY <2>7 DEF ReadAuthMode
  <2>8. CASE ReadEruda(r) BY <2>8 DEF ReadEruda
  <2>. QED BY <2>1, <2>2, <2>3, <2>4, <2>5, <2>6, <2>7, <2>8 DEF RequestStep
<1>5. owners'[r] = IF stage[r] = "idle" THEN {Owner} ELSE owners[r]
  <2>1. stage'[r] # "idle" /\ stage[r] # "done"
    BY <1>4
  <2>2. owners'[r] = owners[r] \cup {Owner, Owner'}
    BY <2>1 DEF Record
  <2>3. CASE stage[r] = "idle"
    BY <1>2, <2>2, <2>3 DEF AskedInv
  <2>4. CASE stage[r] # "idle"
    BY <1>2, <2>1, <2>2, <2>4 DEF RouteInv, OwnerRecorded
  <2>. QED BY <2>3, <2>4
<1>6. owners' \in [Reqs -> SUBSET (Conns \cup {NoConn})]
  <2>1. owners' = [q \in Reqs |-> owners'[q]]
    BY DEF Record
  <2>2. \A q \in Reqs : owners'[q] \in SUBSET (Conns \cup {NoConn})
    BY <1>3, <1>5, OwnerType DEF OwnersType
  <2>. QED BY <2>1, <2>2
<1>. QED BY <1>1, <1>2, <1>3, <1>4, <1>5, <1>6

\* The steps of everything else: the host may pass on, the requests stand.
LEMMA HostMoves ==
  ASSUME TypeInv, MapInv, RouteInv, AskedInv, OwnersType, Record, (TypeInv /\ MapInv)',
         UNCHANGED <<stage, via, answer>>
  PROVE  /\ Public!HostPasses
         /\ AskedInv' /\ OwnersType'
<1>1. Owner' \in Conns \cup {NoConn}
  <2>1. (TypeInv /\ MapInv => Owner \in Conns \cup {NoConn})'
    BY OwnerType, PTL
  <2>. QED BY <2>1
<1>2. owners' = [r \in Reqs |-> IF owners[r] # {} /\ answer[r] = "none"
                                THEN owners[r] \cup {Owner'} ELSE owners[r]]
  <2>1. ASSUME NEW r \in Reqs
        PROVE  owners'[r] = IF owners[r] # {} /\ answer[r] = "none"
                            THEN owners[r] \cup {Owner'} ELSE owners[r]
    <3>1. CASE stage[r] \in {"idle", "done"}
      BY <3>1 DEF Record, AskedInv
    <3>2. CASE stage[r] \notin {"idle", "done"}
      <4>1. owners'[r] = owners[r] \cup {Owner, Owner'}
        BY <3>2 DEF Record
      <4>2. Owner \in owners[r]
        BY <3>2 DEF RouteInv, OwnerRecorded
      <4>. QED BY <3>2, <4>1, <4>2 DEF AskedInv
    <3>. QED BY <3>1, <3>2
  <2>2. owners' = [r \in Reqs |-> owners'[r]]
    BY DEF Record
  <2>. QED BY <2>1, <2>2
<1>3. Public!HostPasses
  BY <1>1, <1>2 DEF Public!HostPasses, Public!Waiting
<1>4. AskedInv'
  BY <1>2 DEF AskedInv
<1>5. OwnersType'
  BY <1>1, <1>2 DEF OwnersType
<1>. QED BY <1>3, <1>4, <1>5

\* The steps of a request, each the step of the same name in PublicHost, or
\* nothing that shows outside.
LEMMA RequestKeepsPromise ==
  ASSUME TypeInv, MapInv, RouteInv, RouteInv', AskedInv, OwnersType, Record, NEW r \in Reqs,
         RequestArrives(r) \/ RequestStep(r)
  PROVE  [Public!PublicNext]_Public!pvars /\ AskedInv' /\ OwnersType'
<1> USE NoConnAssumption
<1>1. /\ UNCHANGED Owner
      /\ \A q \in Reqs \ {r} : stage'[q] = stage[q] /\ owners'[q] = owners[q]
      /\ owners' \in [Reqs -> SUBSET (Conns \cup {NoConn})]
      /\ owners'[r] = IF stage[r] = "idle" THEN {Owner} ELSE owners[r]
  BY RequestMoves
<1>2. CASE stage[r] = "idle"
  <2>1. /\ stage'[r] \in {"resolve", "done"} /\ UNCHANGED via
        /\ \/ stage'[r] = "resolve" /\ UNCHANGED answer
           \/ stage'[r] = "done" /\ answer' = [answer EXCEPT ![r] = "413"]
    BY <1>2, RequestMoves
  <2>2. owners' = [owners EXCEPT ![r] = {Owner}] /\ owners[r] = {}
    BY <1>1, <1>2 DEF OwnersType, AskedInv
  <2>3. answer[r] = "none" /\ answer \in [Reqs -> Answers]
    BY <1>2 DEF AskedInv, TypeInv, TypeOK
  <2>4. \E a \in {"none", "413"} : answer' = [answer EXCEPT ![r] = a]
    BY <2>1, <2>3
  <2>5. Public!Ask(r)
    BY <1>1, <2>1, <2>2, <2>4 DEF Public!Ask
  <2>6. AskedInv'
    BY <1>1, <1>2, <2>1, <2>2, <2>3 DEF AskedInv
  <2>. QED BY <1>1, <2>5, <2>6 DEF Public!PublicNext, OwnersType
<1>3. CASE stage[r] # "idle"
  <2>1. UNCHANGED owners
    BY <1>1, <1>3 DEF OwnersType
  <2>2. CASE stage[r] \in {"resolve", "session"}
    <3>1. /\ UNCHANGED via
          /\ \/ stage'[r] \in {"session", "lookup"} /\ UNCHANGED answer
             \/ stage'[r] = "done" /\ answer' = [answer EXCEPT ![r] = "404"]
      BY <2>2, RequestMoves
    <3>2. CASE UNCHANGED answer
      BY <1>1, <2>1, <2>2, <3>1, <3>2 DEF Public!pvars, AskedInv, OwnersType, TypeInv, TypeOK
    <3>3. CASE stage'[r] = "done" /\ answer' = [answer EXCEPT ![r] = "404"]
      <4>1. answer'[r] = "404"
        BY <3>3 DEF TypeInv, TypeOK
      <4>2. NoConn \in owners'[r] \/ \E c, d \in owners'[r] : c # d
        BY <4>1 DEF RouteInv, NotFoundHasACause
      <4>3. Public!SayNotFound(r)
        BY <1>1, <1>3, <2>1, <2>2, <3>1, <3>3, <4>2
        DEF Public!SayNotFound, Public!Waiting, Public!Unsettled, AskedInv
      <4>4. AskedInv'
        BY <1>1, <2>1, <2>2, <3>1, <3>3 DEF AskedInv, TypeInv, TypeOK
      <4>. QED BY <1>1, <4>3, <4>4 DEF Public!PublicNext, OwnersType
    <3>. QED BY <3>1, <3>2, <3>3
  <2>3. CASE stage[r] = "lookup"
    <3>1. CASE /\ stage'[r] = "open" /\ UNCHANGED answer
               /\ \E c \in Conns : via' = [via EXCEPT ![r] = c]
      <4>1. PICK c \in Conns : via' = [via EXCEPT ![r] = c]
        BY <3>1
      <4>2. via'[r] = c /\ c # NoConn
        BY <4>1 DEF TypeInv, TypeOK
      <4>3. c \in owners[r] \ {NoConn}
        BY <2>1, <4>2 DEF RouteInv, RoutedToAnOwner
      <4>4. Public!Give(r)
        BY <1>1, <1>3, <2>1, <2>3, <3>1, <4>1, <4>3 DEF Public!Give, Public!Waiting, AskedInv
      <4>5. AskedInv'
        BY <1>1, <2>1, <2>3, <3>1, <4>1, <4>2 DEF AskedInv, TypeInv, TypeOK
      <4>. QED BY <1>1, <4>4, <4>5 DEF Public!PublicNext, OwnersType
    <3>2. CASE stage'[r] = "done" /\ UNCHANGED via /\ answer' = [answer EXCEPT ![r] = "502"]
      <4>1. Public!SayUnreachable(r)
        BY <1>1, <1>3, <2>1, <2>3, <3>2 DEF Public!SayUnreachable, Public!Waiting, AskedInv
      <4>2. AskedInv'
        BY <1>1, <2>1, <2>3, <3>2 DEF AskedInv, TypeInv, TypeOK
      <4>. QED BY <1>1, <4>1, <4>2 DEF Public!PublicNext, OwnersType
    <3>. QED BY <2>3, <3>1, <3>2, RequestMoves
  <2>4. CASE stage[r] \in {"open", "await", "auth", "eruda"}
    <3>1. /\ UNCHANGED via
          /\ \/ stage'[r] \in {"await", "auth", "eruda"} /\ UNCHANGED answer
             \/ /\ stage'[r] = "done"
                /\ \E a \in {"502", "relayed"} : answer' = [answer EXCEPT ![r] = a]
      BY <2>4, RequestMoves
    <3>2. CASE stage'[r] \in {"await", "auth", "eruda"} /\ UNCHANGED answer
      BY <1>1, <2>1, <2>4, <3>1, <3>2 DEF Public!pvars, AskedInv, OwnersType, TypeInv, TypeOK
    <3>3. CASE /\ stage'[r] = "done"
               /\ \E a \in {"502", "relayed"} : answer' = [answer EXCEPT ![r] = a]
      <4>1. Public!SayUnreachable(r) \/ Public!RelayAnswer(r)
        BY <1>1, <1>3, <2>1, <2>4, <3>1, <3>3
        DEF Public!SayUnreachable, Public!RelayAnswer, Public!Waiting, AskedInv
      <4>2. AskedInv'
        BY <1>1, <2>1, <2>4, <3>1, <3>3 DEF AskedInv, TypeInv, TypeOK
      <4>. QED BY <1>1, <4>1, <4>2 DEF Public!PublicNext, OwnersType
    <3>. QED BY <3>1, <3>2, <3>3
  <2>. QED BY <1>3, <2>2, <2>3, <2>4, RequestMoves
<1>. QED BY <1>2, <1>3

\* Every step keeps the promise, and the part of the invariant it needs.
LEMMA PromiseStep ==
  ASSUME TypeInv, MapInv, RouteInv, AskedInv, OwnersType,
         (TypeInv /\ MapInv /\ RouteInv)', [HNext]_hvars
  PROVE  [Public!PublicNext]_Public!pvars /\ AskedInv' /\ OwnersType'
<1> USE NoConnAssumption
<1>1. ASSUME TypeInv, MapInv, RouteInv, AskedInv, OwnersType,
             (TypeInv /\ MapInv /\ RouteInv)', HNext
      PROVE  [Public!PublicNext]_Public!pvars /\ AskedInv' /\ OwnersType'
  <2>1. Next /\ Record
    BY <1>1 DEF HNext
  <2>2. CASE \E r \in Reqs : RequestArrives(r) \/ RequestStep(r)
    BY <1>1, <2>1, <2>2, RequestKeepsPromise
  <2>3. CASE ~ \E r \in Reqs : RequestArrives(r) \/ RequestStep(r)
    <3>1. \A r \in Reqs : /\ stage'[r] = stage[r] /\ via'[r] = via[r]
                          /\ answer'[r] = answer[r]
      BY <1>1, <2>1, <2>3, RequestSteps DEF TypeInv
    <3>2. UNCHANGED <<stage, via, answer>>
      BY <1>1, <3>1 DEF TypeInv, TypeOK
    <3>3. Public!HostPasses /\ AskedInv' /\ OwnersType'
      BY <1>1, <2>1, <3>2, HostMoves
    <3>. QED BY <3>3 DEF Public!PublicNext
  <2>. QED BY <2>2, <2>3
<1>2. ASSUME AskedInv, OwnersType, UNCHANGED hvars
      PROVE  [Public!PublicNext]_Public!pvars /\ AskedInv' /\ OwnersType'
  <2>1. UNCHANGED <<Owner, owners, via, answer, stage>>
    BY <1>2 DEF hvars, vars, history, registry, requests, Owner, Registered
  <2>. QED BY <1>2, <2>1 DEF Public!pvars, AskedInv, OwnersType
<1>. QED BY <1>1, <1>2

\* Every behaviour of the server is one of PublicHost.
THEOREM PublicPromiseKept == HSpec => KeepsPublicPromise
<1> USE NoConnAssumption
<1>1. HInit => Public!PublicInit /\ AskedInv /\ OwnersType
  BY DEF HInit, Init, RegistryInit, Owner, Public!PublicInit, AskedInv, OwnersType
<1>2. /\ TypeInv /\ MapInv /\ RouteInv /\ AskedInv /\ OwnersType
      /\ (TypeInv /\ MapInv /\ RouteInv)' /\ [HNext]_hvars
      => [Public!PublicNext]_Public!pvars /\ AskedInv' /\ OwnersType'
  BY PromiseStep
<1>3. HSpec => []TypeInv /\ []MapInv /\ []RouteInv
  BY HistoryIsOnlyHistory, TypeInvariant, MapInvariant, RouteInvariant, PTL
<1>4. HSpec => Public!PublicInit /\ [][Public!PublicNext]_Public!pvars
  BY <1>1, <1>2, <1>3, PTL DEF HSpec
<1>. QED BY <1>4 DEF KeepsPublicPromise, Public!PublicSpec
=============================================================================
