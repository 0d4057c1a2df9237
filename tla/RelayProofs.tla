---------------------------- MODULE RelayProofs -----------------------------
(***************************************************************************)
(* Proofs about Relay, for any number of connections, session ids and      *)
(* requests.                                                               *)
(***************************************************************************)
EXTENDS Relay, TLAPS

\* A request looks a session up only under an id it has read.  TypeOK is
\* inductive with this conjunct: the result of a lookup has a type only then.
PickedBeforeLookup ==
  \A r \in Reqs : stage[r] \in {"session", "lookup"} => picked[r] \in Ids

TypeInv == TypeOK /\ PickedBeforeLookup

\* Every step preserves TypeInv.
LEMMA TypeStep ==
  ASSUME TypeInv, [Next]_vars
  PROVE  TypeInv'
<1> USE DEF RegistryTypeOK, TunnelTypeOK, Links, Tasks, Stages, Streams, Answers
<1> USE DEF PickedBeforeLookup
<1> USE DEF TypeOK, TypeInv
<1>1. ASSUME NEW c \in Conns, Accept(c) PROVE TypeInv'
  BY <1>1 DEF Accept, AbandonConnection, registry, tunnelMap, requests
<1>2. ASSUME NEW c \in Conns, CliSendsHello(c) PROVE TypeInv'
  BY <1>2, HellosAssumption DEF CliSendsHello, registry, tunnelMap, requests
<1>3. ASSUME NEW c \in Conns, CliGoesAway(c) PROVE TypeInv'
  BY <1>3 DEF CliGoesAway, registry, tunnelMap, requests
<1>4. ASSUME NEW c \in Conns, ServerNoticesLoss(c) PROVE TypeInv'
  BY <1>4 DEF ServerNoticesLoss, registry, tunnelMap, requests
<1>5. ASSUME NEW c \in Conns, ReadHello(c) PROVE TypeInv'
  BY <1>5 DEF ReadHello, AbandonConnection, registry, tunnelMap, requests
<1>6. ASSUME NEW c \in Conns, OpenSession(c) PROVE TypeInv'
  BY <1>6 DEF OpenSession, RegisterSession, AbandonConnection, registry,
              tunnelMap, requests
<1>7. ASSUME NEW c \in Conns, InsertTunnel(c) PROVE TypeInv'
  BY <1>7 DEF InsertTunnel, InsertEntry, Entries, registry, requests
<1>8. ASSUME NEW c \in Conns, Reply(c) PROVE TypeInv'
  BY <1>8 DEF Reply, registry, tunnelMap, requests
<1>9. ASSUME NEW c \in Conns, DropTunnel(c) PROVE TypeInv'
  BY <1>9 DEF DropTunnel, RemoveEntry, Entries, registry, requests
<1>10. ASSUME NEW c \in Conns, ForgetSession(c) PROVE TypeInv'
  BY <1>10 DEF ForgetSession, CloseSession, tunnelMap, requests
<1>11. ASSUME NEW r \in Reqs, RequestArrives(r) PROVE TypeInv'
  BY <1>11 DEF RequestArrives, MoveTo, AnswerWith, registry, tunnelMap, handlers
<1>12. ASSUME NEW r \in Reqs, ReadCurrent(r) PROVE TypeInv'
  BY <1>12 DEF ReadCurrent, MoveTo, AnswerWith, registry, tunnelMap, handlers
<1>13. ASSUME NEW r \in Reqs, GetSession(r) PROVE TypeInv'
  BY <1>13 DEF GetSession, MoveTo, AnswerWith, registry, tunnelMap, handlers
<1>14. ASSUME NEW r \in Reqs, FindTunnel(r) PROVE TypeInv'
  BY <1>14 DEF FindTunnel, MoveTo, AnswerWith, registry, tunnelMap, handlers
<1>15. ASSUME NEW r \in Reqs, SendRequest(r) PROVE TypeInv'
  BY <1>15 DEF SendRequest, MoveTo, AnswerWith, registry, tunnelMap, handlers
<1>16. ASSUME NEW r \in Reqs, ReadResponse(r) PROVE TypeInv'
  BY <1>16 DEF ReadResponse, MoveTo, AnswerWith, registry, tunnelMap, handlers
<1>17. ASSUME NEW r \in Reqs, ReadAuthMode(r) PROVE TypeInv'
  BY <1>17 DEF ReadAuthMode, MoveTo, AnswerWith, registry, tunnelMap, handlers
<1>18. ASSUME NEW r \in Reqs, ReadEruda(r) PROVE TypeInv'
  BY <1>18 DEF ReadEruda, AnswerWith, registry, tunnelMap, handlers
<1>19. ASSUME NEW r \in Reqs, CliAnswers(r) PROVE TypeInv'
  BY <1>19 DEF CliAnswers, registry, tunnelMap, handlers
<1>20. CASE UNCHANGED vars
  BY <1>20 DEF vars, registry, tunnelMap, handlers, requests
<1>. QED
  BY <1>1, <1>2, <1>3, <1>4, <1>5, <1>6, <1>7, <1>8, <1>9, <1>10, <1>11,
     <1>12, <1>13, <1>14, <1>15, <1>16, <1>17, <1>18, <1>19, <1>20
  DEF Next, HandlerStep, RequestStep

\* The initial states satisfy TypeInv and every step preserves it.
THEOREM TypeInvariant == Spec => []TypeInv
<1>1. Init => TypeInv
  BY DEF Init, TypeInv, TypeOK, RegistryInit, TunnelInit, PickedBeforeLookup,
         RegistryTypeOK, TunnelTypeOK, Links, Tasks, Stages, Streams, Answers
<1>2. TypeInv /\ [Next]_vars => TypeInv'
  BY TypeStep
<1>. QED
  BY <1>1, <1>2, PTL DEF Spec

\* Every variable keeps to its type in every behaviour of the server.
THEOREM TypeCorrect == Spec => []TypeOK
<1>1. TypeInv => TypeOK
  BY DEF TypeInv
<1>. QED
  BY <1>1, TypeInvariant, PTL
-----------------------------------------------------------------------------
(***************************************************************************)
(* The two shared maps.  The invariants about them hold each other up: a   *)
(* handler finds its own entries because no entry is anybody else's        *)
(* (SessionsAccounted, RegistryCoversTunnels), and no entry is left over   *)
(* because a handler that ends has removed what it finds.                  *)
(***************************************************************************)
MapInv ==
  /\ OwnerIsOpen
  /\ RegistryCoversTunnels
  /\ HandlerKeepsItsEntries
  /\ SessionsAccounted

\* A step that leaves the maps, the handlers' places and their sessions alone
\* disturbs nothing.
LEMMA MapsUntouched ==
  ASSUME MapInv, UNCHANGED <<sessions, current, tunnels, task, sid>>
  PROVE  MapInv'
BY DEF MapInv, OwnerIsOpen, RegistryCoversTunnels, HandlerKeepsItsEntries,
       SessionsAccounted, Registered

\* An early return before the session is opened ends a handler that has no
\* entry in either map.
LEMMA AbandonKeepsMaps ==
  ASSUME TypeOK, MapInv, NEW c \in Conns, task[c] \in {"idle", "hello", "register"},
         AbandonConnection(c), UNCHANGED <<sessions, current, tunnels, sid>>
  PROVE  MapInv'
BY NoConnAssumption
DEF TypeOK, RegistryTypeOK, TunnelTypeOK, AbandonConnection, MapInv, OwnerIsOpen,
    RegistryCoversTunnels, HandlerKeepsItsEntries, SessionsAccounted, Registered

\* A handler that moves between two places that hold the same entries.
LEMMA MoveKeepsMaps ==
  ASSUME TypeOK, MapInv, NEW c \in Conns, NEW p \in Tasks,
         \/ task[c] \in {"idle", "hello"} /\ p \in {"hello", "register"}
         \/ task[c] = "reply" /\ p \in {"serving", "failed"},
         task' = [task EXCEPT ![c] = p],
         UNCHANGED <<sessions, current, tunnels, sid>>
  PROVE  MapInv'
BY NoConnAssumption
DEF TypeOK, RegistryTypeOK, TunnelTypeOK, MapInv, OwnerIsOpen, Tasks,
    RegistryCoversTunnels, HandlerKeepsItsEntries, SessionsAccounted, Registered

\* Every step preserves MapInv.
LEMMA MapStep ==
  ASSUME TypeInv, MapInv, [Next]_vars
  PROVE  MapInv'
<1> USE NoIdAssumption, NoConnAssumption
<1> USE DEF TypeInv
<1>1. ASSUME NEW c \in Conns, Accept(c) PROVE MapInv'
  <2>1. CASE AbandonConnection(c)
    BY <1>1, <2>1, AbandonKeepsMaps DEF Accept, registry, tunnelMap
  <2>2. CASE task' = [task EXCEPT ![c] = "hello"]
    BY <1>1, <2>2, MoveKeepsMaps DEF Accept, registry, tunnelMap, Tasks
  <2>. QED BY <1>1, <2>1, <2>2 DEF Accept
<1>2. ASSUME NEW c \in Conns, ReadHello(c) PROVE MapInv'
  <2>1. CASE AbandonConnection(c)
    BY <1>2, <2>1, AbandonKeepsMaps DEF ReadHello, registry, tunnelMap
  <2>2. CASE task' = [task EXCEPT ![c] = "register"]
    BY <1>2, <2>2, MoveKeepsMaps DEF ReadHello, registry, tunnelMap, Tasks
  <2>. QED BY <1>2, <2>1, <2>2 DEF ReadHello
<1>3. ASSUME NEW c \in Conns, OpenSession(c) PROVE MapInv'
  <2>1. CASE AbandonConnection(c) /\ UNCHANGED <<registry, sid>>
    BY <1>3, <2>1, AbandonKeepsMaps DEF OpenSession, registry, tunnelMap
  <2>2. ASSUME NEW i \in Ids, RegisterSession(i, c),
               sid' = [sid EXCEPT ![c] = i],
               task' = [task EXCEPT ![c] = "insert"]
        PROVE  MapInv'
    <3>1. UNCHANGED tunnels /\ task[c] = "register"
      BY <1>3 DEF OpenSession, tunnelMap
    <3>2. OwnerIsOpen'
      BY <2>2 DEF RegisterSession, OwnerIsOpen, Registered, TypeOK, RegistryTypeOK
    <3>3. RegistryCoversTunnels'
      BY <2>2, <3>1 DEF RegisterSession, RegistryCoversTunnels, Registered,
                        TypeOK, RegistryTypeOK, MapInv
    <3>4. HandlerKeepsItsEntries'
      BY <2>2, <3>1 DEF RegisterSession, HandlerKeepsItsEntries, Registered,
                        RegistryCoversTunnels, TypeOK, RegistryTypeOK, MapInv
    <3>5. SessionsAccounted'
      BY <2>2, <3>1 DEF RegisterSession, SessionsAccounted, Registered,
                        TypeOK, RegistryTypeOK, MapInv
    <3>. QED BY <3>2, <3>3, <3>4, <3>5 DEF MapInv
  <2>. QED BY <1>3, <2>1, <2>2 DEF OpenSession
<1>4. ASSUME NEW c \in Conns, InsertTunnel(c) PROVE MapInv'
  <2>1. /\ task[c] = "insert" /\ sid[c] \in Ids /\ sessions[sid[c]] = c
        /\ UNCHANGED <<sessions, current, sid>>
        /\ tunnels' = [tunnels EXCEPT ![sid[c]] = c]
        /\ task' = [task EXCEPT ![c] = "reply"]
    BY <1>4 DEF InsertTunnel, InsertEntry, registry, MapInv, HandlerKeepsItsEntries
  <2>2. OwnerIsOpen'
    BY <2>1 DEF MapInv, OwnerIsOpen, Registered
  <2>3. RegistryCoversTunnels'
    BY <2>1 DEF MapInv, RegistryCoversTunnels, TypeOK, TunnelTypeOK
  <2>4. HandlerKeepsItsEntries'
    BY <2>1 DEF MapInv, HandlerKeepsItsEntries, TypeOK, TunnelTypeOK
  <2>5. SessionsAccounted'
    BY <2>1 DEF MapInv, SessionsAccounted, Registered, TypeOK, RegistryTypeOK,
                TunnelTypeOK
  <2>. QED BY <2>2, <2>3, <2>4, <2>5 DEF MapInv
<1>5. ASSUME NEW c \in Conns, Reply(c) PROVE MapInv'
  BY <1>5, MoveKeepsMaps DEF Reply, registry, tunnelMap, Tasks
<1>6. ASSUME NEW c \in Conns, DropTunnel(c) PROVE MapInv'
  <2>1. /\ task[c] = "serving" /\ sid[c] \in Ids /\ sessions[sid[c]] = c
        /\ UNCHANGED <<sessions, current, sid>>
        /\ tunnels' = [tunnels EXCEPT ![sid[c]] = NoConn]
        /\ task' = [task EXCEPT ![c] = "forget"]
    BY <1>6 DEF DropTunnel, RemoveEntry, registry, MapInv, HandlerKeepsItsEntries
  <2>2. OwnerIsOpen'
    BY <2>1 DEF MapInv, OwnerIsOpen, Registered
  <2>3. RegistryCoversTunnels'
    BY <2>1 DEF MapInv, RegistryCoversTunnels, TypeOK, TunnelTypeOK
  <2>4. HandlerKeepsItsEntries'
    BY <2>1 DEF MapInv, HandlerKeepsItsEntries, TypeOK, TunnelTypeOK
  <2>5. SessionsAccounted'
    BY <2>1 DEF MapInv, SessionsAccounted, Registered, TypeOK, RegistryTypeOK,
                TunnelTypeOK
  <2>. QED BY <2>2, <2>3, <2>4, <2>5 DEF MapInv
<1>7. ASSUME NEW c \in Conns, ForgetSession(c) PROVE MapInv'
  <2>1. /\ task[c] = "forget" /\ sid[c] \in Ids /\ sessions[sid[c]] = c
        /\ tunnels[sid[c]] = NoConn
        /\ UNCHANGED <<tunnels, sid>>
        /\ sessions' = [sessions EXCEPT ![sid[c]] = NoConn]
        /\ current' = IF current = sid[c] THEN NoId ELSE current
        /\ task' = [task EXCEPT ![c] = "done"]
    BY <1>7 DEF ForgetSession, CloseSession, tunnelMap, Registered, MapInv,
                HandlerKeepsItsEntries
  <2>2. OwnerIsOpen'
    BY <2>1 DEF MapInv, OwnerIsOpen, Registered, TypeOK, RegistryTypeOK
  <2>3. RegistryCoversTunnels'
    BY <2>1 DEF MapInv, RegistryCoversTunnels, TypeOK, RegistryTypeOK
  <2>4. HandlerKeepsItsEntries'
    BY <2>1 DEF MapInv, HandlerKeepsItsEntries, TypeOK, RegistryTypeOK
  <2>5. SessionsAccounted'
    BY <2>1 DEF MapInv, SessionsAccounted, Registered, TypeOK, RegistryTypeOK
  <2>. QED BY <2>2, <2>3, <2>4, <2>5 DEF MapInv
<1>8. ASSUME NEW c \in Conns, CliSendsHello(c) \/ CliGoesAway(c) \/ ServerNoticesLoss(c)
      PROVE  MapInv'
  BY <1>8, MapsUntouched
  DEF CliSendsHello, CliGoesAway, ServerNoticesLoss, registry, tunnelMap
<1>9. ASSUME NEW r \in Reqs, RequestArrives(r) \/ RequestStep(r) \/ CliAnswers(r)
      PROVE  MapInv'
  <2>1. UNCHANGED <<registry, tunnelMap, handlers>>
    BY <1>9 DEF RequestArrives, RequestStep, CliAnswers, ReadCurrent, GetSession,
                FindTunnel, SendRequest, ReadResponse, ReadAuthMode, ReadEruda
  <2>. QED BY <2>1, MapsUntouched DEF registry, tunnelMap, handlers
<1>10. CASE UNCHANGED vars
  BY <1>10, MapsUntouched DEF vars, registry, tunnelMap, handlers
<1>. QED
  BY <1>1, <1>2, <1>3, <1>4, <1>5, <1>6, <1>7, <1>8, <1>9, <1>10
  DEF Next, HandlerStep

\* MapInv holds in every reachable state.
THEOREM MapInvariant == Spec => []MapInv
<1>1. Init => MapInv
  BY DEF Init, RegistryInit, TunnelInit, MapInv, OwnerIsOpen, Registered,
         RegistryCoversTunnels, HandlerKeepsItsEntries, SessionsAccounted
<1>2. TypeInv /\ MapInv /\ [Next]_vars => MapInv'
  BY MapStep
<1>. QED
  BY <1>1, <1>2, TypeInvariant, PTL DEF Spec
-----------------------------------------------------------------------------
\* The public host never belongs to a closed session.
THEOREM OwnerAlwaysOpen == Spec => []OwnerIsOpen
<1>1. MapInv => OwnerIsOpen
  BY DEF MapInv
<1>. QED BY <1>1, MapInvariant, PTL

\* No tunnel outlives, or precedes, the registration of its session.
THEOREM TunnelsAlwaysCovered == Spec => []RegistryCoversTunnels
<1>1. MapInv => RegistryCoversTunnels
  BY DEF MapInv
<1>. QED BY <1>1, MapInvariant, PTL

\* No handler removes or replaces an entry of another one.
THEOREM HandlersNeverInterfere == Spec => []HandlerKeepsItsEntries
<1>1. MapInv => HandlerKeepsItsEntries
  BY DEF MapInv
<1>. QED BY <1>1, MapInvariant, PTL

\* The one way to leave a session behind is a reply that cannot be written.
THEOREM OnlyFailedRepliesLeak == Spec => []SessionsAccounted
<1>1. MapInv => SessionsAccounted
  BY DEF MapInv
<1>. QED BY <1>1, MapInvariant, PTL

\* Relay is put together from the operations of the registry, so that what
\* they do is all that happens to it.
LEMMA RegistrySteppedByHandlers == Spec => RegistrySpec
<1>1. Init => RegistryInit
  BY DEF Init
<1>2. TypeInv /\ MapInv /\ [Next]_vars => [RegistryNext]_registry
  <2> SUFFICES ASSUME TypeInv, MapInv, [Next]_vars PROVE [RegistryNext]_registry
    OBVIOUS
  <2>1. ASSUME NEW c \in Conns, OpenSession(c) PROVE [RegistryNext]_registry
    BY <2>1 DEF OpenSession, RegistryNext
  <2>2. ASSUME NEW c \in Conns, ForgetSession(c) PROVE [RegistryNext]_registry
    <3>1. sid[c] \in Ids
      BY <2>2 DEF ForgetSession, MapInv, HandlerKeepsItsEntries
    <3>. QED BY <2>2, <3>1 DEF ForgetSession, RegistryNext
  <2>3. ASSUME NEW c \in Conns,
               \/ Accept(c) \/ CliSendsHello(c) \/ CliGoesAway(c) \/ ServerNoticesLoss(c)
               \/ ReadHello(c) \/ InsertTunnel(c) \/ Reply(c) \/ DropTunnel(c)
        PROVE  UNCHANGED registry
    BY <2>3 DEF Accept, CliSendsHello, CliGoesAway, ServerNoticesLoss, ReadHello,
                InsertTunnel, Reply, DropTunnel
  <2>4. ASSUME NEW r \in Reqs, RequestArrives(r) \/ RequestStep(r) \/ CliAnswers(r)
        PROVE  UNCHANGED registry
    BY <2>4 DEF RequestArrives, RequestStep, CliAnswers, ReadCurrent, GetSession,
                FindTunnel, SendRequest, ReadResponse, ReadAuthMode, ReadEruda
  <2>. QED
    BY <2>1, <2>2, <2>3, <2>4 DEF Next, HandlerStep, vars
<1>. QED
  BY <1>1, <1>2, TypeInvariant, MapInvariant, PTL DEF Spec, RegistrySpec

\* The host changes hands only to a session that is just being registered, or
\* to nobody when its owner closes.
THEOREM HostChangesHandsOnly == Spec => HostChangesHands
<1> DEFINE Hands == \/ current' = current
                    \/ /\ current' \in Ids
                       /\ ~Registered(current')
                       /\ sessions'[current'] # NoConn
                    \/ /\ current' = NoId
                       /\ sessions'[current] = NoConn
<1>1. TypeOK /\ [RegistryNext]_registry => [Hands]_registry
  <2> SUFFICES ASSUME TypeOK, [RegistryNext]_registry PROVE [Hands]_registry
    OBVIOUS
  <2>1. ASSUME NEW i \in Ids, CloseSession(i) PROVE Hands
    BY <2>1 DEF CloseSession, TypeOK, RegistryTypeOK
  <2>2. ASSUME NEW i \in Ids, NEW c \in Conns, RegisterSession(i, c) PROVE Hands
    BY <2>2, NoConnAssumption DEF RegisterSession, TypeOK, RegistryTypeOK
  <2>. QED BY <2>1, <2>2 DEF RegistryNext
<1>2. RegistrySpec /\ []TypeOK => HostChangesHands
  BY <1>1, PTL DEF RegistrySpec, HostChangesHands
<1>. QED
  BY <1>2, RegistrySteppedByHandlers, TypeCorrect, PTL
=============================================================================
