------------------------ MODULE RegistryLocksProofs -------------------------
(***************************************************************************)
(* Proofs about RegistryLocks and RegistryReads, for any number of         *)
(* threads, ids and connections.                                           *)
(***************************************************************************)
EXTENDS RegistryReads, TLAPS

\* A thread that works on the map holds its lock, and so for `current`.
LocksHeld ==
  \A t \in Threads :
    /\ sessionsLock = t <=> Storing(t) \/ Removing(t)
    /\ currentLock = t <=> pc[t] \in {"set", "clear", "read"}

\* What a thread knows of the session its call is about.
CallsKnowTheirSession ==
  \A t \in Threads :
    /\ pc[t] \in {"store", "remove", "get"} \/ Storing(t) \/ Removing(t) => id[t] \in Ids
    /\ pc[t] = "store" \/ Storing(t) \/ Removing(t) => conn[t] \in Conns
    /\ Storing(t) => map[id[t]] = conn[t]
    /\ Removing(t) => map[id[t]] = NoConn

\* Putting back what was overwritten restores a function.
LEMMA PutBack ==
  ASSUME NEW S, NEW T, NEW f \in [S -> T], NEW x \in S, NEW y
  PROVE  [[f EXCEPT ![x] = y] EXCEPT ![x] = f[x]] = f
OBVIOUS

LocksInv == LocksTypeOK /\ LocksHeld /\ CallsKnowTheirSession

\* LocksInv is inductive.
LEMMA LocksInductive ==
  /\ LocksInit => LocksInv
  /\ LocksInv /\ [LocksNext]_lvars => LocksInv'
<1> USE NoThreadAssumption, NoIdAssumption, NoConnAssumption
<1> USE DEF LocksInv, LocksTypeOK, LocksHeld, CallsKnowTheirSession, Storing, Removing
<1>1. LocksInit => LocksInv
  BY DEF LocksInit, Places
<1>2. LocksInv /\ [LocksNext]_lvars => LocksInv'
  <2> SUFFICES ASSUME LocksInv, [LocksNext]_lvars PROVE LocksInv'
    OBVIOUS
  <2> USE DEF Places
  <2>1. ASSUME NEW t \in Threads, Call(t) PROVE LocksInv'
    <3>1. CASE CallActive(t)
      BY <3>1 DEF CallActive, GoTo
    <3>2. ASSUME NEW i \in Ids, CallClose(t, i) PROVE LocksInv'
      BY <3>2 DEF CallClose, GoTo
    <3>3. ASSUME NEW i \in Ids, CallGet(t, i) PROVE LocksInv'
      BY <3>3 DEF CallGet, GoTo
    <3>4. ASSUME NEW i \in Ids, NEW c \in Conns, CallRegister(t, i, c) PROVE LocksInv'
      BY <3>4 DEF CallRegister, GoTo
    <3>. QED BY <2>1, <3>1, <3>2, <3>3, <3>4 DEF Call
  <2>2. ASSUME NEW t \in Threads, Store(t) PROVE LocksInv'
    <3>1. CASE map[id[t]] # NoConn
      <4>1. /\ pc[t] = "store"
            /\ pc' = [pc EXCEPT ![t] = "idle"]
            /\ id' = [id EXCEPT ![t] = NoId]
            /\ conn' = [conn EXCEPT ![t] = NoConn]
            /\ UNCHANGED <<map, owner, sessionsLock, currentLock>>
        BY <2>2, <3>1 DEF Store, Finish
      <4>2. LocksTypeOK'
        BY <4>1
      <4>3. LocksHeld'
        BY <4>1
      <4>4. CallsKnowTheirSession'
        BY <4>1
      <4>. QED BY <4>2, <4>3, <4>4
    <3>2. CASE map[id[t]] = NoConn
      <4>1. /\ pc[t] = "store"
            /\ sessionsLock = NoThread /\ sessionsLock' = t
            /\ pc' = [pc EXCEPT ![t] = "lock to set"]
            /\ map' = [map EXCEPT ![id[t]] = conn[t]]
            /\ UNCHANGED <<owner, currentLock, id, conn>>
        BY <2>2, <3>2 DEF Store, GoTo
      <4>2. LocksTypeOK'
        BY <4>1
      <4>3. LocksHeld'
        BY <4>1
      <4>4. CallsKnowTheirSession'
        <5>1. \A u \in Threads : ~Storing(u) /\ ~Removing(u)
          BY <4>1
        <5>. QED BY <4>1, <5>1
      <4>. QED BY <4>2, <4>3, <4>4
    <3>. QED BY <3>1, <3>2
  <2>3. ASSUME NEW t \in Threads, LockCurrent(t, "lock to set", "set") PROVE LocksInv'
    BY <2>3 DEF LockCurrent, GoTo
  <2>4. ASSUME NEW t \in Threads, SetOwner(t) PROVE LocksInv'
    BY <2>4 DEF SetOwner, Finish
  <2>5. ASSUME NEW t \in Threads, Remove(t) PROVE LocksInv'
    <3>1. CASE map[id[t]] = NoConn
      <4>1. /\ pc[t] = "remove"
            /\ pc' = [pc EXCEPT ![t] = "idle"]
            /\ id' = [id EXCEPT ![t] = NoId]
            /\ conn' = [conn EXCEPT ![t] = NoConn]
            /\ UNCHANGED <<map, owner, sessionsLock, currentLock>>
        BY <2>5, <3>1 DEF Remove, Finish
      <4>2. LocksTypeOK'
        BY <4>1
      <4>3. LocksHeld'
        BY <4>1
      <4>4. CallsKnowTheirSession'
        BY <4>1
      <4>. QED BY <4>2, <4>3, <4>4
    <3>2. CASE map[id[t]] # NoConn
      <4>1. /\ pc[t] = "remove"
            /\ sessionsLock = NoThread /\ sessionsLock' = t
            /\ pc' = [pc EXCEPT ![t] = "lock to clear"]
            /\ map' = [map EXCEPT ![id[t]] = NoConn]
            /\ conn' = [conn EXCEPT ![t] = map[id[t]]]
            /\ UNCHANGED <<owner, currentLock, id>>
        BY <2>5, <3>2 DEF Remove, GoTo
      <4>2. LocksTypeOK'
        BY <4>1
      <4>3. LocksHeld'
        BY <4>1
      <4>4. CallsKnowTheirSession'
        <5>1. \A u \in Threads : ~Storing(u) /\ ~Removing(u)
          BY <4>1
        <5>2. map'[id[t]] = NoConn /\ conn'[t] \in Conns /\ id'[t] \in Ids
          <6>1. /\ map \in [Ids -> Conns \cup {NoConn}]
                /\ conn \in [Threads -> Conns \cup {NoConn}]
            OBVIOUS
          <6>2. pc[t] = "remove"
            BY <4>1
          <6>3. id[t] \in Ids
            BY <6>2
          <6> HIDE DEF LocksInv, LocksTypeOK, LocksHeld, CallsKnowTheirSession
          <6>4. id'[t] = id[t] /\ map'[id[t]] = NoConn
            BY <4>1, <6>1, <6>3
          <6>5. conn'[t] = map[id[t]]
            BY <4>1, <6>1
          <6>. QED BY <3>2, <6>1, <6>3, <6>4, <6>5
        <5>3. \A u \in Threads \ {t} : pc'[u] = pc[u] /\ conn'[u] = conn[u]
          BY <4>1
        <5>. QED BY <4>1, <5>1, <5>2, <5>3
      <4>. QED BY <4>2, <4>3, <4>4
    <3>. QED BY <3>1, <3>2
  <2>6. ASSUME NEW t \in Threads, LockCurrent(t, "lock to clear", "clear") PROVE LocksInv'
    BY <2>6 DEF LockCurrent, GoTo
  <2>7. ASSUME NEW t \in Threads, Clear(t) PROVE LocksInv'
    BY <2>7 DEF Clear, Finish
  <2>8. ASSUME NEW t \in Threads, LockCurrent(t, "lock to read", "read") PROVE LocksInv'
    BY <2>8 DEF LockCurrent, GoTo
  <2>9. ASSUME NEW t \in Threads, ReadOwner(t) PROVE LocksInv'
    <3>1. CASE owner = NoId
      <4>1. /\ pc[t] = "read"
            /\ currentLock' = NoThread
            /\ pc' = [pc EXCEPT ![t] = "idle"]
            /\ id' = [id EXCEPT ![t] = NoId]
            /\ conn' = [conn EXCEPT ![t] = NoConn]
            /\ UNCHANGED <<map, owner, sessionsLock>>
        BY <2>9, <3>1 DEF ReadOwner, Finish
      <4>2. LocksTypeOK'
        BY <4>1
      <4>3. LocksHeld'
        BY <4>1
      <4>4. CallsKnowTheirSession'
        BY <4>1
      <4>. QED BY <4>2, <4>3, <4>4
    <3>2. CASE owner # NoId
      <4>1. /\ pc[t] = "read"
            /\ currentLock' = NoThread
            /\ pc' = [pc EXCEPT ![t] = "get"]
            /\ id' = [id EXCEPT ![t] = owner]
            /\ UNCHANGED <<map, owner, sessionsLock, conn>>
        BY <2>9, <3>2 DEF ReadOwner, GoTo
      <4>2. LocksTypeOK'
        BY <4>1
      <4>3. LocksHeld'
        BY <4>1
      <4>4. CallsKnowTheirSession'
        BY <3>2, <4>1
      <4>. QED BY <4>2, <4>3, <4>4
    <3>. QED BY <3>1, <3>2
  <2>10. ASSUME NEW t \in Threads, Get(t) PROVE LocksInv'
    BY <2>10 DEF Get, Finish
  <2>11. CASE UNCHANGED lvars
    BY <2>11 DEF lvars
  <2>. QED
    BY <2>1, <2>2, <2>3, <2>4, <2>5, <2>6, <2>7, <2>8, <2>9, <2>10, <2>11
    DEF LocksNext, Step
<1>. QED
  BY <1>1, <1>2

\* LocksInv holds in every reachable state.
THEOREM LocksInvariant == LocksSpec => []LocksInv
BY LocksInductive, PTL DEF LocksSpec

\* Every variable keeps to its type.
THEOREM LocksTypeCorrect == LocksSpec => []LocksTypeOK
<1>1. LocksInv => LocksTypeOK
  BY DEF LocksInv
<1>. QED BY <1>1, LocksInvariant, PTL

\* The registry's threads never wait for each other in a circle.
THEOREM RegistryNeverDeadlocks == LocksSpec => []NoDeadlock
<1>1. LocksInv => NoDeadlock
  <2> SUFFICES ASSUME LocksInv, NEW t \in Busy
               PROVE  \E u \in Busy : ~Blocked(u)
    BY DEF NoDeadlock
  <2> USE DEF LocksInv, LocksTypeOK, LocksHeld, Busy, Blocked, Storing, Removing
  <2>1. CASE currentLock \in Threads
    <3>1. currentLock \in Busy /\ ~Blocked(currentLock)
      BY <2>1
    <3>. QED BY <3>1
  <2>2. CASE currentLock = NoThread /\ sessionsLock \in Threads
    <3>1. sessionsLock \in Busy /\ ~Blocked(sessionsLock)
      BY <2>2
    <3>. QED BY <3>1
  <2>3. CASE currentLock = NoThread /\ sessionsLock = NoThread
    BY <2>3
  <2>. QED BY <2>1, <2>2, <2>3
<1>. QED
  BY <1>1, LocksInvariant, PTL
-----------------------------------------------------------------------------
\* Every step of a thread is a step of the atomic registry or leaves it alone.
LEMMA StepOfTheContract ==
  LocksInv /\ LocksInv' /\ [LocksNext]_lvars
    => [Contract!RegistryNext]_(Contract!registry)
<1> USE NoThreadAssumption, NoIdAssumption, NoConnAssumption
<1> USE DEF Contract!RegistryNext, Contract!registry,
            Contract!RegisterSession, Contract!CloseSession, Contract!Registered
<1>1. ASSUME LocksInv, LocksInv', [LocksNext]_lvars
      PROVE  [Contract!RegistryNext]_(Contract!registry)
  <2> USE <1>1
  <2> USE DEF LocksInv, LocksTypeOK, LocksHeld, CallsKnowTheirSession, Storing, Removing
  <2>1. ASSUME NEW t \in Threads, SetOwner(t)
        PROVE  Contract!RegisterSession(id[t], conn[t])
    <3>1. /\ sessionsLock = t /\ id[t] \in Ids /\ conn[t] \in Conns
          /\ map[id[t]] = conn[t] /\ Storing(t)
      BY <2>1 DEF SetOwner
    <3>2. PublishedSessions = [map EXCEPT ![id[t]] = NoConn]
      BY <3>1 DEF PublishedSessions
    <3>3. PublishedSessions' = map
      BY <2>1 DEF SetOwner, PublishedSessions
    <3>4. map = [PublishedSessions EXCEPT ![id[t]] = conn[t]]
      <4>1. [[map EXCEPT ![id[t]] = NoConn] EXCEPT ![id[t]] = map[id[t]]] = map
        BY <3>1, PutBack
      <4>. QED BY <3>1, <3>2, <4>1
    <3>. QED BY <2>1, <3>1, <3>2, <3>3, <3>4 DEF SetOwner
  <2>2. ASSUME NEW t \in Threads, Clear(t)
        PROVE  Contract!CloseSession(id[t])
    <3>1. /\ sessionsLock = t /\ id[t] \in Ids /\ conn[t] \in Conns
          /\ map[id[t]] = NoConn /\ ~Storing(t)
      BY <2>2 DEF Clear
    <3>2. PublishedSessions = [map EXCEPT ![id[t]] = conn[t]]
      BY <3>1 DEF PublishedSessions
    <3>3. PublishedSessions' = map
      BY <2>2 DEF Clear, PublishedSessions
    <3>4. map = [PublishedSessions EXCEPT ![id[t]] = NoConn]
      <4>1. [[map EXCEPT ![id[t]] = conn[t]] EXCEPT ![id[t]] = map[id[t]]] = map
        BY <3>1, PutBack
      <4>. QED BY <3>1, <3>2, <4>1
    <3>. QED BY <2>2, <3>1, <3>2, <3>3, <3>4 DEF Clear
  <2>3. ASSUME NEW t \in Threads, Store(t) PROVE UNCHANGED <<PublishedSessions, owner>>
    <3>1. sessionsLock = NoThread /\ PublishedSessions = map /\ id[t] \in Ids
      BY <2>3 DEF Store, PublishedSessions
    <3>2. CASE map[id[t]] # NoConn
      BY <2>3, <3>1, <3>2 DEF Store, Finish, PublishedSessions
    <3>3. CASE map[id[t]] = NoConn
      <4>1. /\ sessionsLock' = t /\ id' = id /\ Storing(t)'
            /\ map' = [map EXCEPT ![id[t]] = conn[t]]
        <5>1. /\ sessionsLock' = t /\ id' = id
              /\ map' = [map EXCEPT ![id[t]] = conn[t]]
              /\ pc' = [pc EXCEPT ![t] = "lock to set"]
          BY <2>3, <3>3 DEF Store, GoTo
        <5>. QED BY <5>1
      <4>2. PublishedSessions' = [map' EXCEPT ![id[t]] = NoConn]
        BY <4>1 DEF PublishedSessions
      <4>3. PublishedSessions' = map
        <5>1. [[map EXCEPT ![id[t]] = conn[t]] EXCEPT ![id[t]] = map[id[t]]] = map
          BY <3>1, PutBack
        <5>. QED BY <3>3, <4>1, <4>2, <5>1
      <4>. QED BY <2>3, <3>1, <4>3 DEF Store
    <3>. QED BY <3>2, <3>3
  <2>4. ASSUME NEW t \in Threads, Remove(t) PROVE UNCHANGED <<PublishedSessions, owner>>
    <3>1. sessionsLock = NoThread /\ PublishedSessions = map /\ id[t] \in Ids
      BY <2>4 DEF Remove, PublishedSessions
    <3>2. CASE map[id[t]] = NoConn
      BY <2>4, <3>1, <3>2 DEF Remove, Finish, PublishedSessions
    <3>3. CASE map[id[t]] # NoConn
      <4>1. /\ sessionsLock' = t /\ id' = id /\ ~Storing(t)' /\ conn'[t] = map[id[t]]
            /\ map' = [map EXCEPT ![id[t]] = NoConn]
        <5>1. /\ sessionsLock' = t /\ id' = id
              /\ map' = [map EXCEPT ![id[t]] = NoConn]
              /\ conn' = [conn EXCEPT ![t] = map[id[t]]]
              /\ pc' = [pc EXCEPT ![t] = "lock to clear"]
          BY <2>4, <3>3 DEF Remove, GoTo
        <5>. QED BY <5>1
      <4>2. PublishedSessions' = [map' EXCEPT ![id[t]] = map[id[t]]]
        BY <4>1 DEF PublishedSessions
      <4>3. PublishedSessions' = map
        BY <3>1, <4>1, <4>2, PutBack
      <4>. QED BY <2>4, <3>1, <4>3 DEF Remove
    <3>. QED BY <3>2, <3>3
  <2>5. ASSUME NEW t \in Threads,
               \/ Call(t) \/ ReadOwner(t) \/ Get(t)
               \/ LockCurrent(t, "lock to set", "set")
               \/ LockCurrent(t, "lock to clear", "clear")
               \/ LockCurrent(t, "lock to read", "read")
        PROVE  UNCHANGED <<PublishedSessions, owner>>
    <3>1. UNCHANGED <<map, owner, sessionsLock>>
      BY <2>5 DEF Call, CallActive, CallClose, CallGet, CallRegister, ReadOwner, Get,
                  LockCurrent
    <3>2. ASSUME NEW u \in Threads, u = sessionsLock
          PROVE  id'[u] = id[u] /\ conn'[u] = conn[u] /\ (Storing(u)' <=> Storing(u))
      <4> DEFINE Kept == id'[u] = id[u] /\ conn'[u] = conn[u] /\ pc'[u] = pc[u]
      <4>1. CASE Call(t)
        <5>1. t # u
          BY <4>1, <3>2 DEF Call, CallActive, CallClose, CallGet, CallRegister
        <5>2. CASE CallActive(t)
          BY <5>1, <5>2 DEF CallActive, GoTo
        <5>3. ASSUME NEW i \in Ids, CallClose(t, i) \/ CallGet(t, i) PROVE Kept
          BY <5>1, <5>3 DEF CallClose, CallGet, GoTo
        <5>4. ASSUME NEW i \in Ids, NEW c \in Conns, CallRegister(t, i, c) PROVE Kept
          BY <5>1, <5>4 DEF CallRegister, GoTo
        <5>. QED BY <4>1, <5>2, <5>3, <5>4 DEF Call
      <4>2. CASE ReadOwner(t)
        <5>1. t # u
          BY <4>2, <3>2 DEF ReadOwner
        <5>2. CASE owner = NoId
          <6>1. /\ pc' = [pc EXCEPT ![t] = "idle"]
                /\ id' = [id EXCEPT ![t] = NoId]
                /\ conn' = [conn EXCEPT ![t] = NoConn]
            BY <4>2, <5>2 DEF ReadOwner, Finish
          <6>. QED BY <5>1, <6>1
        <5>3. CASE owner # NoId
          BY <4>2, <5>1, <5>3 DEF ReadOwner, GoTo
        <5>. QED BY <5>2, <5>3
      <4>3. CASE Get(t)
        <5>1. t # u
          BY <4>3, <3>2 DEF Get
        <5>. QED BY <4>3, <5>1 DEF Get, Finish
      <4>4. CASE LockCurrent(t, "lock to set", "set")
        BY <4>4 DEF LockCurrent, GoTo
      <4>5. CASE LockCurrent(t, "lock to clear", "clear")
        BY <4>5 DEF LockCurrent, GoTo
      <4>6. CASE LockCurrent(t, "lock to read", "read")
        BY <4>6 DEF LockCurrent, GoTo
      <4>. QED BY <2>5, <4>1, <4>2, <4>3, <4>4, <4>5, <4>6
    <3>. QED BY <3>1, <3>2 DEF PublishedSessions
  <2>6. CASE UNCHANGED lvars
    BY <2>6 DEF lvars, PublishedSessions
  <2>. QED
    <3>1. ASSUME NEW t \in Threads, SetOwner(t) PROVE Contract!RegistryNext
      BY <2>1, <3>1 DEF SetOwner
    <3>2. ASSUME NEW t \in Threads, Clear(t) PROVE Contract!RegistryNext
      BY <2>2, <3>2 DEF Clear
    <3>. QED
      BY <2>3, <2>4, <2>5, <2>6, <3>1, <3>2 DEF LocksNext, Step
<1>. QED
  BY <1>1

\* The two-lock registry implements the atomic one.
THEOREM LocksImplementContract == LocksSpec => ImplementsContract
<1>1. LocksInit => Contract!RegistryInit
  BY DEF LocksInit, PublishedSessions, Contract!RegistryInit
<1>. QED
  BY <1>1, StepOfTheContract, LocksInvariant, PTL
  DEF LocksSpec, ImplementsContract, Contract!RegistrySpec
-----------------------------------------------------------------------------
(***************************************************************************)
(* What active_session returns.  The history of a call always holds the    *)
(* present look at the registry.  From the reading of `current` on, it     *)
(* holds the session that the map gives for the id read; once the map      *)
(* gives none any more, it holds the reason.                               *)
(***************************************************************************)
Reason(S) == \E l, m \in S : l.id = NoId \/ l.id # m.id

Grounded(t) ==
  /\ pc[t] \in {"lock to read", "read", "get"}
  /\ Look \in looks[t]
  /\ pc[t] = "get" =>
       /\ id[t] \in Ids
       /\ \E l \in looks[t] : l.id = id[t]
       /\ IF PublishedSessions[id[t]] = NoConn
            THEN Reason(looks[t])
            ELSE [id |-> id[t], conn |-> PublishedSessions[id[t]]] \in looks[t]

ReadsInv == \A t \in Threads : looks[t] # {} => Grounded(t)

\* The contract's view of the map has the type of the map.
LEMMA PublishedType ==
  ASSUME LocksInv
  PROVE  PublishedSessions \in [Ids -> Conns \cup {NoConn}]
BY NoThreadAssumption
DEF LocksInv, LocksTypeOK, LocksHeld, CallsKnowTheirSession, PublishedSessions,
    Storing, Removing

\* The owner of the host is registered, as the contract sees it.
LEMMA OwnerPublished ==
  ASSUME LocksInv, LocksInv', [LocksNext]_lvars, Contract!OwnerIsOpen
  PROVE  Contract!OwnerIsOpen'
<1> USE NoIdAssumption, NoConnAssumption DEF Contract!OwnerIsOpen, Contract!Registered
<1>1. PublishedSessions \in [Ids -> Conns \cup {NoConn}] /\ owner \in Ids \cup {NoId}
  BY PublishedType DEF LocksInv, LocksTypeOK
<1>2. [Contract!RegistryNext]_(Contract!registry)
  BY StepOfTheContract
<1>3. ASSUME NEW i \in Ids, NEW c \in Conns, Contract!RegisterSession(i, c)
      PROVE  Contract!OwnerIsOpen'
  BY <1>1, <1>3 DEF Contract!RegisterSession
<1>4. ASSUME NEW i \in Ids, Contract!CloseSession(i) PROVE Contract!OwnerIsOpen'
  BY <1>1, <1>4 DEF Contract!CloseSession
<1>5. CASE UNCHANGED Contract!registry
  BY <1>5 DEF Contract!registry
<1>. QED BY <1>2, <1>3, <1>4, <1>5 DEF Contract!RegistryNext

\* What can become of a thread in the midst of active_session.
LEMMA AskingSteps ==
  ASSUME LocksInv, [LocksNext]_lvars, NEW t \in Threads,
         pc[t] \in {"lock to read", "read", "get"}
  PROVE  \/ pc'[t] = pc[t] /\ id'[t] = id[t]
         \/ pc'[t] = "read"
         \/ pc'[t] = "idle" /\ pc[t] = "read" /\ owner = NoId
         \/ pc'[t] = "idle" /\ pc[t] = "get" /\ sessionsLock = NoThread
         \/ pc'[t] = "get" /\ owner \in Ids /\ id'[t] = owner /\ owner' = owner
<1> USE DEF LocksInv, LocksTypeOK
<1> DEFINE Stands == pc'[t] = pc[t] /\ id'[t] = id[t]
<1>1. ASSUME NEW u \in Threads, Call(u) PROVE Stands
  <2>1. u # t
    BY <1>1 DEF Call, CallActive, CallClose, CallGet, CallRegister
  <2>. QED
    BY <1>1, <2>1 DEF Call, CallActive, CallClose, CallGet, CallRegister, GoTo
<1>2. ASSUME NEW u \in Threads, Store(u) \/ SetOwner(u) \/ Remove(u) \/ Clear(u) PROVE Stands
  <2>1. u # t
    BY <1>2 DEF Store, SetOwner, Remove, Clear
  <2>2. CASE Store(u)
    BY <2>1, <2>2 DEF Store, Finish, GoTo
  <2>3. CASE SetOwner(u)
    BY <2>1, <2>3 DEF SetOwner, Finish
  <2>4. CASE Remove(u)
    BY <2>1, <2>4 DEF Remove, Finish, GoTo
  <2>5. CASE Clear(u)
    BY <2>1, <2>5 DEF Clear, Finish
  <2>. QED BY <1>2, <2>2, <2>3, <2>4, <2>5
<1>3. ASSUME NEW u \in Threads,
             \/ LockCurrent(u, "lock to set", "set")
             \/ LockCurrent(u, "lock to clear", "clear")
      PROVE  Stands
  BY <1>3 DEF LockCurrent, GoTo
<1>4. ASSUME NEW u \in Threads, LockCurrent(u, "lock to read", "read")
      PROVE  Stands \/ pc'[t] = "read"
  BY <1>4 DEF LockCurrent, GoTo
<1>5. ASSUME NEW u \in Threads, ReadOwner(u)
      PROVE  \/ Stands
             \/ pc'[t] = "idle" /\ pc[t] = "read" /\ owner = NoId
             \/ pc'[t] = "get" /\ owner \in Ids /\ id'[t] = owner /\ owner' = owner
  <2>1. CASE u # t
    BY <1>5, <2>1 DEF ReadOwner, Finish, GoTo
  <2>2. CASE u = t
    BY <1>5, <2>2 DEF ReadOwner, Finish, GoTo
  <2>. QED BY <2>1, <2>2
<1>6. ASSUME NEW u \in Threads, Get(u)
      PROVE  Stands \/ (pc'[t] = "idle" /\ pc[t] = "get" /\ sessionsLock = NoThread)
  <2>1. CASE u # t
    BY <1>6, <2>1 DEF Get, Finish
  <2>2. CASE u = t
    BY <1>6, <2>2 DEF Get, Finish
  <2>. QED BY <2>1, <2>2
<1>7. CASE UNCHANGED lvars
  BY <1>7 DEF lvars
<1>. QED BY <1>1, <1>2, <1>3, <1>4, <1>5, <1>6, <1>7 DEF LocksNext, Step

\* While a thread has still to look its id up, its history follows the map.
LEMMA LookupFollows ==
  ASSUME LocksInv, LocksInv', [LocksNext]_lvars, Contract!OwnerIsOpen, ReadsInv,
         NEW t \in Threads, looks[t] # {}, pc[t] = "get", id'[t] = id[t],
         looks'[t] = looks[t] \cup {Look'}
  PROVE  IF PublishedSessions'[id[t]] = NoConn
           THEN Reason(looks'[t])
           ELSE [id |-> id[t], conn |-> PublishedSessions'[id[t]]] \in looks'[t]
<1> USE NoIdAssumption, NoConnAssumption
<1>1. /\ PublishedSessions \in [Ids -> Conns \cup {NoConn}]
      /\ owner \in Ids \cup {NoId}
  BY PublishedType DEF LocksInv, LocksTypeOK
<1>2. Grounded(t) /\ id[t] \in Ids
  BY DEF ReadsInv, Grounded
<1>3. Reason(looks[t]) => Reason(looks'[t])
  BY DEF Reason
<1>4. [Contract!RegistryNext]_(Contract!registry)
  BY StepOfTheContract
<1>5. CASE PublishedSessions'[id[t]] = PublishedSessions[id[t]]
  BY <1>2, <1>3, <1>5 DEF Grounded
<1>6. ASSUME NEW c \in Conns, Contract!RegisterSession(id[t], c)
      PROVE  /\ PublishedSessions'[id[t]] # NoConn
             /\ [id |-> id[t], conn |-> PublishedSessions'[id[t]]] \in looks'[t]
  <2>1. owner' = id[t] /\ Contract!Owner' = PublishedSessions'[id[t]]
    BY <1>2, <1>6 DEF Contract!RegisterSession, Contract!Owner
  <2>2. PublishedSessions'[id[t]] # NoConn
    BY <1>1, <1>2, <1>6 DEF Contract!RegisterSession
  <2>. QED BY <2>1, <2>2 DEF Look
<1>7. ASSUME Contract!CloseSession(id[t]), PublishedSessions[id[t]] # NoConn
      PROVE  PublishedSessions'[id[t]] = NoConn /\ Reason(looks'[t])
  <2>1. PublishedSessions'[id[t]] = NoConn
    BY <1>1, <1>2, <1>7 DEF Contract!CloseSession
  <2>2. Look'.id = owner' /\ Look' \in looks'[t]
    BY DEF Look
  <2>3. CASE owner = id[t]
    <3>1. owner' = NoId
      BY <1>7, <2>3 DEF Contract!CloseSession, Contract!Registered
    <3>. QED BY <2>1, <2>2, <3>1 DEF Reason
  <2>4. CASE owner # id[t]
    <3>1. owner' = owner
      BY <1>7, <2>4 DEF Contract!CloseSession
    <3>2. PICK l \in looks[t] : l.id = id[t]
      BY <1>2 DEF Grounded
    <3>. QED BY <2>1, <2>2, <2>4, <3>1, <3>2 DEF Reason
  <2>. QED BY <2>3, <2>4
<1>8. ASSUME NEW i \in Ids, i # id[t],
             \/ Contract!CloseSession(i)
             \/ \E c \in Conns : Contract!RegisterSession(i, c)
      PROVE  PublishedSessions'[id[t]] = PublishedSessions[id[t]]
  BY <1>1, <1>2, <1>8 DEF Contract!CloseSession, Contract!RegisterSession
<1>9. ASSUME Contract!CloseSession(id[t]), PublishedSessions[id[t]] = NoConn
      PROVE  PublishedSessions'[id[t]] = PublishedSessions[id[t]]
  BY <1>1, <1>2, <1>9 DEF Contract!CloseSession
<1>10. CASE UNCHANGED Contract!registry
  BY <1>5, <1>10 DEF Contract!registry
<1>. QED
  BY <1>4, <1>5, <1>6, <1>7, <1>8, <1>9, <1>10 DEF Contract!RegistryNext

\* ReadsInv is inductive, beside what the locks keep.
LEMMA ReadsStep ==
  ASSUME LocksInv, LocksInv', [LocksNext]_lvars, Contract!OwnerIsOpen, ReadsInv,
         RecordLooks \/ UNCHANGED rvars
  PROVE  ReadsInv'
<1> USE NoIdAssumption, NoConnAssumption
<1>1. Contract!OwnerIsOpen'
  BY OwnerPublished
<1>2. CASE UNCHANGED rvars
  <2>1. UNCHANGED <<pc, id, looks, Look, PublishedSessions>>
    BY <1>2 DEF rvars, lvars, Look, PublishedSessions, Contract!Owner, Storing
  <2>. QED BY <2>1 DEF ReadsInv, Grounded, Reason
<1>3. CASE RecordLooks
  <2> SUFFICES ASSUME NEW t \in Threads, looks'[t] # {} PROVE Grounded(t)'
    BY DEF ReadsInv
  <2>1. /\ looks'[t] = looks[t] \cup {Look'}
        /\ pc'[t] = "lock to read" \/ (looks[t] # {} /\ pc'[t] # "idle")
    BY <1>3 DEF RecordLooks
  <2>2. CASE pc'[t] \in {"lock to read", "read"}
    BY <2>1, <2>2 DEF Grounded
  <2>3. CASE pc'[t] \notin {"lock to read", "read"}
    <3>1. looks[t] # {} /\ Grounded(t) /\ pc[t] \in {"lock to read", "read", "get"}
      BY <2>1, <2>3 DEF ReadsInv, Grounded
    <3>2. \/ pc'[t] = "get" /\ pc[t] = "get" /\ id'[t] = id[t]
          \/ pc'[t] = "get" /\ owner \in Ids /\ id'[t] = owner /\ owner' = owner
      BY AskingSteps, <2>1, <2>3, <3>1
    <3>3. CASE pc'[t] = "get" /\ pc[t] = "get" /\ id'[t] = id[t]
      <4>1. IF PublishedSessions'[id[t]] = NoConn
              THEN Reason(looks'[t])
              ELSE [id |-> id[t], conn |-> PublishedSessions'[id[t]]] \in looks'[t]
        BY LookupFollows, <2>1, <3>1, <3>3
      <4>2. id'[t] \in Ids /\ \E l \in looks'[t] : l.id = id'[t]
        BY <2>1, <3>1, <3>3 DEF Grounded
      <4>. QED BY <2>1, <3>3, <4>1, <4>2 DEF Grounded, Reason
    <3>4. CASE pc'[t] = "get" /\ owner \in Ids /\ id'[t] = owner /\ owner' = owner
      <4>1. Look' = [id |-> id'[t], conn |-> PublishedSessions'[id'[t]]]
        BY <3>4 DEF Look, Contract!Owner
      <4>2. PublishedSessions'[id'[t]] # NoConn
        BY <1>1, <3>4 DEF Contract!OwnerIsOpen, Contract!Registered
      <4>. QED BY <2>1, <3>4, <4>1, <4>2 DEF Grounded
    <3>. QED BY <3>2, <3>3, <3>4
  <2>. QED BY <2>2, <2>3
<1>. QED BY <1>2, <1>3

\* However the calls of other threads come between its two locks,
\* active_session returns what owned the host at one moment of the call, and
\* none only with a reason.
THEOREM ActiveSessionAlwaysOfItsCall == ReadsSpec => ActiveSessionIsOfItsCall
<1> DEFINE Inv == LocksInv /\ Contract!OwnerIsOpen /\ ReadsInv
<1>1. ReadsInit => Inv
  BY LocksInductive DEF ReadsInit, LocksInit, ReadsInv, Contract!OwnerIsOpen
<1>2. Inv /\ [ReadsNext]_rvars => Inv'
  <2> SUFFICES ASSUME Inv, [ReadsNext]_rvars PROVE Inv'
    OBVIOUS
  <2>1. [LocksNext]_lvars /\ (RecordLooks \/ UNCHANGED rvars)
    BY DEF ReadsNext, rvars
  <2>2. LocksInv'
    BY <2>1, LocksInductive
  <2>. QED BY <2>1, <2>2, OwnerPublished, ReadsStep
<1>3. ASSUME Inv, [ReadsNext]_rvars, NEW t \in Threads, looks[t] # {}, pc'[t] = "idle"
      PROVE  \/ Found(t) # NoConn /\ [id |-> id[t], conn |-> Found(t)] \in looks[t]
             \/ /\ Found(t) = NoConn
                /\ \E l, m \in looks[t] : l.id = NoId \/ l.id # m.id
  <2>1. [LocksNext]_lvars
    BY <1>3 DEF ReadsNext, rvars
  <2>2. Grounded(t)
    BY <1>3 DEF ReadsInv
  <2>3. \/ pc[t] = "read" /\ owner = NoId
        \/ pc[t] = "get" /\ sessionsLock = NoThread
    BY <1>3, <2>1, <2>2, AskingSteps DEF Grounded
  <2>4. CASE pc[t] = "read" /\ owner = NoId
    <3>1. Look \in looks[t] /\ Look.id = NoId /\ Found(t) = NoConn
      BY <2>2, <2>4 DEF Grounded, Look, Found
    <3>. QED BY <3>1
  <2>5. CASE pc[t] = "get" /\ sessionsLock = NoThread
    <3>1. Found(t) = PublishedSessions[id[t]]
      BY <2>5 DEF Found, PublishedSessions
    <3>2. CASE Found(t) = NoConn
      BY <2>2, <2>5, <3>1, <3>2 DEF Grounded, Reason
    <3>3. CASE Found(t) # NoConn
      BY <2>2, <2>5, <3>1, <3>3 DEF Grounded
    <3>. QED BY <3>2, <3>3
  <2>. QED BY <2>3, <2>4, <2>5
<1>4. Inv /\ [ReadsNext]_rvars =>
        [\A t \in Threads : looks[t] # {} /\ pc'[t] = "idle" =>
           \/ Found(t) # NoConn /\ [id |-> id[t], conn |-> Found(t)] \in looks[t]
           \/ /\ Found(t) = NoConn
              /\ \E l, m \in looks[t] : l.id = NoId \/ l.id # m.id]_rvars
  BY <1>3
<1>. QED
  BY <1>1, <1>2, <1>4, PTL DEF ReadsSpec, ActiveSessionIsOfItsCall
=============================================================================
