--------------------------- MODULE RegistryLocks ----------------------------
(***************************************************************************)
(* InMemorySessionRegistry at the grain of its two mutexes.  Handler tasks *)
(* and blocking threads call it in any number and any order; a call takes  *)
(* one lock at a time, and some calls hold the first while they wait for   *)
(* the second.  Relay uses the operations of SessionRegistry as single     *)
(* steps; this module shows that the locks make them so.                   *)
(*                                                                         *)
(* What a call does under the lock of the map before it waits for the      *)
(* other one is one step with taking it.  No call panics with a lock held: *)
(* a poisoned mutex is not modelled.                                       *)
(***************************************************************************)
EXTENDS Core

CONSTANTS
  Threads,    \* the tasks and threads that call the registry
  NoThread    \* nobody holds the lock

ASSUME NoThreadAssumption == NoThread \notin Threads

VARIABLES
  map,           \* the session map, under the first mutex
  owner,         \* `current`, under the second
  sessionsLock,  \* who holds the mutex of the map
  currentLock,   \* who holds the mutex of `current`
  pc,            \* pc[t]: where thread t is
  id,            \* id[t]: the session its call is about
  conn           \* conn[t]: the session register_session has stored, or the
                 \* one close_session has removed

lvars == <<map, owner, sessionsLock, currentLock, pc, id, conn>>

\* A place is named for what the thread does next.
Places == {"idle", "store", "lock to set", "set", "remove", "lock to clear",
           "clear", "get", "lock to read", "read"}

LocksTypeOK ==
  /\ map \in [Ids -> Conns \cup {NoConn}]
  /\ owner \in Ids \cup {NoId}
  /\ sessionsLock \in Threads \cup {NoThread}
  /\ currentLock \in Threads \cup {NoThread}
  /\ pc \in [Threads -> Places]
  /\ id \in [Threads -> Ids \cup {NoId}]
  /\ conn \in [Threads -> Conns \cup {NoConn}]

LocksInit ==
  /\ map = [i \in Ids |-> NoConn]
  /\ owner = NoId
  /\ sessionsLock = NoThread
  /\ currentLock = NoThread
  /\ pc = [t \in Threads |-> "idle"]
  /\ id = [t \in Threads |-> NoId]
  /\ conn = [t \in Threads |-> NoConn]
-----------------------------------------------------------------------------
GoTo(t, place) == pc' = [pc EXCEPT ![t] = place]

Finish(t) ==
  /\ pc' = [pc EXCEPT ![t] = "idle"]
  /\ id' = [id EXCEPT ![t] = NoId]
  /\ conn' = [conn EXCEPT ![t] = NoConn]

CallRegister(t, i, c) ==
  /\ pc[t] = "idle"
  /\ GoTo(t, "store")
  /\ id' = [id EXCEPT ![t] = i]
  /\ conn' = [conn EXCEPT ![t] = c]
  /\ UNCHANGED <<map, owner, sessionsLock, currentLock>>

CallClose(t, i) ==
  /\ pc[t] = "idle"
  /\ GoTo(t, "remove")
  /\ id' = [id EXCEPT ![t] = i]
  /\ UNCHANGED <<map, owner, sessionsLock, currentLock, conn>>

CallGet(t, i) ==
  /\ pc[t] = "idle"
  /\ GoTo(t, "get")
  /\ id' = [id EXCEPT ![t] = i]
  /\ UNCHANGED <<map, owner, sessionsLock, currentLock, conn>>

CallActive(t) ==
  /\ pc[t] = "idle"
  /\ GoTo(t, "lock to read")
  /\ UNCHANGED <<map, owner, sessionsLock, currentLock, id, conn>>
-----------------------------------------------------------------------------
\* register_session locks the map.  A duplicate is refused, which drops the
\* lock; another session is stored and the lock is kept.
Store(t) ==
  /\ pc[t] = "store"
  /\ sessionsLock = NoThread
  /\ IF map[id[t]] # NoConn
       THEN Finish(t) /\ UNCHANGED <<map, sessionsLock>>
       ELSE /\ map' = [map EXCEPT ![id[t]] = conn[t]]
            /\ sessionsLock' = t
            /\ GoTo(t, "lock to set")
            /\ UNCHANGED <<id, conn>>
  /\ UNCHANGED <<owner, currentLock>>

\* The lock of `current`, where register_session, close_session and
\* active_session wait for it.
LockCurrent(t, from, to) ==
  /\ pc[t] = from
  /\ currentLock = NoThread
  /\ currentLock' = t
  /\ GoTo(t, to)
  /\ UNCHANGED <<map, owner, sessionsLock, id, conn>>

SetOwnerForgotten(t) ==
  /\ pc[t] = "set"
  /\ currentLock' = NoThread
  /\ sessionsLock' = NoThread
  /\ Finish(t)
  /\ UNCHANGED <<map, owner>>

\* `current` is assigned, its guard dropped, and the map's at the return.
SetOwner(t) ==
  /\ pc[t] = "set"
  /\ owner' = id[t]
  /\ currentLock' = NoThread
  /\ sessionsLock' = NoThread
  /\ Finish(t)
  /\ UNCHANGED map

RemoveReleasing(t) ==
  /\ pc[t] = "remove"
  /\ sessionsLock = NoThread
  /\ IF map[id[t]] = NoConn
       THEN Finish(t) /\ UNCHANGED map
       ELSE /\ map' = [map EXCEPT ![id[t]] = NoConn]
            /\ conn' = [conn EXCEPT ![t] = map[id[t]]]
            /\ GoTo(t, "lock to clear")
            /\ UNCHANGED id
  /\ UNCHANGED <<owner, sessionsLock, currentLock>>

\* close_session locks the map and removes the session; an unknown id ends
\* the call.
Remove(t) ==
  /\ pc[t] = "remove"
  /\ sessionsLock = NoThread
  /\ IF map[id[t]] = NoConn
       THEN Finish(t) /\ UNCHANGED <<map, sessionsLock>>
       ELSE /\ map' = [map EXCEPT ![id[t]] = NoConn]
            /\ conn' = [conn EXCEPT ![t] = map[id[t]]]
            /\ sessionsLock' = t
            /\ GoTo(t, "lock to clear")
            /\ UNCHANGED id
  /\ UNCHANGED <<owner, currentLock>>

\* The host is left without owner when the owner is what was removed.
Clear(t) ==
  /\ pc[t] = "clear"
  /\ owner' = IF owner = id[t] THEN NoId ELSE owner
  /\ currentLock' = NoThread
  /\ sessionsLock' = NoThread
  /\ Finish(t)
  /\ UNCHANGED map

ReadOwnerKeepingLock(t) ==
  /\ pc[t] = "read"
  /\ IF owner = NoId THEN Finish(t) /\ currentLock' = NoThread
                     ELSE /\ GoTo(t, "get")
                          /\ id' = [id EXCEPT ![t] = owner]
                          /\ UNCHANGED <<currentLock, conn>>
  /\ UNCHANGED <<map, owner, sessionsLock>>

\* active_session copies `current` and drops its lock; with an owner it goes
\* on as get_session does.
ReadOwner(t) ==
  /\ pc[t] = "read"
  /\ currentLock' = NoThread
  /\ IF owner = NoId THEN Finish(t)
                     ELSE /\ GoTo(t, "get")
                          /\ id' = [id EXCEPT ![t] = owner]
                          /\ UNCHANGED conn
  /\ UNCHANGED <<map, owner, sessionsLock>>

\* get_session: the lock of the map is dropped with the copy it protects.
Get(t) ==
  /\ pc[t] = "get"
  /\ sessionsLock = NoThread
  /\ Finish(t)
  /\ UNCHANGED <<map, owner, sessionsLock, currentLock>>
-----------------------------------------------------------------------------
Call(t) ==
  \/ CallActive(t)
  \/ \E i \in Ids : \/ CallClose(t, i) \/ CallGet(t, i)
                    \/ \E c \in Conns : CallRegister(t, i, c)

Step(t) ==
  \/ Store(t) \/ LockCurrent(t, "lock to set", "set") \/ SetOwner(t)
  \/ Remove(t) \/ LockCurrent(t, "lock to clear", "clear") \/ Clear(t)
  \/ LockCurrent(t, "lock to read", "read") \/ ReadOwner(t) \/ Get(t)

LocksNext == \E t \in Threads : Call(t) \/ Step(t)

LocksSpec == LocksInit /\ [][LocksNext]_lvars
-----------------------------------------------------------------------------
(***************************************************************************)
(* A call takes effect when its work under the second lock is done.  Until *)
(* then the contract does not see what the holder of the map's lock has    *)
(* stored, and still sees what it has removed.                             *)
(***************************************************************************)
Storing(t)  == pc[t] \in {"lock to set", "set"}
Removing(t) == pc[t] \in {"lock to clear", "clear"}

PublishedSessions ==
  IF sessionsLock = NoThread THEN map
  ELSE LET t == sessionsLock IN
       [map EXCEPT ![id[t]] = IF Storing(t) THEN NoConn ELSE conn[t]]

Contract == INSTANCE SessionRegistry
              WITH sessions <- PublishedSessions, current <- owner

\* However the calls of all threads interleave between their locks, what they
\* do to the registry is a sequence of atomic register_session and
\* close_session.
ImplementsContract == Contract!RegistrySpec
-----------------------------------------------------------------------------
Busy == {t \in Threads : pc[t] # "idle"}

Blocked(t) ==
  \/ pc[t] \in {"store", "remove", "get"} /\ sessionsLock # NoThread
  \/ pc[t] \in {"lock to set", "lock to clear", "lock to read"}
       /\ currentLock # NoThread

\* As long as a call is under way, some call can go on: the two mutexes are
\* never waited for in a circle, although register_session and close_session
\* take the second while they hold the first.
NoDeadlock == Busy # {} => \E t \in Busy : ~Blocked(t)
=============================================================================
