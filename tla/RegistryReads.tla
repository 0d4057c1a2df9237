--------------------------- MODULE RegistryReads ----------------------------
(***************************************************************************)
(* RegistryLocks with a history variable, for what active_session returns. *)
(* It reads `current` under one lock and the map under the other, and      *)
(* holds neither in between: unlike the other calls it is not a single     *)
(* step of the contract.  The history keeps what the contract would have   *)
(* answered at each moment of the call.                                    *)
(***************************************************************************)
EXTENDS RegistryLocks

VARIABLE looks    \* looks[t]: the answers there were to give since t has
                  \* called active_session; none for a thread that has not

rvars == <<lvars, looks>>

\* What a single look at the registry would tell: the owner of the public
\* host, and the session it has.
Look == [id |-> owner, conn |-> Contract!Owner]

ReadsInit == LocksInit /\ looks = [t \in Threads |-> {}]

\* A call of active_session is under way from the step that makes it to the
\* one that returns.
RecordLooks ==
  looks' = [t \in Threads |->
    IF pc'[t] = "lock to read" \/ (looks[t] # {} /\ pc'[t] # "idle")
      THEN looks[t] \cup {Look'} ELSE {}]

ReadsNext == LocksNext /\ RecordLooks

ReadsSpec == ReadsInit /\ [][ReadsNext]_rvars
-----------------------------------------------------------------------------
\* What the call of t returns when it returns now: the session that it finds
\* in the map, or none where `current` has named none.
Found(t) == IF pc[t] = "get" THEN map[id[t]] ELSE NoConn

\* However close_session and register_session of other threads come between
\* its two locks, active_session returns a session only if, at one and the
\* same moment of the call, that session was registered and owned the host;
\* and it returns none only if the host had no owner at some moment of the
\* call, or passed from one session to another.
ActiveSessionIsOfItsCall ==
  [][\A t \in Threads : looks[t] # {} /\ pc'[t] = "idle" =>
       \/ Found(t) # NoConn /\ [id |-> id[t], conn |-> Found(t)] \in looks[t]
       \/ /\ Found(t) = NoConn
          /\ \E l, m \in looks[t] : l.id = NoId \/ l.id # m.id]_rvars
=============================================================================
