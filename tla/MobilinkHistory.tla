--------------------------- MODULE MobilinkHistory --------------------------
(***************************************************************************)
(* The whole of Mobilink with the history of RelayHistory: what a browser  *)
(* is promised, from its own request to the developer's application and    *)
(* back, with real CLIs at the other end of the tunnels and a server that  *)
(* may restart.                                                            *)
(***************************************************************************)
EXTENDS Mobilink, RelayHistory

mhvars == <<mvars, history>>

MHInit == MInit /\ HInit

\* The history records the steps of the server, a restart among them; what a
\* CLI does by itself leaves it as it is.
MHNext == MNext /\ IF UNCHANGED vars THEN UNCHANGED history ELSE Record

MHSpec == MHInit /\ [][MHNext]_mhvars
-----------------------------------------------------------------------------
\* The whole system keeps the promise of PublicHost through every restart: no
\* request of an earlier life of the server is given to a developer of a later
\* one, or answered by it, and a host that was lost with the server leads
\* nobody anywhere before a new session has it.
PromiseSurvivesRestarts == Public!RestartingSpec

\* From end to end: a developer's application gets the requests only of
\* browsers that waited while that developer owned the host, and what is
\* relayed to a browser is what the one CLI that got its request has sent.
OnlyOwnersSeeRequests ==
  \A r \in Reqs :
    /\ job[r] # "none" => on[r] \in owners[r] \ {NoConn}
    /\ answer[r] = "relayed" => job[r] = "delivered" /\ on[r] = via[r]
=============================================================================
