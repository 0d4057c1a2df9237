--------------------------- MODULE MCRelayHistory ---------------------------
(* Instances of RelayHistory for TLC. *)
EXTENDS RelayHistory, TLC

\* Two developers' choices that differ in both options.
TwoHellos == {[noEruda |-> FALSE, auth |-> "passthrough"],
              [noEruda |-> TRUE, auth |-> "cookie"]}

AllHellos == Options

Symmetry ==
  Permutations(Ids) \cup Permutations(Conns) \cup Permutations(Reqs)
=============================================================================
