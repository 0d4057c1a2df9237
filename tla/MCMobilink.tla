----------------------------- MODULE MCMobilink ------------------------------
(* Instances of Mobilink for TLC. *)
EXTENDS Mobilink, TLC

AllHellos == Options

Command(complete, noEruda, word) ==
  [complete |-> complete, noEruda |-> noEruda, auth |-> [word |-> word, form |-> "plain"]]

\* One command that is understood and two that are not.
OneCommand == {Command(TRUE, TRUE, "session")}
FewCommands ==
  OneCommand \cup {Command(TRUE, FALSE, "oauth"), Command(FALSE, FALSE, "none")}

Ipv4Only == {{"v4"}}
AnyResolution == SUBSET {"v4", "v6"}

Symmetry == Permutations(Ids) \cup Permutations(Conns)
=============================================================================
