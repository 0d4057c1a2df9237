------------------------------ MODULE MCRelay -------------------------------
(* Instances of Relay for TLC. *)
EXTENDS Relay

OneHello == {[noEruda |-> TRUE, auth |-> "cookie"]}
=============================================================================
