-------------------------- MODULE MCRegistryReads ---------------------------
(* An instance of RegistryReads for TLC. *)
EXTENDS RegistryReads, TLC

\* Sound: neither the properties nor the history name a thread, id or connection.
Symmetry ==
  Permutations(Threads) \cup Permutations(Ids) \cup Permutations(Conns)
=============================================================================
