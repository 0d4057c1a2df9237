-------------------------- MODULE MCMobilinkHistory --------------------------
(* The instance of MCMobilink with the history of each request. *)
EXTENDS MobilinkHistory, MCMobilink

\* The rest of the history decides no step, and no property of the run that
\* uses this view mentions it.
OwnersOnly == <<mvars, owners>>
=============================================================================
