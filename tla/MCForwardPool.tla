---------------------------- MODULE MCForwardPool ----------------------------
(* Instances of ForwardPool for TLC. *)
EXTENDS ForwardPool

\* The longest body one that fits a frame, the longest one the cap
\* lets in, and one beyond the cap.
BodyLengths == {MaxFrame - Overhead, MaxBody, MaxBody + 1}
=============================================================================
