------------------------------- MODULE MCZSet -------------------------------
(* Instances of ZSet for TLC. *)
EXTENDS ZSet

ThreeScores == -1 .. 1
=============================================================================
