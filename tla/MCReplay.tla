------------------------------ MODULE MCReplay ------------------------------
(* Instances of Replay for TLC. *)
EXTENDS Replay

Values == {3, 5}
AllOps == {"set", "keep", "incr", "del", "expire"}
=============================================================================
