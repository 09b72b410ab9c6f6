-------------------------------- MODULE MCAof --------------------------------
(* Instances of Aof for TLC. *)
EXTENDS Aof

CONSTANTS k1, l1, l2

Set(k, v) == [op |-> "set", key |-> k, val |-> v]
Incr(k) == [op |-> "incr", key |-> k, val |-> 0]
Del(k) == [op |-> "del", key |-> k, val |-> 0]
FlushAll == [op |-> "flushall", key |-> k1, val |-> 0]

SetAndFlush == {Set(k1, 1), FlushAll}
Incrs == {Incr(k1), Del(k1)}

AllPolicies == {"always", "everysec", "no"}
EverySec == {"everysec"}

OneKey == {k1}
OneLoop == {l1}
TwoLoops == {l1, l2}
==============================================================================
