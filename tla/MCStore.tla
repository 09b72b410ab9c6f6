------------------------------- MODULE MCStore -------------------------------
(* Instances of Store for TLC. *)
EXTENDS Store, TLC

CONSTANTS k1, k2, k3, t1, t2, text

ThreeKeys == {k1, k2, k3}
TwoKeys == {k1, k2}
OneThread == {t1}
TwoThreads == {t1, t2}

BothDeltas == {-1, 1}
MinusOne == -1
OneString == {text}

\* One shard for all keys, or k1 apart from the others.
OneShard == [k \in Key |-> 1]
TwoShards == [k \in Key |-> IF k = k1 THEN 1 ELSE 2]

\* Keys are interchangeable when they share one shard.
KeySymmetry == Permutations(Key)
ThreadSymmetry == Permutations(Thread)
==============================================================================
