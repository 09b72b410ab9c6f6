----------------------------- MODULE MCCommands -----------------------------
(* Instances of Commands for TLC. *)
EXTENDS Commands

CONSTANTS k1, a, b, l1, l2

OneKey == {k1}
TwoMembers == {a, b}
TwoLoops == {l1, l2}

LoopSymmetry == Permutations(Loop)

Of(op, arg, val) == [op |-> op, key |-> k1, arg |-> arg, val |-> val]

\* Two bits: -2 to 1, and 5 is text.
Least == -2

AllCommands ==
    {Of("set", <<>>, <<1>>), Of("set", <<>>, <<5>>), Of("del", <<>>, <<>>),
     Of("incrby", <<>>, <<1>>), Of("incrby", <<>>, <<-1>>),
     Of("zadd", <<a>>, <<1>>), Of("zadd", <<a, b>>, <<2, 1>>), Of("zadd", <<a>>, <<0>>),
     Of("zincrby", <<b>>, <<1>>), Of("zrem", <<a>>, <<>>), Of("zrem", <<a, b>>, <<>>)}
=============================================================================
