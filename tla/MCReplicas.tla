----------------------------- MODULE MCReplicas -----------------------------
(***************************************************************************)
(* Instances of Replicas for TLC: three nodes, one key, and per question   *)
(* the commands that could break the answer.                               *)
(***************************************************************************)
EXTENDS Replicas, TLC

CONSTANTS n1, n2, n3, k1, a, b

MCStart == 2 * TicksPerSec

NodeSymmetry == Permutations({n1, n2, n3})

SetCmd(val, ttl, cond) ==
    [op |-> "SET", key |-> k1, val |-> val, ttl |-> ttl, cond |-> cond,
     get |-> FALSE]

IncrCmd == [op |-> "INCR", key |-> k1, by |-> <<1>>]
DelCmd  == [op |-> "DEL", key |-> None, keys |-> <<k1>>]
HSetCmd(f, v) == [op |-> "HSET", key |-> k1, pairs |-> <<<<f, v>>>>]

\* Commands whose outcome depends on those before them, with type errors, and
\* a value with a lifetime, overwritten and deleted.
OrderCommands ==
    {IncrCmd, DelCmd, SetCmd(<<0>>, 0, "NX"), HSetCmd(a, a),
     SetCmd(<<a>>, 3, ""), SetCmd(<<b>>, 6, "")}

\* Commands that overwrite what they find, or fail on it.
ReplayCommands ==
    {SetCmd(<<a>>, 0, ""), DelCmd, HSetCmd(a, b),
     [op |-> "MSET", pairs |-> <<<<k1, <<0>>>>>>]}

CounterCommands == {IncrCmd}
=============================================================================
