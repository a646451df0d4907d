------------------------------- MODULE MCFSM -------------------------------
(***************************************************************************)
(* Instances of FSM for TLC.  A second has two milliseconds of two ticks:  *)
(* the smallest clock in which both roundings lose something.              *)
(***************************************************************************)
EXTENDS FSM

CONSTANTS k1, k2, a, b

MCStart == 2 * TicksPerSec

SetCmd(k, val, ttl, cond, get) ==
    [op |-> "SET", key |-> k, val |-> val, ttl |-> ttl, cond |-> cond,
     get |-> get]

KeyCmds(ops)       == {[op |-> o, key |-> k1] : o \in ops}
WordCmds(ops, ws)  == {[op |-> o, key |-> k1, words |-> w] : o \in ops, w \in ws}
PairCmds(ops, ps)  == {[op |-> o, key |-> k1, pairs |-> p] : o \in ops, p \in ps}
CountCmds(ops, cs) == {[op |-> o, key |-> k1, count |-> c] : o \in ops, c \in cs}
ExpireCmds(ts)     == {[op |-> "EXPIRE", key |-> k1, ttl |-> t] : t \in ts}
DelCmds(kss)       == {[op |-> "DEL", key |-> None, keys |-> s] : s \in kss}
IncrCmds(ops, bys) == {[op |-> o, key |-> k1, by |-> y] : o \in ops, y \in bys}

\* Every type on one key, and every command that touches a lifetime.
LifetimeCommands ==
         {SetCmd(k1, <<a>>, t, "", FALSE) : t \in {-1, 0, 1, 2}}
    \cup {[op |-> "APPEND", key |-> k1, val |-> <<b>>],
          [op |-> "MSET", pairs |-> <<<<k1, <<a>>>>>>]}
    \cup ExpireCmds({-2, 0, 2, 4})
    \cup KeyCmds({"PERSIST"})
    \cup DelCmds({<<k1>>})
    \cup {[op |-> "FLUSHDB"]}
    \cup PairCmds({"HSET"}, {<<<<a, b>>>>, <<<<b, b>>>>})
    \cup WordCmds({"HDEL"}, {<<a>>})
    \cup WordCmds({"LPUSH", "RPUSHX"}, {<<a>>})
    \cup CountCmds({"LPOP"}, {<< >>})
    \cup WordCmds({"SADD"}, {<<a>>, <<b>>})
    \cup CountCmds({"SPOP"}, {<< >>})

\* The string commands, with their options, on two keys.
StringCommands ==
         {SetCmd(k1, <<0>>, 0, cond, get) : cond \in {"", "NX", "XX"},
                                            get \in BOOLEAN}
    \cup {[op |-> o, key |-> k1, val |-> <<a>>] : o \in {"GETSET", "APPEND"}}
    \cup IncrCmds({"INCR", "DECR"}, {<<1>>})
    \cup IncrCmds({"INCRBY", "DECRBY"}, {<<3>>, <<-4>>, <<a>>})
    \cup {[op |-> "MSET", pairs |-> p] :
            p \in {<<<<k1, <<2>>>>, <<k2, <<a>>>>>>,
                   <<<<k2, <<b>>>>, <<k2, <<1>>>>>>}}
    \cup DelCmds({<<k1>>, <<k1, k2, k1>>})
    \cup {[op |-> "FLUSHDB"]}
    \cup PairCmds({"HSET"}, {<<<<a, b>>>>})

\* The commands on collections, with repeated and excessive arguments.
CollectionCommands ==
         PairCmds({"HSET", "HSETNX"}, {<<<<a, a>>>>, <<<<a, b>>, <<b, a>>>>,
                                       <<<<b, b>>, <<b, a>>>>})
    \cup WordCmds({"HDEL", "SREM"}, {<<a>>, <<b, a, b>>})
    \cup WordCmds({"LPUSH", "RPUSH"}, {<<a>>, <<a, b>>})
    \cup WordCmds({"LPUSHX", "RPUSHX"}, {<<b>>})
    \cup CountCmds({"LPOP", "RPOP"}, {<< >>, <<-1>>, <<0>>, <<2>>})
    \cup {[op |-> "LTRIM", key |-> k1, start |-> s, stop |-> t] :
            s \in {-2, 0, 1}, t \in {-1, 0, 5}}
    \cup {[op |-> "LREM", key |-> k1, limit |-> n, val |-> a] :
            n \in {-1, 0, 1}}
    \cup WordCmds({"SADD"}, {<<a>>, <<b, b>>, <<a, b>>})
    \cup CountCmds({"SPOP"}, {<< >>, <<0>>, <<1>>, <<3>>})
    \cup DelCmds({<<k1, k1>>})
    \cup {SetCmd(k1, <<a>>, 0, "", FALSE)}

DataCommands == StringCommands \cup CollectionCommands
=============================================================================
