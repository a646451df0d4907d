------------------------------ MODULE MCScripts ------------------------------
(***************************************************************************)
(* Instances of Scripts for TLC.  Keys are words like any other, so that a *)
(* misplaced argument can become a key.                                    *)
(***************************************************************************)
EXTENDS Scripts

CONSTANTS c1, c2, a, b

\* Half a second before the third one begins.
MCStart == 2 * TicksPerSec + TicksPerSec \div 2

Names(names, argss) == {Send(n, args) : n \in names, args \in argss}

\* Every write command, in good form and bad: too few and too many arguments,
\* words for numbers, options in any order, without their number and unknown.
ClientInputs ==
         Names({"SET"}, {<<a>>, <<a, b>>, <<a, 1, NX, GET>>, <<a, b, PX>>,
                         <<a, b, XX, EX, 1, NX>>, <<a, b, EX, b>>,
                         <<a, b, PX, 1, PX, 5>>, <<a, b, b>>,
                         <<a, b, EX, 6, PX, 3, GET>>, <<a, b, PXAT, 9, EX, 1>>,
                         <<a, b, EX, 1, EXAT, 3, NX>>})
    \cup {Send("SET", <<a, b, EXAT, n>>) : n \in {1, 3}}
    \cup {Send("SET", <<a, b, PXAT, n>>) : n \in {2, 5, 7, 9}}
    \cup Names({"SETEX"}, {<<a, 1, b>>, <<a, 0, b>>, <<a, b, b>>, <<a, 1>>})
    \cup Names({"APPEND", "GETSET"}, {<<a, b>>, <<a>>})
    \cup Names({"INCRBY"}, {<<a, 1>>, <<a, b>>, <<a>>})
    \cup Names({"DECRBY"}, {<<a, b>>, <<a>>})
    \cup Names({"INCR", "PERSIST"}, {<<a>>, <<a, 1>>})
    \cup Names({"EXPIRE"}, {<<a, 1>>, <<a, b>>, <<a>>})
    \cup Names({"MSET"}, {<<a, b>>, <<a, b, a, 1>>, <<a>>, <<a, b, b>>})
    \cup Names({"DEL", "UNLINK"}, {<<a>>, <<a, b>>, << >>})
    \cup Names({"FLUSHDB"}, {<< >>, <<SYNC>>, <<b>>})
    \cup Names({"HSET", "HSETNX"}, {<<a, b, b>>, <<a, b>>, <<a>>, <<a, b, a, a, b>>})
    \cup Names(WordOps, {<<a, b>>, <<a>>})
    \cup Names({"LPOP", "RPOP", "SPOP"}, {<<a>>, <<a, 1>>, <<a, b>>, <<a, -1>>})
    \cup Names({"LTRIM"}, {<<a, 0, 0>>, <<a, 0, b>>, <<a, 0>>, <<a>>})
    \cup Names({"LREM"}, {<<a, 0, b>>, <<a, b, b>>, <<a, 0>>, <<a>>})

\* A value and its lifetime.
ExpiryInputs == {Send("SET", <<a, b>>), Send("EXPIRE", <<a, 2>>)}

Call(name, args)  == [mode |-> "call", name |-> name, args |-> args]
PCall(name, args) == [mode |-> "pcall", name |-> name, args |-> args]

\* Scripts whose calls are well formed, and ones whose arguments are missing
\* or shifted; failing and panicking calls after a write.
ScriptBodies ==
    {<<Call("SET", <<a, 1, EXAT, 9>>), Call("TYPE", <<a>>), Call("GET", <<a>>)>>,
     <<Call("HSET", <<a, b, b>>), PCall("INCR", <<a>>), Call("EXISTS", <<a>>)>>,
     <<Call("LPUSH", <<a>>), Call("LTRIM", <<a>>)>>,
     <<Call("LPUSH", <<a>>), Call("HSET", <<a>>)>>,
     <<Call("SADD", <<a>>)>>, <<Call("HSET", <<a>>)>>,
     <<PCall("MSET", <<a, b>>), Call("MSET", <<a, b, a>>), PCall("GET", << >>)>>,
     <<Call("DEL", <<a>>)>>,
     <<Call("EXPIRE", <<a, 1>>), Call("PERSIST", <<a>>)>>,
     <<Call("SET", <<a, b, EX>>)>>, <<PCall("INCRBY", <<a>>)>>}

StoredBodies == {<<Call("APPEND", <<a, b>>), Call("DEL", <<b, a>>)>>}
=============================================================================
