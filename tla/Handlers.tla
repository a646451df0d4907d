------------------------------ MODULE Handlers ------------------------------
(***************************************************************************)
(* The command handlers of server/server.go in front of the state machine. *)
(* A client sends a name and arguments; the handler checks their number    *)
(* and form and answers with an error, reads the local database, or hands  *)
(* Raft a store.Command and waits.  FSM.Apply decodes that command later,  *)
(* when the clock has moved on: what the handlers let through is what      *)
(* every replica has to cope with.                                         *)
(*                                                                         *)
(* An argument is a key, a word, an integer or an option word.  Raft is    *)
(* external and never fails here; module Replicas has its failures.        *)
(***************************************************************************)
EXTENDS FSM

CONSTANTS EX, PX, EXAT, PXAT, NX, XX, GET, SYNC     \* option words

Timed   == {EX, PX, EXAT, PXAT}
Options == Timed \cup {NX, XX, GET}

ASSUME OptionsAssumption ==
    /\ EX \notin {PX, EXAT, PXAT} /\ PX \notin {EXAT, PXAT} /\ EXAT # PXAT
    /\ {NX, XX, GET} \cap Timed = {} /\ NX # XX /\ GET \notin {NX, XX}

Arguments == Keys \cup Words \cup Int64 \cup Options \cup {SYNC}

IsInt(t) == t \in Int64

\* strconv.Atoi with its error ignored.
Atoi(t) == IF IsInt(t) THEN t ELSE 0

UnixMilli(t) == t \div TicksPerMs

(***************************************************************************)
(* store.Command, and what applyCmdInTxn makes of its fields.              *)
(***************************************************************************)
Cmd(op, key, args) ==
    [op |-> op, key |-> key, args |-> args, ttl |-> 0, cond |-> "",
     get |-> FALSE]

StringOps == {"SET", "GETSET", "APPEND"}
CountOps  == {"INCRBY", "DECRBY"}
PairOps   == {"MSET", "HSET", "HSETNX"}
WordOps   == {"HDEL", "SREM", "SADD", "LPUSH", "RPUSH", "LPUSHX", "RPUSHX"}
BoundOps  == {"LTRIM", "LREM"}
StoreOps  == StringOps \cup CountOps \cup PairOps \cup WordOps \cup BoundOps
             \cup {"DEL", "FLUSHDB", "INCR", "DECR", "EXPIRE", "PERSIST",
                   "LPOP", "RPOP", "SPOP"}

\* Refused before the database is read.
Malformed(c) == \/ c.op \notin StoreOps
                \/ c.op \in StringOps /\ c.args = << >>
                \/ c.op \in PairOps /\ Len(c.args) % 2 # 0

\* cmd.Args[0] or cmd.Args[1] is indexed and not there.
Panics(c) == \/ c.op \in CountOps /\ c.args = << >>
             \/ c.op \in BoundOps /\ Len(c.args) < 2

Decode(c) ==
    LET args  == c.args
        pairs == [i \in 1 .. (Len(args) \div 2) |->
                     <<args[2 * i - 1], args[2 * i]>>]
    IN CASE c.op = "SET" -> [op |-> "SET", key |-> c.key, val |-> <<args[1]>>,
                             ttl |-> c.ttl, cond |-> c.cond, get |-> c.get]
         [] c.op \in {"GETSET", "APPEND"} ->
              [op |-> c.op, key |-> c.key, val |-> <<args[1]>>]
         [] c.op = "MSET" ->
              [op |-> "MSET", pairs |->
                 [i \in DOMAIN pairs |-> <<pairs[i][1], <<pairs[i][2]>>>>]]
         [] c.op = "DEL" -> [op |-> "DEL", key |-> c.key, keys |-> args]
         [] c.op = "FLUSHDB" -> [op |-> "FLUSHDB"]
         [] c.op \in {"INCR", "DECR"} -> [op |-> c.op, key |-> c.key, by |-> <<1>>]
         [] c.op \in CountOps -> [op |-> c.op, key |-> c.key, by |-> <<args[1]>>]
         [] c.op = "EXPIRE" -> [op |-> "EXPIRE", key |-> c.key, ttl |-> c.ttl]
         [] c.op = "PERSIST" -> [op |-> "PERSIST", key |-> c.key]
         [] c.op \in {"HSET", "HSETNX"} ->
              [op |-> c.op, key |-> c.key, pairs |-> pairs]
         [] c.op \in WordOps -> [op |-> c.op, key |-> c.key, words |-> args]
         [] c.op \in {"LPOP", "RPOP"} ->     \* a word is refused like -1
              [op |-> c.op, key |-> c.key, count |->
                 IF args = << >> THEN << >>
                 ELSE <<IF IsInt(args[1]) THEN args[1] ELSE -1>>]
         [] c.op = "SPOP" ->
              [op |-> "SPOP", key |-> c.key, count |->
                 IF args = << >> THEN << >> ELSE <<Atoi(args[1])>>]
         [] c.op = "LTRIM" -> [op |-> "LTRIM", key |-> c.key,
                               start |-> Atoi(args[1]), stop |-> Atoi(args[2])]
         [] c.op = "LREM" -> [op |-> "LREM", key |-> c.key,
                              limit |-> Atoi(args[1]), val |-> args[2]]

PanicReply == [type |-> "panic"]

\* The value is read and its type checked before the missing argument is.
RunToPanic(d, t, c) ==
    IF c.op \in BoundOps THEN Typed(d, t, c.key, "list", Outcome(d, PanicReply))
    ELSE Typed(d, t, c.key, "string",
            IF Exists(d, t, c.key) /\ ~IsInteger(StringOf(d, t, c.key))
            THEN Fail(d, "NOTINTEGER") ELSE Outcome(d, PanicReply))

Run(d, t, c) ==
    IF Malformed(c) THEN {Fail(d, "ARGS")}
    ELSE IF Panics(c) THEN {RunToPanic(d, t, c)}
    ELSE applyCmdInTxn(d, t, Decode(c))

(***************************************************************************)
(* The handlers.  in.args leaves out the name.                             *)
(***************************************************************************)
Send(name, args) == [name |-> name, args |-> args]

\* The numbers of arguments the handlers let pass, family by family.
KeyArity(name, n) ==
    \/ name \in {"DEL", "UNLINK"} /\ n >= 1
    \/ name = "PERSIST" /\ n = 1
    \/ name = "EXPIRE" /\ n = 2

StringArity(name, n) ==
    \/ name = "SET" /\ n >= 2
    \/ name = "MSET" /\ n >= 2 /\ n % 2 = 0
    \/ name \in {"APPEND", "GETSET", "INCRBY", "DECRBY"} /\ n = 2
    \/ name = "SETEX" /\ n = 3
    \/ name = "FLUSHDB" /\ n \in {0, 1}
    \/ name \in {"INCR", "DECR"} /\ n = 1

HashArity(name, n) ==
    \/ name = "HSET" /\ n >= 3 /\ n % 2 = 1
    \/ name = "HSETNX" /\ n = 3
    \/ name = "HDEL" /\ n >= 2

ListArity(name, n) ==
    \/ name \in {"LPUSH", "LPUSHX", "RPUSH", "RPUSHX"} /\ n >= 2
    \/ name \in {"LPOP", "RPOP"} /\ n \in {1, 2}
    \/ name \in BoundOps /\ n = 3

SetArity(name, n) ==
    \/ name \in {"SADD", "SREM"} /\ n >= 2
    \/ name = "SPOP" /\ n \in {1, 2}

Arity(name, n) == \/ KeyArity(name, n) \/ StringArity(name, n)
                  \/ HashArity(name, n) \/ ListArity(name, n) \/ SetArity(name, n)

\* Mutant: INCRBY and DECRBY are checked like INCR and DECR.
ArityKeyOnly(in) == \/ Arity(in.name, Len(in.args))
                    \/ in.name \in CountOps /\ Len(in.args) = 1

ArityOK(in) == Arity(in.name, Len(in.args))

\* The arguments the handlers themselves parse.
FormOK(in) ==
    LET args == in.args
    IN  /\ in.name = "SETEX" => IsInt(args[2]) /\ args[2] > 0
        /\ in.name = "EXPIRE" => IsInt(args[2])
        /\ in.name \in BoundOps => IsInt(args[2])
        /\ in.name = "LTRIM" => IsInt(args[3])
        /\ in.name = "SPOP" /\ Len(args) = 2 => IsInt(args[2]) /\ args[2] >= 0
        /\ in.name = "FLUSHDB" /\ args # << >> => args[1] = SYNC

\* The positions that the loop over SET's arguments reads as options: those
\* that are not the number of a timed option before them.
OptionsAt(a, timed) ==
    LET opt[i \in 3 .. Len(a)] == i = 3 \/ ~(opt[i - 1] /\ a[i - 1] \in timed)
    IN  {i \in 3 .. Len(a) : opt[i]}

OptionsOK(a) ==
    \A i \in OptionsAt(a, Timed) :
        /\ a[i] \in Options
        /\ a[i] \in Timed => i < Len(a) /\ IsInt(a[i + 1])

\* Mutant: EX is taken for milliseconds.
LifetimeUnscaled(o, n, ms) == IF o \in {EX, PX} THEN n ELSE 1

\* Mutant: a time that has passed becomes a lifetime of 0.
LifetimePastForgotten(o, n, ms) ==
    LET left(t) == Wrap64(t - ms)
        ahead(t) == IF left(t) < 0 THEN 0 ELSE left(t)
    IN CASE o = EX   -> Wrap64(n * MsPerSec)
         [] o = PX   -> n
         [] o = EXAT -> ahead(Wrap64(n * MsPerSec))
         [] o = PXAT -> ahead(n)

\* A time that has passed becomes a lifetime of a millisecond, the present
\* millisecond one of 0, which means none.
Lifetime(o, n, ms) ==
    LET left(t) == Wrap64(t - ms)
        ahead(t) == IF left(t) < 0 THEN 1 ELSE left(t)
    IN CASE o = EX   -> Wrap64(n * MsPerSec)
         [] o = PX   -> n
         [] o = EXAT -> ahead(Wrap64(n * MsPerSec))
         [] o = PXAT -> ahead(n)

\* Of several options of a kind the last one counts.
SetCommand(a, timed, ms) ==
    LET at(S)   == {i \in OptionsAt(a, timed) : a[i] \in S}
        last(S) == CHOOSE i \in at(S) : \A j \in at(S) : j <= i
    IN  [Cmd("SET", a[1], <<a[2]>>) EXCEPT
            !.ttl  = IF at(timed) = {} THEN 0
                     ELSE Lifetime(a[last(timed)], a[last(timed) + 1], ms),
            !.cond = IF at({NX, XX}) = {} THEN ""
                     ELSE IF a[last({NX, XX})] = NX THEN "NX" ELSE "XX",
            !.get  = at({GET}) # {}]

Accepts(in) == /\ ArityOK(in)
               /\ FormOK(in)
               /\ in.name = "SET" => OptionsOK(in.args)

\* Mutant: UNLINK is passed on under its own name.
HandleByName(in, ms) ==
    IF in.args = << >> THEN Cmd(in.name, None, << >>)
    ELSE Cmd(in.name, in.args[1], Tail(in.args))

\* The command a handler gives to applyCommand at a millisecond.
Handle(in, ms) ==
    LET args == in.args
    IN CASE in.name = "SET" -> SetCommand(args, Timed, ms)
         [] in.name = "SETEX" ->
              [Cmd("SET", args[1], <<args[3]>>) EXCEPT
                 !.ttl = Wrap64(args[2] * MsPerSec)]
         [] in.name = "EXPIRE" ->
              [Cmd("EXPIRE", args[1], << >>) EXCEPT
                 !.ttl = Wrap64(args[2] * MsPerSec)]
         [] in.name \in {"DEL", "UNLINK"} -> Cmd("DEL", None, args)
         [] in.name = "MSET" -> Cmd("MSET", None, args)
         [] in.name = "FLUSHDB" -> Cmd("FLUSHDB", None, << >>)
         [] OTHER -> Cmd(in.name, args[1], Tail(args))
=============================================================================
