------------------------------- MODULE Scripts -------------------------------
(***************************************************************************)
(* A node that serves client commands and Lua scripts (store/lua.go,       *)
(* server/lua_handlers.go).  A script runs in the transaction of its EVAL; *)
(* redis.call and redis.pcall run commands in that transaction, parsed by  *)
(* code of their own that shares no check with the handlers.               *)
(*                                                                         *)
(* The interpreter is external.  A script is the sequence of calls it      *)
(* makes, with KEYS and ARGV in their places, and returns the result of    *)
(* the last one; its SHA-1 stands for it.  A Go panic in a call ends the   *)
(* script with an error, as the interpreter's PCall recovers it.           *)
(***************************************************************************)
EXTENDS Handlers

CONSTANTS
    Conns,         \* client connections
    Inputs,        \* what clients send: a name and arguments
    Bodies,        \* the scripts clients send with EVAL
    Stored,        \* the scripts they store and name by their SHA-1
    Idle,          \* a connection with no command in flight
    MaxCount       \* bound on the numbers in the database

\* What stands at each position of the arguments of a command in good form:
\* keys, texts (values of strings), or words (fields, elements and members).
Positions(in) ==
    LET at(S) == {i \in S : i <= Len(in.args)}
        all   == 1 .. Len(in.args)
    IN  [keys  |-> IF in.name \in {"DEL", "UNLINK"} THEN all
                   ELSE IF in.name = "MSET" THEN {i \in all : i % 2 = 1}
                   ELSE IF in.name = "FLUSHDB" THEN {} ELSE at({1}),
         texts |-> IF in.name = "MSET" THEN {i \in all : i % 2 = 0}
                   ELSE IF in.name \in StringOps \cup CountOps THEN at({2})
                   ELSE IF in.name = "SETEX" THEN at({3}) ELSE {},
         words |-> IF in.name \in {"HSET", "HSETNX"} \cup WordOps THEN all \ {1}
                   ELSE IF in.name = "LREM" THEN at({3}) ELSE {}]

ASSUME InputsAssumption == \A in \in Inputs :
    /\ in.args \in Seq(Arguments)
    /\ Accepts(in) =>
         /\ \A i \in Positions(in).keys : in.args[i] \in Keys
         /\ \A i \in Positions(in).texts : in.args[i] \in Words \cup Int64
         /\ \A i \in Positions(in).words : in.args[i] \in Words

ASSUME BodiesAssumption == \A body \in Bodies \cup Stored :
    body \in Seq([mode : {"call", "pcall"}, name : STRING, args : Seq(Arguments)])

VARIABLES
    flight,        \* the command each connection waits for, and since when
    scripts        \* the scripts stored under the prefix "SCRIPT:"

serverVars == <<db, now, flight, scripts>>

ServerInit == /\ Init
              /\ flight = [c \in Conns |-> Idle]
              /\ scripts = {}

(***************************************************************************)
(* luaRedisCall.  s.name and s.args are what the script passes.            *)
(***************************************************************************)
LuaReads == {"GET", "TYPE", "EXISTS"}

\* Options that are not known are skipped, the absolute times among them.
LuaOptionsOK(a) ==
    \A i \in OptionsAt(a, {EX, PX}) :
        a[i] \in {EX, PX} => i < Len(a) /\ IsInt(a[i + 1])

LuaAccepts(s) == /\ s.name \in {"GET", "TYPE"} => Len(s.args) = 1
                 /\ s.name = "EXISTS" => Len(s.args) >= 1
                 /\ s.name = "SET" => Len(s.args) >= 2 /\ LuaOptionsOK(s.args)

\* Mutant: the first argument is the key and the first of the arguments.
parseKeyTwice(s) ==
    IF s.name = "SET" THEN SetCommand(s.args, {EX, PX}, 0)
    ELSE IF s.args = << >> THEN Cmd(s.name, None, << >>)
    ELSE Cmd(s.name, s.args[1], s.args)

\* Whatever the command, its first argument is the key and the others are
\* its arguments; only SET has a lifetime.
parseCommandForLua(s) ==
    IF s.name = "SET" THEN SetCommand(s.args, {EX, PX}, 0)
    ELSE IF s.args = << >> THEN Cmd(s.name, None, << >>)
    ELSE Cmd(s.name, s.args[1], Tail(s.args))

\* No type check, and TYPE looks at the type entry alone.
LuaRead(d, t, s) ==
    LET k == s.args[1]
    IN CASE s.name = "GET"  -> OldReply(d, t, k)
         [] s.name = "TYPE" -> [type |-> "bulk", str |->
                                  IF Live(d.T[k], t) THEN d.T[k].val ELSE "none"]
         [] s.name = "EXISTS" -> ExistsCount(d, t, s.args)

luaRedisCall(d, t, s) ==
    IF ~LuaAccepts(s) THEN {Fail(d, "ARGS")}
    ELSE IF s.name \in LuaReads THEN {Outcome(d, LuaRead(d, t, s))}
    ELSE Run(d, t, parseCommandForLua(s))

(***************************************************************************)
(* runLua.                                                                 *)
(***************************************************************************)
\* call raises the error of its command, pcall returns it in a table; a panic
\* is beyond both.
Raises(s, reply) == \/ reply.type = "panic"
                    \/ reply.type = "error" /\ s.mode = "call"

\* What remains of a reply on its way through Lua: a table ends in the default
\* branch of applyCommand.
LuaReply(reply) ==
    IF reply.type \in {"array", "set", "error"} THEN OKReply ELSE reply

\* The states a script can be in after its first i calls, as long as it has
\* not been stopped by an error.
Calls(d, t, body) ==
    LET outs[i \in 0 .. Len(body)] ==
          IF i = 0 THEN {Outcome(d, NilReply)}
          ELSE UNION {IF o.reply.type = "stopped" THEN {o}
                      ELSE {IF Raises(body[i], p.reply)
                            THEN Outcome(p.db, [type |-> "stopped"]) ELSE p :
                              p \in luaRedisCall(o.db, t, body[i])} :
                        o \in outs[i - 1]}
    IN  outs[Len(body)]

\* An error that ends the script discards the transaction.
runLua(d, t, body) ==
    {IF o.reply.type = "stopped" THEN Fail(d, "SCRIPT")
     ELSE Outcome(o.db, LuaReply(o.reply)) : o \in Calls(d, t, body)}

Bounded(d) ==
    /\ Fits(d)
    /\ \A k \in Keys : Exists(d, now, k) /\ IsInteger(StringOf(d, now, k)) =>
          StringOf(d, now, k)[1] \in -MaxCount .. MaxCount

(***************************************************************************)
(* Actions.  A command is parsed when it arrives and applied once Raft has *)
(* committed it.                                                           *)
(***************************************************************************)
Submit(c, in, cmd) ==
    /\ flight[c] = Idle
    /\ flight' = [flight EXCEPT ![c] = [in |-> in, cmd |-> cmd, at |-> now]]
    /\ UNCHANGED <<db, now, scripts>>

Receive(c) == \E in \in Inputs :
    /\ Accepts(in)
    /\ Submit(c, in, Handle(in, UnixMilli(now)))

\* EVAL, EVALSHA and SCRIPT LOAD, EXISTS and FLUSH.
ScriptOps == {"EVAL", "EVALSHA", "SCRIPT_LOAD", "SCRIPT_EXISTS", "SCRIPT_FLUSH"}

\* A request that fails the checks of its arity and of numkeys is answered at
\* once and changes nothing; what passes them is submitted.
ReceiveScript(c) == \E op \in ScriptOps :
    \E body \in IF op = "EVAL" THEN Bodies ELSE Stored :
        Submit(c, Send(op, << >>), [op |-> op, body |-> body])

Waits(c, ops) == flight[c] # Idle /\ flight[c].cmd.op \in ops

Answered(c) == flight' = [flight EXCEPT ![c] = Idle] /\ UNCHANGED now

Commit(c) ==
    /\ Waits(c, StoreOps)
    /\ \E o \in Run(db, now, flight[c].cmd) :
         o.reply.type # "panic" /\ Bounded(o.db) /\ db' = o.db
    /\ Answered(c) /\ UNCHANGED scripts

\* EVALSHA of a script that is not stored answers NOSCRIPT.
Eval(c) ==
    /\ Waits(c, {"EVAL", "EVALSHA"})
    /\ IF flight[c].cmd.op = "EVAL" \/ flight[c].cmd.body \in scripts
       THEN \E o \in runLua(db, now, flight[c].cmd.body) :
              Bounded(o.db) /\ db' = o.db
       ELSE UNCHANGED db
    /\ Answered(c) /\ UNCHANGED scripts

ScriptLoad(c) == /\ Waits(c, {"SCRIPT_LOAD"})
                 /\ scripts' = scripts \cup {flight[c].cmd.body}
                 /\ Answered(c) /\ UNCHANGED db

\* The answer, a []int64, reaches the client as OK.
ScriptExists(c) == /\ Waits(c, {"SCRIPT_EXISTS"})
                   /\ Answered(c) /\ UNCHANGED <<db, scripts>>

\* The deletes share the iterator's key buffers, which it fills again before
\* the transaction commits: any of them may name another script.
ScriptFlush(c) == /\ Waits(c, {"SCRIPT_FLUSH"})
                  /\ scripts' \in SUBSET scripts
                  /\ Answered(c) /\ UNCHANGED db

Pass == Tick /\ UNCHANGED <<flight, scripts>>

ServerNext ==
    \/ \E c \in Conns : \/ Receive(c) \/ ReceiveScript(c) \/ Commit(c)
                        \/ Eval(c) \/ ScriptLoad(c) \/ ScriptExists(c)
                        \/ ScriptFlush(c)
    \/ Pass

ServerSpec == ServerInit /\ [][ServerNext]_serverVars

(***************************************************************************)
(* Properties.                                                             *)
(***************************************************************************)
\* Type invariant.
ServerTypeOK ==
    /\ db \in Databases /\ now \in Nat
    /\ scripts \subseteq Stored
    /\ \A c \in Conns : flight[c] # Idle =>
          /\ flight[c].cmd.op \in StoreOps \cup ScriptOps
          /\ flight[c].at \in Start .. now

\* Whatever a client sends, the command its handler puts in the Raft log is
\* one that every replica can apply: none is malformed, none indexes an
\* argument that is not there (which would end the process of every replica,
\* again at each restart), and all belong to the commands FSM is proved for.
NothingPanics == \A c \in Conns : Waits(c, StoreOps) =>
    LET cmd == flight[c].cmd
    IN  ~Malformed(cmd) /\ ~Panics(cmd) /\ Decode(cmd) \in CommandSpace

\* The absolute times, in milliseconds, that the options at some positions of a
\* SET ask for.
TimesAt(a, S) == {IF a[i] = EXAT THEN a[i + 1] * MsPerSec ELSE a[i + 1] :
                    i \in {j \in S : a[j] \in {EXAT, PXAT}}}

Deadlines(in) == TimesAt(in.args, OptionsAt(in.args, Timed))

\* Of several lifetimes the last one counts.
LastDeadline(in) ==
    LET timed == {i \in OptionsAt(in.args, Timed) : in.args[i] \in Timed}
    IN  TimesAt(in.args, {i \in timed : \A j \in timed : j <= i})

\* A SET with an absolute expiry is turned into a lifetime by the handler and
\* back into an expiry when it is applied.  However long Raft takes, the key
\* does expire, not before the second of its deadline, and late by no more
\* than the command waited; a deadline that has passed ends within a
\* millisecond.  (The very millisecond of the deadline is the exception: the
\* lifetime 0 means none.)
DeadlinesHold ==
    [][\A c \in Conns : Waits(c, {"SET"}) /\ flight'[c] = Idle =>
         LET in   == flight[c].in
             k    == in.args[1]
             ms   == UnixMilli(flight[c].at)
             wait == now - flight[c].at + TicksPerMs
         IN  in.name = "SET" => \A dl \in LastDeadline(in) : db' # db =>
               /\ dl > ms => /\ db'.K[k].exp >= dl \div MsPerSec
                             /\ db'.K[k].exp <= (dl * TicksPerMs + wait) \div TicksPerSec
               /\ dl < ms => /\ db'.K[k].exp # 0
                             /\ db'.K[k].exp <= (now + TicksPerMs) \div TicksPerSec
      ]_serverVars

\* No command is in flight: a database is checked once, not with every command
\* that may wait meanwhile.
Quiet == \A c \in Conns : flight[c] = Idle

\* The expiry of a key after a sequence of client commands that arrive and
\* are applied now.
ExpiryAfter(k, ins) ==
    LET run[i \in 0 .. Len(ins)] ==
          IF i = 0 THEN db
          ELSE (CHOOSE o \in Run(run[i - 1], now, Handle(ins[i], UnixMilli(now))) :
                  TRUE).db
    IN  run[Len(ins)].K[k].exp

\* The ways to give a value a lifetime of some seconds agree on its expiry: EX
\* and SETEX, PX with the milliseconds, EXAT with the second, PXAT with the
\* millisecond, and EXPIRE after a plain SET; whatever string and lifetime the
\* key had before.
LifetimeFormsAgree == Quiet =>
    \A k \in {j \in Keys : Type(db, now, j) \in {"none", "string"}},
       v \in Words, secs \in 1 .. 2 :
        LET sec == now \div TicksPerSec
        IN  {ExpiryAfter(k, ins) : ins \in
               {<<Send("SETEX", <<k, secs, v>>)>>,
                <<Send("SET", <<k, v, EX, secs>>)>>,
                <<Send("SET", <<k, v, PX, secs * MsPerSec>>)>>,
                <<Send("SET", <<k, v, EXAT, sec + secs>>)>>,
                <<Send("SET", <<k, v, PXAT, (sec + secs) * MsPerSec>>)>>,
                <<Send("SET", <<k, v>>), Send("EXPIRE", <<k, secs>>)>>}}
            = {sec + secs}

\* Commands that scripts send in the form clients do.
Shared == StoreOps \ {"DEL", "MSET", "EXPIRE"}

CallAgrees(in) ==
    Run(db, now, Handle(in, UnixMilli(now)))
        = luaRedisCall(db, now, [name |-> in.name, args |-> in.args])

\* On every database, redis.call of a command that a handler accepts has the
\* effect and the result the client's command has: for all the commands that
\* name their key first and have no lifetime field, and for SET with relative
\* lifetimes.
CallsAgree == Quiet => \A in \in Inputs :
    in.name \in Shared /\ Accepts(in) /\ Deadlines(in) = {} => CallAgrees(in)

(***************************************************************************)
(* What the documentation says, and the code does not do.                  *)
(***************************************************************************)
\* A scripted command does what the same command of a client does.
ScriptedCommandsAgree == \A in \in Inputs :
    in.name \in StoreOps /\ Accepts(in) /\ Deadlines(in) = {} => CallAgrees(in)
=============================================================================
