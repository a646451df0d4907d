----------------------------- MODULE Commands ------------------------------
(***************************************************************************)
(* The commands that FSM.Apply runs in one Badger transaction              *)
(* (store/fsm.go, applyCmdInTxn).  Each operator maps the database, the    *)
(* instant of the transaction and the command to an outcome: the database  *)
(* the transaction leaves and the reply.  An error discards the            *)
(* transaction, so a failed outcome keeps the database.                    *)
(*                                                                         *)
(* Badger reads the clock on every call of a transaction; the model reads  *)
(* it once.                                                                *)
(***************************************************************************)
EXTENDS Store

(***************************************************************************)
(* Replies.                                                                *)
(***************************************************************************)
OKReply        == [type |-> "ok"]
NilReply       == [type |-> "nil"]
IntReply(n)    == [type |-> "int", int |-> n]
BulkReply(s)   == [type |-> "bulk", str |-> s]
ArrayReply(s)  == [type |-> "array", seq |-> s]
\* An array in the order of a Go map iteration: only its elements matter.
SetReply(m)    == [type |-> "set", mem |-> m]
ErrorReply(e)  == [type |-> "error", err |-> e]

Outcome(db, reply) == [db |-> db, reply |-> reply]
Fail(db, e)        == Outcome(db, ErrorReply(e))

(***************************************************************************)
(* What every command that reads a value before writing it does first: a   *)
(* live key must carry the wanted type, and a collection must decode.      *)
(***************************************************************************)
WrongType(db, now, k, want) ==
    Exists(db, now, k) /\ ~ensureExistingType(db, now, k, want)

\* A value of another kind counts as one that does not decode.  (A list and a
\* set are encoded alike, but a key typed as one never holds the other.)
DecodeFails(db, now, k, want) ==
    want # "string" /\ Exists(db, now, k) /\ db.K[k].val.kind # want

Typed(db, now, k, want, outcome) ==
    IF WrongType(db, now, k, want) THEN Fail(db, "WRONGTYPE")
    ELSE IF DecodeFails(db, now, k, want) THEN Fail(db, "DECODE")
    ELSE outcome

Holds(db, now, k, kind) == Exists(db, now, k) /\ db.K[k].val.kind = kind

StringOf(db, now, k) ==
    IF Exists(db, now, k) THEN AsString(db.K[k].val) ELSE << >>
HashOf(db, now, k) ==
    IF Holds(db, now, k, "hash") THEN db.K[k].val.map ELSE [f \in {} |-> f]
ListOf(db, now, k) ==
    IF Holds(db, now, k, "list") THEN db.K[k].val.seq ELSE << >>
MembersOf(db, now, k) ==
    IF Holds(db, now, k, "set") THEN db.K[k].val.mem ELSE {}

\* Mutant: a mutation forgets the lifetime.
oldTTLMsForgotten(db, now, k) == 0

\* Mutant: the lifetime of an expired entry is passed on.
oldTTLMsStored(db, now, k) ==
    IF db.K[k] # None THEN remainingTTLMs(db.K[k], now) ELSE 0

\* The lifetime a mutation passes on.
oldTTLMs(db, now, k) ==
    IF Exists(db, now, k) THEN remainingTTLMs(db.K[k], now) ELSE 0

Replace(db, now, k, val) ==
    setValue(db, now, k, val, val.kind, oldTTLMs(db, now, k))

\* Mutant: an emptied collection is stored.
ReplaceAlways(db, now, k, val, empty) == Replace(db, now, k, val)

ReplaceOrDelete(db, now, k, val, empty) ==
    IF empty THEN Delete(db, {k}) ELSE Replace(db, now, k, val)

(***************************************************************************)
(* Strings.                                                                *)
(***************************************************************************)
setKey(c, exists) == /\ c.cond = "NX" => ~exists
                     /\ c.cond = "XX" => exists

OldReply(db, now, k) ==
    IF Exists(db, now, k) THEN BulkReply(StringOf(db, now, k)) ELSE NilReply

SET(db, now, c) ==
    LET k   == c.key
        set == setKey(c, Exists(db, now, k))
    IN  Typed(db, now, k, "string",
            Outcome(IF set THEN setValue(db, now, k, Str(c.val), "string", c.ttl)
                           ELSE db,
                    IF c.get THEN OldReply(db, now, k)
                    ELSE IF set THEN OKReply ELSE NilReply))

GETSET(db, now, c) ==
    Typed(db, now, c.key, "string",
        Outcome(setValue(db, now, c.key, Str(c.val), "string", 0),
                OldReply(db, now, c.key)))

APPEND(db, now, c) ==
    LET new == StringOf(db, now, c.key) \o c.val
    IN  Typed(db, now, c.key, "string",
            Outcome(Replace(db, now, c.key, Str(new)), IntReply(Len(new))))

\* Mutant: MSET leaves the type entry of the key it overwrites.
MSETValueOnly(db, now, c) ==
    LET at(k) == {i \in DOMAIN c.pairs : c.pairs[i][1] = k}
        val(k) == c.pairs[CHOOSE i \in at(k) : TRUE][2]
    IN  Outcome([db EXCEPT !.K =
                   [k \in Keys |-> IF at(k) = {} THEN db.K[k]
                                   ELSE [val |-> Str(val(k)), exp |-> 0]]],
                OKReply)

\* No type check: MSET overwrites a key of any type.  The last pair wins.
MSET(db, now, c) ==
    LET at(k)    == {i \in DOMAIN c.pairs : c.pairs[i][1] = k}
        val(k)   == c.pairs[CHOOSE i \in at(k) : \A j \in at(k) : j <= i][2]
    IN  Outcome(
          [K |-> [k \in Keys |-> IF at(k) = {} THEN db.K[k]
                                 ELSE [val |-> Str(val(k)), exp |-> 0]],
           T |-> [k \in Keys |-> IF at(k) = {} THEN db.T[k]
                                 ELSE [val |-> "string", exp |-> 0]]],
          OKReply)

\* Without arguments DEL falls back on c.key, and leaves its type entry; no
\* handler sends that.
DEL(db, now, c) ==
    LET gone == {k \in Keys : (\E i \in DOMAIN c.keys : c.keys[i] = k)
                              /\ Exists(db, now, k)}
        lone == c.keys = << >> /\ c.key # None /\ Exists(db, now, c.key)
    IN  IF lone
        THEN Outcome([db EXCEPT !.K = [@ EXCEPT ![c.key] = None]], IntReply(1))
        ELSE Outcome(Delete(db, gone), IntReply(Cardinality(gone)))

\* The iterators visit live entries only, K entries and T entries apart.
FLUSHDB(db, now, c) ==
    Outcome([K |-> [k \in Keys |-> IF Live(db.K[k], now) THEN None ELSE db.K[k]],
             T |-> [k \in Keys |-> IF Live(db.T[k], now) THEN None ELSE db.T[k]]],
            OKReply)

\* INCR, DECR, INCRBY and DECRBY: c.by is the argument, <<1>> without one.
INCR(db, now, c) ==
    LET k   == c.key
        old == IF Exists(db, now, k) THEN StringOf(db, now, k) ELSE <<0>>
        new == Wrap64(IF c.op \in {"INCR", "INCRBY"} THEN old[1] + c.by[1]
                                                     ELSE old[1] - c.by[1])
    IN  Typed(db, now, k, "string",
            IF IsInteger(old) /\ IsInteger(c.by)
            THEN Outcome(Replace(db, now, k, Str(<<new>>)), IntReply(new))
            ELSE Fail(db, "NOTINTEGER"))

(***************************************************************************)
(* Lifetimes.  EXPIRE rewrites the value entry only, with whatever TTL the *)
(* client gave; PERSIST writes both entries, and takes a key without a     *)
(* live type entry for a string.                                           *)
(***************************************************************************)
\* Mutant: EXPIRE revives a value that has expired and is still stored.
EXPIREStored(db, now, c) ==
    IF db.K[c.key] # None
    THEN Outcome([db EXCEPT !.K = [@ EXCEPT ![c.key] =
                     [val |-> db.K[c.key].val, exp |-> WithTTL(now, c.ttl)]]],
                 IntReply(1))
    ELSE Outcome(db, IntReply(0))

EXPIRE(db, now, c) ==
    IF Exists(db, now, c.key)
    THEN Outcome([db EXCEPT !.K = [@ EXCEPT ![c.key] =
                     [val |-> db.K[c.key].val, exp |-> WithTTL(now, c.ttl)]]],
                 IntReply(1))
    ELSE Outcome(db, IntReply(0))

\* Mutant: PERSIST rewrites the value entry only, as EXPIRE does.
PERSISTValueOnly(db, now, c) ==
    LET k == c.key
    IN  IF Exists(db, now, k) /\ db.K[k].exp # 0
        THEN Outcome([db EXCEPT !.K = [@ EXCEPT ![k] =
                         [val |-> db.K[k].val, exp |-> 0]]], IntReply(1))
        ELSE Outcome(db, IntReply(0))

PERSIST(db, now, c) ==
    LET k == c.key
    IN  IF Exists(db, now, k) /\ db.K[k].exp # 0
        THEN Outcome(setValue(db, now, k, db.K[k].val,
                              getExistingType(db, now, k), 0), IntReply(1))
        ELSE Outcome(db, IntReply(0))

(***************************************************************************)
(* Hashes.                                                                 *)
(***************************************************************************)
\* HSET and HSETNX over field-value pairs.  In HSET the last pair of a
\* field wins, in HSETNX the first one, and only for a new field.
HSET(db, now, c) ==
    LET old    == HashOf(db, now, c.key)
        at(f)  == {i \in DOMAIN c.pairs : c.pairs[i][1] = f}
        fields == {f \in Words : at(f) # {}}
        nx     == c.op = "HSETNX"
        val(f) == c.pairs[CHOOSE i \in at(f) :
                            \A j \in at(f) : IF nx THEN i <= j ELSE j <= i][2]
        new    == [f \in DOMAIN old \cup fields |->
                      IF f \notin fields \/ (nx /\ f \in DOMAIN old)
                      THEN old[f] ELSE val(f)]
    IN  Typed(db, now, c.key, "hash",
            Outcome(Replace(db, now, c.key, Hash(new)),
                    IntReply(Cardinality(fields \ DOMAIN old))))

HDEL(db, now, c) ==
    LET old  == HashOf(db, now, c.key)
        gone == {f \in DOMAIN old : \E i \in DOMAIN c.words : c.words[i] = f}
        new  == [f \in DOMAIN old \ gone |-> old[f]]
    IN  Typed(db, now, c.key, "hash",
            IF Exists(db, now, c.key)
            THEN Outcome(ReplaceOrDelete(db, now, c.key, Hash(new),
                                         DOMAIN new = {}),
                         IntReply(Cardinality(gone)))
            ELSE Outcome(db, IntReply(0)))

(***************************************************************************)
(* Lists.                                                                  *)
(***************************************************************************)
Reversed(s) == [i \in 1 .. Len(s) |-> s[Len(s) + 1 - i]]

\* LPUSH, RPUSH, LPUSHX and RPUSHX.
PUSH(db, now, c) ==
    LET old == ListOf(db, now, c.key)
        new == IF c.op \in {"LPUSH", "LPUSHX"} THEN Reversed(c.words) \o old
                                               ELSE old \o c.words
    IN  Typed(db, now, c.key, "list",
            IF c.op \in {"LPUSHX", "RPUSHX"} /\ ~Exists(db, now, c.key)
            THEN Outcome(db, IntReply(0))
            ELSE Outcome(Replace(db, now, c.key, List(new)),
                         IntReply(Len(new))))

\* Mutant: RPOP keeps one element too few.
POPOffByOne(db, now, c) ==
    LET old == ListOf(db, now, c.key)
        new == IF c.op = "LPOP" THEN Tail(old)
               ELSE SubSeq(old, 1, Len(old) - 2)
        out == IF c.op = "LPOP" THEN old[1] ELSE old[Len(old)]
    IN  Typed(db, now, c.key, "list",
            IF old = << >> THEN Outcome(db, NilReply)
            ELSE Outcome(ReplaceOrDelete(db, now, c.key, List(new), new = << >>),
                         BulkReply(<<out>>)))

\* LPOP and RPOP: c.count is << >> or the count argument.
POP(db, now, c) ==
    LET old  == ListOf(db, now, c.key)
        n    == IF c.count = << >> THEN 1
                ELSE IF c.count[1] > Len(old) THEN Len(old) ELSE c.count[1]
        left == c.op = "LPOP"
        new  == IF left THEN SubSeq(old, n + 1, Len(old))
                        ELSE SubSeq(old, 1, Len(old) - n)
        out  == IF left THEN SubSeq(old, 1, n)
                        ELSE SubSeq(Reversed(old), 1, n)
    IN  Typed(db, now, c.key, "list",
            IF old = << >> THEN Outcome(db, NilReply)
            ELSE IF c.count # << >> /\ ~(IsInteger(c.count) /\ c.count[1] >= 0)
            THEN Fail(db, "NOTINTEGER")
            ELSE Outcome(ReplaceOrDelete(db, now, c.key, List(new), new = << >>),
                         IF c.count = << >> THEN BulkReply(out)
                                            ELSE ArrayReply(out)))

\* Mutant: the last position of the list is taken for its length.
sliceListShort(list, start, stop) ==
    LET len  == Len(list)
        fst  == IF start < 0 THEN len + start ELSE start
        from == IF fst < 0 THEN 0 ELSE fst
    IN  SubSeq(list, from + 1, IF stop < 0 THEN len + stop ELSE stop)

\* The elements start..stop of a list, counted from 0, or from -1 at its end.
sliceList(list, start, stop) ==
    LET len  == Len(list)
        fst  == IF start < 0 THEN len + start ELSE start
        lst  == IF stop < 0 THEN len + stop ELSE stop
        from == IF fst < 0 THEN 0 ELSE fst
        to   == IF lst >= len THEN len - 1 ELSE lst
    IN  IF from > to \/ from >= len THEN << >>
        ELSE SubSeq(list, from + 1, to + 1)

LTRIM(db, now, c) ==
    LET new == sliceList(ListOf(db, now, c.key), c.start, c.stop)
    IN  Typed(db, now, c.key, "list",
            Outcome(ReplaceOrDelete(db, now, c.key, List(new), new = << >>),
                    OKReply))

\* LREM removes from the head, from the tail (limit < 0) or all (limit = 0).
LREM(db, now, c) ==
    LET old     == ListOf(db, now, c.key)
        hits    == {i \in DOMAIN old : old[i] = c.val}
        gone    == {i \in hits :
                      \/ c.limit = 0
                      \/ c.limit > 0 /\ Cardinality({j \in hits : j < i}) < c.limit
                      \/ c.limit < 0 /\ Cardinality({j \in hits : j > i}) < -c.limit}
        kept    == DOMAIN old \ gone
        rank(i) == Cardinality({j \in kept : j <= i})
        new     == [n \in 1 .. Cardinality(kept) |->
                       old[CHOOSE i \in kept : rank(i) = n]]
    IN  Typed(db, now, c.key, "list",
            Outcome(ReplaceOrDelete(db, now, c.key, List(new), kept = {}),
                    IntReply(Cardinality(gone))))

(***************************************************************************)
(* Sets.  SPOP takes members in the order of a Go map iteration, which is  *)
(* random: any choice of that many members is an outcome.                  *)
(***************************************************************************)
\* Mutant: SADD counts its arguments, not the members it adds.
SADDCountsArguments(db, now, c) ==
    LET old == MembersOf(db, now, c.key)
    IN  Typed(db, now, c.key, "set",
            Outcome(Replace(db, now, c.key,
                            SetOf(old \cup {c.words[i] : i \in DOMAIN c.words})),
                    IntReply(Len(c.words))))

SADD(db, now, c) ==
    LET old  == MembersOf(db, now, c.key)
        args == {c.words[i] : i \in DOMAIN c.words}
    IN  Typed(db, now, c.key, "set",
            Outcome(Replace(db, now, c.key, SetOf(old \cup args)),
                    IntReply(Cardinality(args \ old))))

Removed(db, now, c, gone, reply) ==
    LET new == MembersOf(db, now, c.key) \ gone
    IN  Typed(db, now, c.key, "set",
            Outcome(ReplaceOrDelete(db, now, c.key, SetOf(new), new = {}), reply))

SREM(db, now, c) ==
    LET gone == {m \in MembersOf(db, now, c.key) :
                   \E i \in DOMAIN c.words : c.words[i] = m}
    IN  IF Exists(db, now, c.key)
        THEN Removed(db, now, c, gone, IntReply(Cardinality(gone)))
        ELSE Outcome(db, IntReply(0))

SPOP(db, now, c) ==
    LET old   == MembersOf(db, now, c.key)
        count == IF c.count = << >> THEN 1 ELSE c.count[1]
        n     == IF count > Cardinality(old) THEN Cardinality(old)
                 ELSE IF count < 0 THEN 0 ELSE count
    IN  IF Exists(db, now, c.key)
        THEN {Removed(db, now, c, gone,
                      IF c.count # << >> THEN SetReply(gone)
                      ELSE IF gone = {} THEN NilReply
                      ELSE BulkReply(<<CHOOSE m \in gone : TRUE>>)) :
                gone \in {g \in SUBSET old : Cardinality(g) = n}}
        ELSE {Outcome(db, IF c.count # << >> THEN SetReply({}) ELSE NilReply)}

(***************************************************************************)
(* The switch on cmd.Op.                                                   *)
(***************************************************************************)
applyCmdInTxn(db, now, c) ==
    CASE c.op = "SET"     -> {SET(db, now, c)}
      [] c.op = "GETSET"  -> {GETSET(db, now, c)}
      [] c.op = "APPEND"  -> {APPEND(db, now, c)}
      [] c.op = "MSET"    -> {MSET(db, now, c)}
      [] c.op = "DEL"     -> {DEL(db, now, c)}
      [] c.op = "FLUSHDB" -> {FLUSHDB(db, now, c)}
      [] c.op \in {"INCR", "DECR", "INCRBY", "DECRBY"} -> {INCR(db, now, c)}
      [] c.op = "EXPIRE"  -> {EXPIRE(db, now, c)}
      [] c.op = "PERSIST" -> {PERSIST(db, now, c)}
      [] c.op \in {"HSET", "HSETNX"} -> {HSET(db, now, c)}
      [] c.op = "HDEL"    -> {HDEL(db, now, c)}
      [] c.op \in {"LPUSH", "RPUSH", "LPUSHX", "RPUSHX"} -> {PUSH(db, now, c)}
      [] c.op \in {"LPOP", "RPOP"} -> {POP(db, now, c)}
      [] c.op = "LTRIM"   -> {LTRIM(db, now, c)}
      [] c.op = "LREM"    -> {LREM(db, now, c)}
      [] c.op = "SADD"    -> {SADD(db, now, c)}
      [] c.op = "SREM"    -> {SREM(db, now, c)}
      [] c.op = "SPOP"    -> SPOP(db, now, c)

(***************************************************************************)
(* The commands the handlers of server/server.go build.  Their arity       *)
(* checks leave no command without the arguments it needs.                 *)
(***************************************************************************)
Texts == Seq(Words \cup Int64)

SetCommands     == [op : {"SET"}, key : Keys, val : Texts, ttl : Int,
                    cond : {"", "NX", "XX"}, get : BOOLEAN]
TextCommands    == [op : {"GETSET", "APPEND"}, key : Keys, val : Texts]
MSetCommands    == [op : {"MSET"}, pairs : Seq(Keys \X Texts)]
DelCommands     == [op : {"DEL"}, key : {None}, keys : Seq(Keys)]
FlushCommands   == [op : {"FLUSHDB"}]
IncrCommands    == [op : {"INCR", "DECR"}, key : Keys, by : {<<1>>}]
                   \cup [op : {"INCRBY", "DECRBY"}, key : Keys, by : Texts]
ExpireCommands  == [op : {"EXPIRE"}, key : Keys, ttl : Int]
PersistCommands == [op : {"PERSIST"}, key : Keys]
HSetCommands    == [op : {"HSET", "HSETNX"}, key : Keys,
                    pairs : Seq(Words \X Words) \ {<< >>}]
AddCommands     == [op : {"LPUSH", "RPUSH", "LPUSHX", "RPUSHX", "SADD"},
                    key : Keys, words : Seq(Words) \ {<< >>}]
RemoveCommands  == [op : {"HDEL", "SREM"}, key : Keys, words : Seq(Words)]
PopCommands     == [op : {"LPOP", "RPOP", "SPOP"}, key : Keys, count : Seq(Int)]
LTrimCommands   == [op : {"LTRIM"}, key : Keys, start : Int, stop : Int]
LRemCommands    == [op : {"LREM"}, key : Keys, limit : Int, val : Words]

CommandSpace ==
    SetCommands \cup TextCommands \cup MSetCommands \cup DelCommands
    \cup FlushCommands \cup IncrCommands \cup ExpireCommands
    \cup PersistCommands \cup HSetCommands \cup AddCommands
    \cup RemoveCommands \cup PopCommands \cup LTrimCommands \cup LRemCommands
=============================================================================
