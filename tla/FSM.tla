-------------------------------- MODULE FSM --------------------------------
(***************************************************************************)
(* The replicated state machine of one Badis node (store/fsm.go): the      *)
(* database, the wall clock its entries expire by, and one action per      *)
(* command.  A command is applied in one transaction; between transactions *)
(* time passes.                                                            *)
(***************************************************************************)
EXTENDS Queries

CONSTANTS
    Requests,    \* the commands the clients submit
    Start,       \* the instant the model starts at
    MaxNow,      \* bound on the clock
    MaxLen       \* bound on the length of strings and lists

\* No lifetime leads back to the first second of the epoch, where an expiry
\* would read as "none".
ASSUME RequestsAssumption ==
    /\ Requests \subseteq CommandSpace
    /\ Start \in Nat /\ Start >= TicksPerSec
    /\ \A c \in Requests :
         c.op = "EXPIRE" => Start + c.ttl * TicksPerMs >= TicksPerSec

VARIABLES
    db,          \* the K and T entries in Badger
    now          \* the wall clock, in ticks

vars == <<db, now>>

Init == db = EmptyDB /\ now = Start

Fits(d) == \A k \in Keys :
    d.K[k] # None =>
        /\ d.K[k].val.kind = "string" => Len(d.K[k].val.str) <= MaxLen
        /\ d.K[k].val.kind = "list" => Len(d.K[k].val.seq) <= MaxLen

\* FSM.Apply: the transaction of one committed command.
Apply(c) == \E o \in applyCmdInTxn(db, now, c) :
    /\ Fits(o.db)
    /\ db' = o.db
    /\ UNCHANGED now

Set     == \E c \in Requests : c.op = "SET" /\ Apply(c)
GetSet  == \E c \in Requests : c.op = "GETSET" /\ Apply(c)
Append_ == \E c \in Requests : c.op = "APPEND" /\ Apply(c)
MSet    == \E c \in Requests : c.op = "MSET" /\ Apply(c)
Del     == \E c \in Requests : c.op = "DEL" /\ Apply(c)
FlushDB == \E c \in Requests : c.op = "FLUSHDB" /\ Apply(c)
Incr    == \E c \in Requests :
              c.op \in {"INCR", "DECR", "INCRBY", "DECRBY"} /\ Apply(c)
Expire  == \E c \in Requests : c.op = "EXPIRE" /\ Apply(c)
Persist == \E c \in Requests : c.op = "PERSIST" /\ Apply(c)
HSet    == \E c \in Requests : c.op \in {"HSET", "HSETNX"} /\ Apply(c)
HDel    == \E c \in Requests : c.op = "HDEL" /\ Apply(c)
Push    == \E c \in Requests :
              c.op \in {"LPUSH", "RPUSH", "LPUSHX", "RPUSHX"} /\ Apply(c)
Pop     == \E c \in Requests : c.op \in {"LPOP", "RPOP"} /\ Apply(c)
LTrim   == \E c \in Requests : c.op = "LTRIM" /\ Apply(c)
LRem    == \E c \in Requests : c.op = "LREM" /\ Apply(c)
SAdd    == \E c \in Requests : c.op = "SADD" /\ Apply(c)
SRem    == \E c \in Requests : c.op = "SREM" /\ Apply(c)
SPop    == \E c \in Requests : c.op = "SPOP" /\ Apply(c)

Tick == now < MaxNow /\ now' = now + 1 /\ UNCHANGED db

Next == \/ Set \/ GetSet \/ Append_ \/ MSet \/ Del \/ FlushDB \/ Incr
        \/ Expire \/ Persist \/ HSet \/ HDel \/ Push \/ Pop \/ LTrim
        \/ LRem \/ SAdd \/ SRem \/ SPop \/ Tick

Spec == Init /\ [][Next]_vars

(***************************************************************************)
(* Properties.                                                             *)
(***************************************************************************)
\* Type invariant: the database and the clock have their types.
TypeOK == db \in Databases /\ now \in Nat /\ now >= Start

\* A type entry that names a collection tells the truth about the value entry
\* beside it, whether or not either of them has expired: setValue writes both
\* in one transaction and EXPIRE, which writes only one, keeps its value.
TagSound == SoundTags(db)

\* No command the clients may send next, and no reader, ever passes the type
\* check of a key and then fails to decode its value.
DecodeNeverFails ==
    /\ \A c \in Requests : \A o \in applyCmdInTxn(db, now, c) :
          o.reply # ErrorReply("DECODE")
    /\ \A k \in Keys :
          ErrorReply("DECODE") \notin
              {GetString(db, now, k), HLen(db, now, k), LLen(db, now, k),
               SCard(db, now, k)}

\* No transaction leaves an empty hash, list or set behind: the command that
\* takes the last element deletes the key (HDEL, LPOP, LTRIM, LREM, SREM,
\* SPOP).
NonEmptyCollections == AllFilled(db)

\* The database as a client can see it: without expired entries, and without
\* the type entry of a key whose value entry is gone.
Swept(d) ==
    [K |-> [k \in Keys |-> IF Live(d.K[k], now) THEN d.K[k] ELSE None],
     T |-> [k \in Keys |-> IF Live(d.K[k], now) /\ Live(d.T[k], now)
                           THEN d.T[k] ELSE None]]

Effects(d, c) ==
    {[db |-> Swept(o.db), reply |-> o.reply] : o \in applyCmdInTxn(d, now, c)}

\* An expired entry that Badger still stores, and a type entry that outlives
\* its value (EXPIRE leaves one), change no reply and no later state.
GhostsAreInvisible ==
    \A c \in Requests : Effects(db, c) = Effects(Swept(db), c)

\* The commands that change a value and keep its lifetime.
Keeping == {"APPEND", "INCR", "DECR", "INCRBY", "DECRBY", "HSET", "HSETNX",
            "HDEL", "LPUSH", "RPUSH", "LPUSHX", "RPUSHX", "LPOP", "RPOP",
            "LTRIM", "LREM", "SADD", "SREM", "SPOP"}

\* A command that changes the value of a live key never gives it a longer
\* life, never drops its expiry, and costs it at most one second
\* (remainingTTLMs rounds down, and so does WithTTL).
LifetimeErosion ==
    \A c \in Requests : c.op \in Keeping /\ Exists(db, now, c.key) =>
        \A o \in applyCmdInTxn(db, now, c) :
            LET old == db.K[c.key].exp
                new == o.db.K[c.key].exp
            IN  o.db.K[c.key] # None =>
                    IF old = 0 THEN new = 0 ELSE new \in {old - 1, old}

\* A live key answers to the reader of exactly one type and refuses the
\* others with WRONGTYPE; TYPE, EXISTS, KEYS and TTL agree that it is there.
ReadersAgree == \A k \in Keys :
    LET readers == [string |-> StrLen(db, now, k), hash |-> HLen(db, now, k),
                    list |-> LLen(db, now, k), set |-> SCard(db, now, k)]
        refused == ErrorReply("WRONGTYPE")
        there   == Type(db, now, k) # "none"
    IN  /\ there <=> k \in KeysOf(db, now, Keys)
        /\ there <=> ExistsCount(db, now, <<k>>) = IntReply(1)
        /\ there <=> TTL(db, now, k) # IntReply(-2)
        /\ there <=> PTTL(db, now, k) # IntReply(-2)
        /\ there => \A t \in Kinds :
              readers[t] # refused <=> t = Type(db, now, k)
        /\ ~there => \A t \in Kinds : readers[t] = IntReply(0)

\* The commands that may create a key.
Creating == {"SET", "GETSET", "APPEND", "MSET", "INCR", "DECR", "INCRBY",
             "DECRBY", "HSET", "HSETNX", "LPUSH", "RPUSH", "SADD"}

\* A key that clients do not see comes into being by a creating command only:
\* no other one, and no passing of time, brings back a value that has expired
\* and that Badger still stores.
NoResurrection ==
    [][\A k \in Keys : ~Exists(db, now, k) /\ Exists(db', now', k)
          => \E c \in Requests : c.op \in Creating /\ Apply(c)]_vars

\* The type entry beside a live collection names its kind and lasts as long as
\* its value: until then TYPE and the type checks take it for what it is.
TypeLasts(d, t, k) ==
    Exists(d, t, k) /\ d.K[k].val.kind # "string" =>
        /\ d.T[k] # None /\ d.T[k].val = d.K[k].val.kind
        /\ d.T[k].exp = 0 \/ (d.K[k].exp # 0 /\ d.K[k].exp <= d.T[k].exp)

\* A collection comes to outlive its type entry, after which it is taken for a
\* string, in one way only: by an EXPIRE of that key that lengthens a lifetime
\* which a command that writes both entries had passed on to its type.  No
\* change of the value, no PERSIST, no deletion and no passing of time does it.
TypesOutlivedByExpire ==
    [][\A k \in Keys : TypeLasts(db, now, k) /\ ~TypeLasts(db', now', k)
          => \E c \in Requests :
                /\ c.op = "EXPIRE" /\ c.key = k /\ Apply(c)
                /\ db.T[k].exp # 0 /\ db'.K[k].exp > db.T[k].exp]_vars

\* No key is in the last second of its life, in which a change of its value
\* may end it at once (LifetimeErosion).
NoneEnding == \A k \in Keys : Exists(db, now, k) =>
    db.K[k].exp = 0 \/ db.K[k].exp > now \div TicksPerSec + 1

\* The counts that DEL, HSET, HSETNX, HDEL, the pushes, LREM, SADD and SREM
\* reply are the changes the readers see, repeated arguments included.
CountsAreTruthful ==
    LET hlen(d, k) == Cardinality(DOMAIN HashOf(d, now, k))
        llen(d, k) == Len(ListOf(d, now, k))
        card(d, k) == Cardinality(MembersOf(d, now, k))
        keys(d)    == Cardinality(KeysOf(d, now, Keys))
    IN  \A c \in Requests : \A o \in applyCmdInTxn(db, now, c) :
          o.reply.type = "int" =>
            LET n == o.reply.int
            IN  /\ c.op = "DEL" => n = keys(db) - keys(o.db)
                /\ c.op \in {"HSET", "HSETNX"} =>
                      n = hlen(o.db, c.key) - hlen(db, c.key)
                /\ c.op = "HDEL" => n = hlen(db, c.key) - hlen(o.db, c.key)
                /\ c.op \in {"LPUSH", "RPUSH", "LPUSHX", "RPUSHX"} =>
                      n = llen(o.db, c.key)
                /\ c.op = "LREM" => n = llen(db, c.key) - llen(o.db, c.key)
                /\ c.op = "SADD" => n = card(o.db, c.key) - card(db, c.key)
                /\ c.op = "SREM" => n = card(db, c.key) - card(o.db, c.key)

\* LPOP, RPOP and SPOP neither lose nor repeat an element: what they reply and
\* what they leave make up the list or the set they found.
PopsConserve ==
    \A c \in Requests : \A o \in applyCmdInTxn(db, now, c) :
        LET old  == ListOf(db, now, c.key)
            rest == ListOf(o.db, now, c.key)
            out  == IF o.reply.type = "bulk" THEN o.reply.str
                    ELSE IF o.reply.type = "array" THEN o.reply.seq ELSE << >>
            mem  == IF o.reply.type = "set" THEN o.reply.mem
                    ELSE {out[i] : i \in DOMAIN out}
            left == MembersOf(o.db, now, c.key)
        IN  /\ c.op = "LPOP" => out \o rest = old
            /\ c.op = "RPOP" => rest \o Reversed(out) = old
            /\ c.op = "SPOP" => /\ mem \cup left = MembersOf(db, now, c.key)
                                /\ mem \cap left = {}

\* The ranges LRANGE cuts tile the list and agree with LINDEX at every index
\* around its bounds, counted from either end.
RangesTile ==
    \A k \in Keys : Type(db, now, k) = "list" =>
        LET list        == ListOf(db, now, k)
            n           == Len(list)
            range(i, j) == LRange(db, now, k, i, j).seq
            at(i)       == LIndex(db, now, k, i)
        IN  /\ \A p \in 1 .. n : range(0, p - 1) \o range(p, -1) = list
            /\ \A p \in (-n - 1) .. n :
                  range(p, p) = IF at(p) = NilReply THEN << >> ELSE at(p).str
            /\ \A p \in 0 .. (n - 1), j \in (-n - 1) .. (n + 1) :
                  range(p, j) = range(p - n, j)
=============================================================================
