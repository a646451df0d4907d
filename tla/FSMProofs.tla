----------------------------- MODULE FSMProofs -----------------------------
(***************************************************************************)
(* Proofs about FSM, for every set of keys and words, every clock and      *)
(* every set of requests.                                                  *)
(***************************************************************************)
EXTENDS FSM, CommandsProofs

(***************************************************************************)
(* The invariant.                                                          *)
(***************************************************************************)
\* FSM.Apply keeps the database good, whatever command is committed.
LEMMA RequestsKeepGood ==
    ASSUME NEW d, Good(d), NEW t \in Nat, t >= Start, NEW c \in Requests,
           NEW o \in applyCmdInTxn(d, t, c)
    PROVE  Good(o.db)
<1>1. c \in CommandSpace
  BY RequestsAssumption
<1>2. ASSUME c.op = "EXPIRE" PROVE t + c.ttl * TicksPerMs >= 0
  <2>1. c.ttl \in Int
    BY <1>1, <1>2
    DEF CommandSpace, SetCommands, TextCommands, MSetCommands, DelCommands,
        FlushCommands, IncrCommands, ExpireCommands, PersistCommands, HSetCommands,
        AddCommands, RemoveCommands, PopCommands, LTrimCommands, LRemCommands
  <2>2. Start \in Nat /\ Start + c.ttl * TicksPerMs >= TicksPerSec
    BY <1>2, RequestsAssumption
  <2>3. c.ttl * TicksPerMs \in Int
    BY <2>1, ClockAssumption
  <2> QED
    BY <2>2, <2>3, TicksPerSecType
<1> QED
  BY <1>1, <1>2, ApplyGood

\* The inductive invariant: the three invariants together.
IInv == TypeOK /\ TagSound /\ NonEmptyCollections

\* IInv is an invariant of every behaviour of the state machine.
THEOREM Invariant == Spec => []IInv
<1>1. Init => IInv
  <2> SUFFICES ASSUME Init PROVE IInv
    OBVIOUS
  <2>1. db \in Databases /\ \A k \in Keys : db.K[k] = None
    BY DEF Init, EmptyDB, Databases
  <2>2. now \in Nat /\ now >= Start
    BY RequestsAssumption DEF Init
  <2> QED
    BY <2>1, <2>2
    DEF IInv, TypeOK, TagSound, SoundTags, NonEmptyCollections, AllFilled
<1>2. IInv /\ [Next]_vars => IInv'
  <2> SUFFICES ASSUME IInv, [Next]_vars PROVE IInv'
    OBVIOUS
  <2>1. Good(db) /\ now \in Nat /\ now >= Start /\ Start \in Nat
    BY RequestsAssumption
    DEF IInv, TypeOK, TagSound, NonEmptyCollections, Good
  <2>2. CASE \E c \in Requests : Apply(c)
    <3>1. PICK c \in Requests : Apply(c)
      BY <2>2
    <3>2. Good(db') /\ now' = now
      BY <2>1, <3>1, RequestsKeepGood DEF Apply
    <3> QED
      BY <2>1, <3>2
      DEF IInv, TypeOK, TagSound, NonEmptyCollections, Good
  <2>3. CASE Tick
    BY <2>1, <2>3
    DEF Tick, IInv, TypeOK, TagSound, NonEmptyCollections, Good
  <2>4. CASE UNCHANGED vars
    BY <2>1, <2>4
    DEF vars, IInv, TypeOK, TagSound, NonEmptyCollections, Good
  <2>5. Next => (\E c \in Requests : Apply(c)) \/ Tick
    BY DEF Next, Set, GetSet, Append_, MSet, Del, FlushDB, Incr, Expire,
           Persist, HSet, HDel, Push, Pop, LTrim, LRem, SAdd, SRem, SPop
  <2> QED
    BY <2>2, <2>3, <2>4, <2>5
<1> QED
  BY <1>1, <1>2, PTL DEF Spec

\* Type correctness of the database and the clock (TypeOK).
THEOREM TypeCorrect == Spec => []TypeOK
BY Invariant, PTL DEF IInv

\* A stored type entry that names a collection always tells the truth
\* (TagSound).
THEOREM TagsAreSound == Spec => []TagSound
BY Invariant, PTL DEF IInv

\* No empty collection is ever stored (NonEmptyCollections).
THEOREM CollectionsAreFilled == Spec => []NonEmptyCollections
BY Invariant, PTL DEF IInv

\* No command and no reader ever fails to decode a value whose type it has
\* checked (DecodeNeverFails).
THEOREM DecodingSucceeds == Spec => []DecodeNeverFails
<1>1. IInv => DecodeNeverFails
  BY CommandsDecode, ReadersDecode, RequestsAssumption
  DEF IInv, TagSound, DecodeNeverFails, Decodes
<1> QED
  BY <1>1, Invariant, PTL

(***************************************************************************)
(* Lifetimes.                                                              *)
(***************************************************************************)
\* The type check in front of a command keeps the database or lets it run.
LEMMA TypedShape ==
    ASSUME NEW d, NEW t, NEW k, NEW want, NEW o
    PROVE  Typed(d, t, k, want, o).db = d \/ Typed(d, t, k, want, o).db = o.db
BY DEF Typed, Fail, Outcome

\* Whatever a command writes is of one of the kinds.
LEMMA KindsOf ==
    /\ \A s : Str(s).kind \in Kinds
    /\ \A h : Hash(h).kind \in Kinds
    /\ \A l : List(l).kind \in Kinds
    /\ \A m : SetOf(m).kind \in Kinds
BY DEF Str, Hash, List, SetOf, Kinds

\* What a command that keeps lifetimes may do to the database: nothing, delete its
\* key, or replace the value of its key, which must be there unless the command
\* creates keys.
KeepShape(d, t, c, n) ==
    \/ n = d
    \/ n = Delete(d, {c.key})
    \/ /\ c.op \in Creating \/ Exists(d, t, c.key)
       /\ \E v : v.kind \in Kinds /\ n = Replace(d, t, c.key, v)

\* Nothing can be taken out of a missing list.
LEMMA NothingToSlice ==
    ASSUME NEW start \in Int, NEW stop \in Int
    PROVE  sliceList(<< >>, start, stop) = << >>
<1>1. Len(<< >>) = 0
  OBVIOUS
<1> QED BY <1>1 DEF sliceList

\* The commands on strings that keep lifetimes.
LEMMA StringsKeep ==
    ASSUME NEW d, NEW t, NEW c, NEW o \in applyCmdInTxn(d, t, c),
           c.op \in {"APPEND", "INCR", "DECR", "INCRBY", "DECRBY"}
    PROVE  KeepShape(d, t, c, o.db)
<1>1. CASE c.op = "APPEND"
  <2>1. o = APPEND(d, t, c)
    BY <1>1 DEF applyCmdInTxn
  <2> DEFINE new == StringOf(d, t, c.key) \o c.val
             r == Outcome(Replace(d, t, c.key, Str(new)), IntReply(Len(new)))
  <2>2. o = Typed(d, t, c.key, "string", r)
    BY <2>1 DEF APPEND
  <2>3. r.db = Replace(d, t, c.key, Str(new))
    BY DEF Outcome
  <2> HIDE DEF r
  <2> QED BY <1>1, <2>2, <2>3, TypedShape, KindsOf DEF KeepShape, Creating
<1>2. CASE c.op \in {"INCR", "DECR", "INCRBY", "DECRBY"}
  <2>1. o = INCR(d, t, c)
    BY <1>2 DEF applyCmdInTxn
  <2> DEFINE old == IF Exists(d, t, c.key) THEN StringOf(d, t, c.key) ELSE <<0>>
             new == Wrap64(IF c.op \in {"INCR", "INCRBY"} THEN old[1] + c.by[1]
                                                          ELSE old[1] - c.by[1])
             r == IF IsInteger(old) /\ IsInteger(c.by)
                  THEN Outcome(Replace(d, t, c.key, Str(<<new>>)), IntReply(new))
                  ELSE Fail(d, "NOTINTEGER")
  <2>2. o = Typed(d, t, c.key, "string", r)
    BY <2>1 DEF INCR
  <2>3. r.db = d \/ r.db = Replace(d, t, c.key, Str(<<new>>))
    BY DEF Outcome, Fail
  <2> HIDE DEF r
  <2> QED BY <1>2, <2>2, <2>3, TypedShape, KindsOf DEF KeepShape, Creating
<1> QED BY <1>1, <1>2

\* The commands on hashes.
LEMMA HashesKeep ==
    ASSUME NEW d, NEW t, NEW c, NEW o \in applyCmdInTxn(d, t, c),
           c.op \in {"HSET", "HSETNX", "HDEL"}
    PROVE  KeepShape(d, t, c, o.db)
<1>1. CASE c.op \in {"HSET", "HSETNX"}
  <2>1. o = HSET(d, t, c)
    BY <1>1 DEF applyCmdInTxn
  <2> DEFINE old    == HashOf(d, t, c.key)
             at(f)  == {i \in DOMAIN c.pairs : c.pairs[i][1] = f}
             fields == {f \in Words : at(f) # {}}
             nx     == c.op = "HSETNX"
             val(f) == c.pairs[CHOOSE i \in at(f) :
                                 \A j \in at(f) : IF nx THEN i <= j ELSE j <= i][2]
             new    == [f \in DOMAIN old \cup fields |->
                           IF f \notin fields \/ (nx /\ f \in DOMAIN old)
                           THEN old[f] ELSE val(f)]
             r == Outcome(Replace(d, t, c.key, Hash(new)),
                          IntReply(Cardinality(fields \ DOMAIN old)))
  <2>2. o = Typed(d, t, c.key, "hash", r)
    BY <2>1 DEF HSET
  <2>3. r.db = Replace(d, t, c.key, Hash(new))
    BY DEF Outcome
  <2> HIDE DEF r, new
  <2> QED BY <1>1, <2>2, <2>3, TypedShape, KindsOf DEF KeepShape, Creating
<1>2. CASE c.op = "HDEL"
  <2>1. o = HDEL(d, t, c)
    BY <1>2 DEF applyCmdInTxn
  <2> DEFINE old  == HashOf(d, t, c.key)
             gone == {f \in DOMAIN old : \E i \in DOMAIN c.words : c.words[i] = f}
             new  == [f \in DOMAIN old \ gone |-> old[f]]
             e    == DOMAIN new = {}
             r == IF Exists(d, t, c.key)
                  THEN Outcome(ReplaceOrDelete(d, t, c.key, Hash(new), e),
                               IntReply(Cardinality(gone)))
                  ELSE Outcome(d, IntReply(0))
  <2>2. o = Typed(d, t, c.key, "hash", r)
    BY <2>1 DEF HDEL
  <2> HIDE DEF new, e, gone
  <2>3. r.db = d \/ (Exists(d, t, c.key) /\ r.db = ReplaceOrDelete(d, t, c.key, Hash(new), e))
    BY DEF Outcome
  <2> HIDE DEF r
  <2> QED BY <2>2, <2>3, TypedShape, KindsOf DEF KeepShape, ReplaceOrDelete
<1> QED BY <1>1, <1>2

\* The commands on lists.
LEMMA ListsKeep ==
    ASSUME NEW d \in Databases, NEW t, NEW c \in CommandSpace,
           NEW o \in applyCmdInTxn(d, t, c),
           c.op \in {"LPUSH", "RPUSH", "LPUSHX", "RPUSHX", "LPOP", "RPOP", "LTRIM", "LREM"}
    PROVE  KeepShape(d, t, c, o.db)
<1>0. ASSUME ~Exists(d, t, c.key) PROVE ListOf(d, t, c.key) = << >>
  BY <1>0 DEF ListOf, Holds
<1>1. CASE c.op \in {"LPUSH", "RPUSH", "LPUSHX", "RPUSHX"}
  <2>1. o = PUSH(d, t, c)
    BY <1>1 DEF applyCmdInTxn
  <2> DEFINE old == ListOf(d, t, c.key)
             new == IF c.op \in {"LPUSH", "LPUSHX"} THEN Reversed(c.words) \o old
                                                    ELSE old \o c.words
             x == c.op \in {"LPUSHX", "RPUSHX"} /\ ~Exists(d, t, c.key)
             r == IF x THEN Outcome(d, IntReply(0))
                  ELSE Outcome(Replace(d, t, c.key, List(new)), IntReply(Len(new)))
  <2>2. o = Typed(d, t, c.key, "list", r)
    BY <2>1 DEF PUSH
  <2> HIDE DEF new
  <2>3. r.db = d \/ (~x /\ r.db = Replace(d, t, c.key, List(new)))
    BY DEF Outcome
  <2> HIDE DEF r
  <2>4. ~x => c.op \in Creating \/ Exists(d, t, c.key)
    BY <1>1 DEF Creating
  <2> HIDE DEF x
  <2> QED BY <2>2, <2>3, <2>4, TypedShape, KindsOf DEF KeepShape
<1>2. CASE c.op \in {"LPOP", "RPOP"}
  <2>1. o = POP(d, t, c)
    BY <1>2 DEF applyCmdInTxn
  <2> DEFINE old  == ListOf(d, t, c.key)
             n    == IF c.count = << >> THEN 1
                     ELSE IF c.count[1] > Len(old) THEN Len(old) ELSE c.count[1]
             left == c.op = "LPOP"
             new  == IF left THEN SubSeq(old, n + 1, Len(old))
                             ELSE SubSeq(old, 1, Len(old) - n)
             out  == IF left THEN SubSeq(old, 1, n)
                             ELSE SubSeq(Reversed(old), 1, n)
             bad  == c.count # << >> /\ ~(IsInteger(c.count) /\ c.count[1] >= 0)
             e    == new = << >>
             r == IF old = << >> THEN Outcome(d, NilReply)
                  ELSE IF bad THEN Fail(d, "NOTINTEGER")
                  ELSE Outcome(ReplaceOrDelete(d, t, c.key, List(new), e),
                               IF c.count = << >> THEN BulkReply(out) ELSE ArrayReply(out))
  <2>2. o = Typed(d, t, c.key, "list", r)
    BY <2>1 DEF POP
  <2> HIDE DEF new, out, bad, e
  <2>3. r.db = d \/ (old # << >> /\ r.db = ReplaceOrDelete(d, t, c.key, List(new), e))
    BY DEF Outcome, Fail
  <2> HIDE DEF r
  <2> QED BY <1>0, <2>2, <2>3, TypedShape, KindsOf DEF KeepShape, ReplaceOrDelete
<1>3. CASE c.op = "LTRIM"
  <2>1. o = LTRIM(d, t, c)
    BY <1>3 DEF applyCmdInTxn
  <2>2. c.start \in Int /\ c.stop \in Int
    BY <1>3
    DEF CommandSpace, SetCommands, TextCommands, MSetCommands, DelCommands,
        FlushCommands, IncrCommands, ExpireCommands, PersistCommands, HSetCommands,
        AddCommands, RemoveCommands, PopCommands, LTrimCommands, LRemCommands
  <2> DEFINE new == sliceList(ListOf(d, t, c.key), c.start, c.stop)
             r == Outcome(ReplaceOrDelete(d, t, c.key, List(new), new = << >>), OKReply)
  <2>3. o = Typed(d, t, c.key, "list", r)
    BY <2>1 DEF LTRIM
  <2>4. new # << >> => Exists(d, t, c.key)
    BY <1>0, <2>2, NothingToSlice
  <2> HIDE DEF new
  <2>5. r.db = ReplaceOrDelete(d, t, c.key, List(new), new = << >>)
    BY DEF Outcome
  <2> HIDE DEF r
  <2> QED BY <2>3, <2>4, <2>5, TypedShape, KindsOf DEF KeepShape, ReplaceOrDelete
<1>4. CASE c.op = "LREM"
  <2>1. o = LREM(d, t, c)
    BY <1>4 DEF applyCmdInTxn
  <2> DEFINE old  == ListOf(d, t, c.key)
             hits == {i \in DOMAIN old : old[i] = c.val}
             gone == {i \in hits :
               \/ c.limit = 0
               \/ c.limit > 0 /\ Cardinality({j \in hits : j < i}) < c.limit
               \/ c.limit < 0 /\ Cardinality({j \in hits : j > i}) < -c.limit}
             kept == DOMAIN old \ gone
             rank(i) == Cardinality({j \in kept : j <= i})
             new == [m \in 1 .. Cardinality(kept) |->
                        old[CHOOSE i \in kept : rank(i) = m]]
             e == kept = {}
             r == Outcome(ReplaceOrDelete(d, t, c.key, List(new), e),
                          IntReply(Cardinality(gone)))
  <2>2. o = Typed(d, t, c.key, "list", r)
    BY <2>1 DEF LREM
  <2> HIDE DEF gone
  <2>3. ~e => Exists(d, t, c.key)
    <3>1. DOMAIN << >> = {}
      OBVIOUS
    <3> QED BY <1>0, <3>1
  <2> HIDE DEF new, e
  <2>4. r.db = ReplaceOrDelete(d, t, c.key, List(new), e)
    BY DEF Outcome
  <2> HIDE DEF r
  <2> QED BY <2>2, <2>3, <2>4, TypedShape, KindsOf DEF KeepShape, ReplaceOrDelete
<1> QED BY <1>1, <1>2, <1>3, <1>4

\* The commands on sets.
LEMMA SetsKeep ==
    ASSUME NEW d, NEW t, NEW c, NEW o \in applyCmdInTxn(d, t, c),
           c.op \in {"SADD", "SREM", "SPOP"}
    PROVE  KeepShape(d, t, c, o.db)
<1>1. CASE c.op = "SADD"
  <2>1. o = SADD(d, t, c)
    BY <1>1 DEF applyCmdInTxn
  <2> DEFINE old  == MembersOf(d, t, c.key)
             args == {c.words[i] : i \in DOMAIN c.words}
             r == Outcome(Replace(d, t, c.key, SetOf(old \cup args)),
                          IntReply(Cardinality(args \ old)))
  <2>2. o = Typed(d, t, c.key, "set", r)
    BY <2>1 DEF SADD
  <2> HIDE DEF args
  <2>3. r.db = Replace(d, t, c.key, SetOf(old \cup args))
    BY DEF Outcome
  <2> HIDE DEF r
  <2> QED BY <1>1, <2>2, <2>3, TypedShape, KindsOf DEF KeepShape, Creating
<1>2. ASSUME NEW gone, NEW reply, Exists(d, t, c.key), o = Removed(d, t, c, gone, reply)
      PROVE  KeepShape(d, t, c, o.db)
  <2> DEFINE new == MembersOf(d, t, c.key) \ gone
             r == Outcome(ReplaceOrDelete(d, t, c.key, SetOf(new), new = {}), reply)
  <2>1. o = Typed(d, t, c.key, "set", r)
    BY <1>2 DEF Removed
  <2> HIDE DEF new
  <2>2. r.db = ReplaceOrDelete(d, t, c.key, SetOf(new), new = {})
    BY DEF Outcome
  <2> HIDE DEF r
  <2> QED BY <1>2, <2>1, <2>2, TypedShape, KindsOf DEF KeepShape, ReplaceOrDelete
<1>3. CASE c.op = "SREM"
  <2>1. o = SREM(d, t, c)
    BY <1>3 DEF applyCmdInTxn
  <2>2. CASE Exists(d, t, c.key)
    BY <1>2, <2>1, <2>2 DEF SREM
  <2>3. CASE ~Exists(d, t, c.key)
    BY <2>1, <2>3 DEF SREM, Outcome, KeepShape
  <2> QED BY <2>2, <2>3
<1>4. CASE c.op = "SPOP"
  <2>1. o \in SPOP(d, t, c)
    BY <1>4 DEF applyCmdInTxn
  <2>2. CASE Exists(d, t, c.key)
    <3>1. \E gone, reply : o = Removed(d, t, c, gone, reply)
      BY <2>1, <2>2 DEF SPOP
    <3> QED BY <1>2, <2>2, <3>1
  <2>3. CASE ~Exists(d, t, c.key)
    BY <2>1, <2>3 DEF SPOP, Outcome, KeepShape
  <2> QED BY <2>2, <2>3
<1> QED BY <1>1, <1>3, <1>4

\* All of them.
LEMMA KeepingShape ==
    ASSUME NEW d \in Databases, NEW t, NEW c \in CommandSpace, c.op \in Keeping,
           NEW o \in applyCmdInTxn(d, t, c)
    PROVE  KeepShape(d, t, c, o.db) /\ c.key \in Keys
<1>1. c.key \in Keys
  BY DEF Keeping,
         CommandSpace, SetCommands, TextCommands, MSetCommands, DelCommands,
         FlushCommands, IncrCommands, ExpireCommands, PersistCommands, HSetCommands,
         AddCommands, RemoveCommands, PopCommands, LTrimCommands, LRemCommands
<1>2. \/ c.op \in {"APPEND", "INCR", "DECR", "INCRBY", "DECRBY"}
      \/ c.op \in {"HSET", "HSETNX", "HDEL"}
      \/ c.op \in {"LPUSH", "RPUSH", "LPUSHX", "RPUSHX", "LPOP", "RPOP", "LTRIM", "LREM"}
      \/ c.op \in {"SADD", "SREM", "SPOP"}
  BY DEF Keeping
<1> QED BY <1>1, <1>2, StringsKeep, HashesKeep, ListsKeep, SetsKeep

\* The lifetime a mutation passes on is positive and ends in the same second as
\* before, or in the one before that: remainingTTLMs rounds down to milliseconds,
\* unless less than one is left, and WithTTL to seconds.
LEMMA RoundTrip ==
    ASSUME NEW e, e.exp \in Nat \ {0}, NEW t \in Nat, e.exp > t \div TicksPerSec
    PROVE  /\ remainingTTLMs(e, t) > 0
           /\ WithTTL(t, remainingTTLMs(e, t)) \in {e.exp - 1, e.exp}
<1> DEFINE S   == TicksPerSec
           M   == TicksPerMs
           old == e.exp
           x   == old * S - t
           q   == x \div M
           r   == IF q < 1 THEN 1 ELSE q
           y   == t + r * M
           p   == t \div S
<1>1. S \in Nat \ {0} /\ M \in Nat \ {0} /\ M <= S
  <2>1. MsPerSec >= 1 /\ MsPerSec \in Nat /\ TicksPerMs \in Nat
    BY ClockAssumption
  <2>2. TicksPerMs <= TicksPerMs * MsPerSec
    BY <2>1
  <2> QED BY <2>2, ClockAssumption, TicksPerSecType DEF TicksPerSec
<1>2. p \in Nat /\ S * p \in Nat /\ t < S * p + S
  BY <1>1, DivBounds
<1>3. old \in Nat \ {0} /\ old > p
  OBVIOUS
<1>13. remainingTTLMs(e, t) = r
  BY DEF remainingTTLMs
<1>14. WithTTL(t, r) = y \div S
  BY DEF WithTTL
<1> HIDE DEF S, M, p, old
<1>4. old * S \in Nat /\ S * p + S <= old * S
  <2>1. S * (p + 1) = S * p + S
    BY <1>1, <1>2
  <2>2. S * (p + 1) <= S * old
    BY <1>1, <1>2, <1>3
  <2> QED BY <1>1, <1>3, <2>1, <2>2, TimesNat
<1>5. x \in Nat /\ x >= 1 /\ t + x = old * S
  <2> DEFINE z == old * S
             w == S * p + S
  <2>1. z \in Nat /\ w \in Nat /\ w <= z /\ t < w /\ x = z - t
    BY <1>1, <1>2, <1>4
  <2> HIDE DEF z, w, x
  <2>2. x \in Nat /\ x >= 1 /\ t + x = z
    BY <2>1
  <2> QED BY <2>2 DEF z
<1> HIDE DEF x
<1>6. q \in Nat /\ M * q \in Nat /\ M * q <= x /\ x < M * q + M
  BY <1>1, <1>5, DivBounds
<1> HIDE DEF q
<1>7. r \in Nat \ {0}
  BY <1>6
<1>8. y \in Nat /\ y >= old * S - S /\ y < old * S + S
  <2>1. CASE q < 1
    <3>1. q = 0 /\ r = 1 /\ x < M
      BY <1>1, <1>6, <2>1
    <3>2. y = t + M
      BY <1>1, <3>1
    <3> QED BY <1>1, <1>4, <1>5, <3>1, <3>2
  <2>2. CASE ~(q < 1)
    <3>1. y = t + q * M /\ q * M = M * q
      BY <1>1, <1>6, <2>2
    <3> QED BY <1>1, <1>4, <1>5, <1>6, <3>1
  <2> QED BY <2>1, <2>2
<1> HIDE DEF y
<1>9. old - 1 \in Nat /\ S * (old - 1) = old * S - S /\ S * old = old * S
  BY <1>1, <1>3
<1>10. old - 1 <= y \div S
  BY <1>1, <1>8, <1>9, DivBetween
<1>11. y \div S <= old
  BY <1>1, <1>3, <1>8, <1>9, DivBetween
<1>12. y \div S \in Nat
  BY <1>1, <1>8, DivNat
<1>15. y \div S \in {old - 1, old}
  BY <1>3, <1>10, <1>11, <1>12
<1>16. r > 0
  BY <1>7
<1> HIDE DEF r
<1> QED BY <1>13, <1>14, <1>15, <1>16 DEF old

\* The value entries after setValue.
LEMMA SetValueAt ==
    ASSUME NEW d \in Databases, NEW t, NEW k \in Keys, NEW v, NEW typ, NEW ttl, NEW j \in Keys
    PROVE  setValue(d, t, k, v, typ, ttl).K[j]
             = IF j = k THEN [val |-> v, exp |-> IF ttl > 0 THEN WithTTL(t, ttl) ELSE 0]
               ELSE d.K[j]
<1> DEFINE exp == IF ttl > 0 THEN WithTTL(t, ttl) ELSE 0
<1>1. DOMAIN d.K = Keys
  BY DEF Databases
<1>2. setValue(d, t, k, v, typ, ttl).K = [d.K EXCEPT ![k] = [val |-> v, exp |-> exp]]
  BY DEF setValue
<1> HIDE DEF exp
<1>3. setValue(d, t, k, v, typ, ttl).K[j] = IF j = k THEN [val |-> v, exp |-> exp] ELSE d.K[j]
  BY <1>1, <1>2
<1> QED BY <1>3 DEF exp

\* A replaced value carries on the lifetime of the old one.
LEMMA ReplaceFields ==
    ASSUME NEW d \in Databases, NEW t, NEW k \in Keys, NEW v
    PROVE  LET n   == Replace(d, t, k, v)
               ttl == oldTTLMs(d, t, k)
           IN  n.K[k].exp = IF ttl > 0 THEN WithTTL(t, ttl) ELSE 0
<1> DEFINE ttl == oldTTLMs(d, t, k)
           exp == IF ttl > 0 THEN WithTTL(t, ttl) ELSE 0
           typ == v.kind
<1>1. Replace(d, t, k, v) = setValue(d, t, k, v, typ, ttl)
  BY DEF Replace
<1> HIDE DEF ttl, typ
<1>2. ASSUME NEW j \in Keys
      PROVE  setValue(d, t, k, v, typ, ttl).K[j]
                = IF j = k THEN [val |-> v, exp |-> exp] ELSE d.K[j]
  BY SetValueAt
<1>3. [val |-> v, exp |-> exp].exp = exp
  OBVIOUS
<1> QED BY <1>1, <1>2, <1>3 DEF ttl

\* A command that changes the value of a live key never lengthens its life, never
\* drops its expiry and costs it at most a second, for every clock, lifetime and
\* value (LifetimeErosion).
THEOREM LifetimesErode == Spec => []LifetimeErosion
<1>1. IInv => LifetimeErosion
  <2> SUFFICES ASSUME IInv, NEW c \in Requests, c.op \in Keeping, Exists(db, now, c.key),
                      NEW o \in applyCmdInTxn(db, now, c), o.db.K[c.key] # None
               PROVE  IF db.K[c.key].exp = 0 THEN o.db.K[c.key].exp = 0
                      ELSE o.db.K[c.key].exp \in {db.K[c.key].exp - 1, db.K[c.key].exp}
    BY DEF LifetimeErosion
  <2>1. db \in Databases /\ now \in Nat /\ c \in CommandSpace
    BY RequestsAssumption DEF IInv, TypeOK
  <2>2. KeepShape(db, now, c, o.db) /\ c.key \in Keys
    BY <2>1, KeepingShape
  <2> DEFINE e == db.K[c.key]
  <2>3. e.exp \in Nat /\ (e.exp = 0 \/ e.exp > now \div TicksPerSec)
    BY <2>1, <2>2, StoredValue DEF Exists, Live
  <2>4. CASE o.db = db
    BY <2>3, <2>4
  <2>5. CASE o.db = Delete(db, {c.key})
    <3>1. Delete(db, {c.key}).K[c.key] = None
      BY <2>2 DEF Delete
    <3> QED BY <2>5, <3>1
  <2>6. ASSUME NEW v, o.db = Replace(db, now, c.key, v)
        PROVE  IF e.exp = 0 THEN o.db.K[c.key].exp = 0
               ELSE o.db.K[c.key].exp \in {e.exp - 1, e.exp}
    <3> DEFINE ttl == oldTTLMs(db, now, c.key)
    <3>1. ttl = remainingTTLMs(e, now)
      BY DEF oldTTLMs
    <3>2. o.db.K[c.key].exp = IF ttl > 0 THEN WithTTL(now, ttl) ELSE 0
      BY <2>1, <2>2, <2>6, ReplaceFields
    <3> HIDE DEF ttl, e
    <3>3. CASE e.exp = 0
      BY <3>1, <3>2, <3>3 DEF remainingTTLMs
    <3>4. CASE e.exp # 0
      <4>1. e.exp \in Nat \ {0} /\ e.exp > now \div TicksPerSec
        BY <2>3, <3>4
      <4>2. ttl > 0 /\ WithTTL(now, ttl) \in {e.exp - 1, e.exp}
        BY <2>1, <3>1, <4>1, RoundTrip
      <4> QED BY <3>2, <3>4, <4>2
    <3> QED BY <3>3, <3>4
  <2> QED BY <2>2, <2>4, <2>5, <2>6 DEF KeepShape
<1> QED BY <1>1, Invariant, PTL

(***************************************************************************)
(* What has expired stays gone.                                            *)
(***************************************************************************)
\* A command that does not create keys shows no key that was not shown before.
LEMMA OthersRevive ==
    ASSUME NEW d \in Databases, NEW t \in Nat, NEW c \in CommandSpace, c.op \notin Creating,
           NEW o \in applyCmdInTxn(d, t, c), NEW k \in Keys, Exists(o.db, t, k)
    PROVE  Exists(d, t, k)
<1>0. c.op \in {"DEL", "FLUSHDB", "EXPIRE", "PERSIST"} \/ c.op \in Keeping
  BY DEF Creating, Keeping,
         CommandSpace, SetCommands, TextCommands, MSetCommands, DelCommands,
         FlushCommands, IncrCommands, ExpireCommands, PersistCommands, HSetCommands,
         AddCommands, RemoveCommands, PopCommands, LTrimCommands, LRemCommands
<1>1. DOMAIN d.K = Keys
  BY DEF Databases
<1>2. ASSUME NEW ks, o.db = Delete(d, ks) PROVE Exists(d, t, k)
  <2>1. o.db.K[k] = IF k \in ks THEN None ELSE d.K[k]
    BY <1>2 DEF Delete
  <2> QED BY <2>1 DEF Exists, Live
<1>3. CASE c.op = "DEL"
  <2> DEFINE gone == {j \in Keys : (\E i \in DOMAIN c.keys : c.keys[i] = j)
                                   /\ Exists(d, t, j)}
  <2>1. o = DEL(d, t, c) /\ c.key = None
    BY <1>3
    DEF applyCmdInTxn,
        CommandSpace, SetCommands, TextCommands, MSetCommands, DelCommands,
        FlushCommands, IncrCommands, ExpireCommands, PersistCommands, HSetCommands,
        AddCommands, RemoveCommands, PopCommands, LTrimCommands, LRemCommands
  <2>2. o.db = Delete(d, gone)
    BY <2>1 DEF DEL, Outcome
  <2> QED BY <1>2, <2>2
<1>4. CASE c.op = "FLUSHDB"
  <2>1. o = FLUSHDB(d, t, c)
    BY <1>4 DEF applyCmdInTxn
  <2>2. o.db.K[k] = IF Live(d.K[k], t) THEN None ELSE d.K[k]
    BY <2>1 DEF FLUSHDB, Outcome
  <2> QED BY <2>2 DEF Exists, Live
<1>5. CASE c.op = "EXPIRE"
  <2> DEFINE e == [val |-> d.K[c.key].val, exp |-> WithTTL(t, c.ttl)]
  <2>1. o = EXPIRE(d, t, c)
    BY <1>5 DEF applyCmdInTxn
  <2>2. \/ o.db = d
        \/ Exists(d, t, c.key) /\ o.db = [d EXCEPT !.K = [@ EXCEPT ![c.key] = e]]
    BY <2>1 DEF EXPIRE, Outcome
  <2> HIDE DEF e
  <2>3. CASE o.db = d
    BY <2>3
  <2>4. CASE Exists(d, t, c.key) /\ o.db = [d EXCEPT !.K = [@ EXCEPT ![c.key] = e]]
    <3>1. o.db.K = [d.K EXCEPT ![c.key] = e]
      BY <2>4 DEF Databases
    <3>2. k # c.key => o.db.K[k] = d.K[k]
      BY <1>1, <3>1
    <3> QED BY <2>4, <3>2 DEF Exists
  <2> QED BY <2>2, <2>3, <2>4
<1>6. CASE c.op = "PERSIST"
  <2>1. o = PERSIST(d, t, c)
    BY <1>6 DEF applyCmdInTxn
  <2> DEFINE v   == d.K[c.key].val
             typ == getExistingType(d, t, c.key)
  <2>2. o.db = d \/ (Exists(d, t, c.key) /\ o.db = setValue(d, t, c.key, v, typ, 0))
    BY <2>1 DEF PERSIST, Outcome
  <2>3. c.key \in Keys
    BY <1>6
    DEF CommandSpace, SetCommands, TextCommands, MSetCommands, DelCommands,
        FlushCommands, IncrCommands, ExpireCommands, PersistCommands, HSetCommands,
        AddCommands, RemoveCommands, PopCommands, LTrimCommands, LRemCommands
  <2> HIDE DEF v, typ
  <2>4. k # c.key => setValue(d, t, c.key, v, typ, 0).K[k] = d.K[k]
    <3> DEFINE x == c.key
    <3>1. x \in Keys
      BY <2>3
    <3> HIDE DEF x
    <3>2. k # x => setValue(d, t, x, v, typ, 0).K[k] = d.K[k]
      BY <1>1, <3>1 DEF setValue
    <3> QED BY <3>2 DEF x
  <2> QED BY <2>2, <2>4 DEF Exists
<1>7. CASE c.op \in Keeping
  <2>1. KeepShape(d, t, c, o.db) /\ c.key \in Keys
    BY <1>7, KeepingShape
  <2>2. ASSUME NEW v, Exists(d, t, c.key), o.db = Replace(d, t, c.key, v)
        PROVE  Exists(d, t, k)
    <3> DEFINE x == c.key
    <3>1. x \in Keys /\ o.db = Replace(d, t, x, v)
      BY <2>1, <2>2
    <3> HIDE DEF x
    <3>2. k # x => Replace(d, t, x, v).K[k] = d.K[k]
      BY <1>1, <3>1 DEF Replace, setValue
    <3>3. k # c.key => o.db.K[k] = d.K[k]
      BY <3>1, <3>2 DEF x
    <3> QED BY <2>2, <3>3 DEF Exists
  <2> QED BY <1>2, <2>1, <2>2 DEF KeepShape
<1> QED BY <1>0, <1>3, <1>4, <1>5, <1>6, <1>7

\* A key that clients do not see comes into being by a creating command only
\* (NoResurrection).
THEOREM NothingResurrects == Spec => NoResurrection
<1> DEFINE A == \A k \in Keys : ~Exists(db, now, k) /\ Exists(db', now', k)
                   => \E c \in Requests : c.op \in Creating /\ Apply(c)
<1>1. IInv /\ [Next]_vars => [A]_vars
  <2> SUFFICES ASSUME IInv, Next, NEW k \in Keys, ~Exists(db, now, k), Exists(db', now', k)
               PROVE  \E c \in Requests : c.op \in Creating /\ Apply(c)
    OBVIOUS
  <2>1. db \in Databases /\ now \in Nat /\ Requests \subseteq CommandSpace
    BY RequestsAssumption DEF IInv, TypeOK
  <2>2. (\E c \in Requests : Apply(c)) \/ Tick
    BY DEF Next, Set, GetSet, Append_, MSet, Del, FlushDB, Incr, Expire,
           Persist, HSet, HDel, Push, Pop, LTrim, LRem, SAdd, SRem, SPop
  <2>3. ASSUME NEW c \in Requests, Apply(c), c.op \notin Creating PROVE FALSE
    <3>1. PICK o \in applyCmdInTxn(db, now, c) : db' = o.db /\ now' = now
      BY <2>3 DEF Apply
    <3>2. Exists(o.db, now, k)
      BY <3>1
    <3> QED BY <2>1, <2>3, <3>2, OthersRevive
  <2>4. ASSUME Tick PROVE FALSE
    <3>1. db' = db /\ now' = now + 1
      BY <2>4 DEF Tick
    <3>2. Live(db.K[k], now + 1) /\ db.K[k] \in ValueEntries \cup {None}
      BY <2>1, <3>1, DatabaseFields DEF Exists
    <3>3. Live(db.K[k], now)
      BY <2>1, <3>2, LiveBefore
    <3> QED BY <3>3 DEF Exists
  <2> QED BY <2>2, <2>3, <2>4
<1> QED BY <1>1, Invariant, PTL DEF Spec, NoResurrection

(***************************************************************************)
(* Readers.                                                                *)
(***************************************************************************)
\* The replies that readers give differ from a refusal.
LEMMA RepliesDiffer ==
    /\ \A n : IntReply(n) # ErrorReply("WRONGTYPE")
    /\ ErrorReply("DECODE") # ErrorReply("WRONGTYPE")
    /\ \A m, n : IntReply(m) = IntReply(n) => m = n
<1>1. ASSUME NEW n PROVE IntReply(n) # ErrorReply("WRONGTYPE")
  <2>1. IntReply(n).type = "int" /\ ErrorReply("WRONGTYPE").type = "error"
    BY DEF IntReply, ErrorReply
  <2> QED BY <2>1
<1>2. ErrorReply("DECODE") # ErrorReply("WRONGTYPE")
  <2>1. ErrorReply("DECODE").err = "DECODE" /\ ErrorReply("WRONGTYPE").err = "WRONGTYPE"
    BY DEF ErrorReply
  <2> QED BY <2>1
<1>3. ASSUME NEW m, NEW n, IntReply(m) = IntReply(n) PROVE m = n
  <2>1. IntReply(m).int = m /\ IntReply(n).int = n
    BY DEF IntReply
  <2> QED BY <1>3, <2>1
<1> QED BY <1>1, <1>2, <1>3

\* A reader with a number to tell refuses a live key of another type, and no other.
LEMMA ReadTypedRefuses ==
    ASSUME NEW d, NEW t, NEW k, NEW want, NEW missing, NEW n
    PROVE  LET r == ReadTyped(d, t, k, want, missing, IntReply(n))
           IN  /\ Exists(d, t, k) => (r # ErrorReply("WRONGTYPE")
                                        <=> getExistingType(d, t, k) = want)
               /\ ~Exists(d, t, k) => r = missing
BY RepliesDiffer DEF ReadTyped, ensureExistingType

\* A live entry with an expiry has time left, in any unit.
LEMMA TimeIsLeft ==
    ASSUME NEW e, e.exp \in Nat, NEW t \in Nat, e.exp > t \div TicksPerSec,
           NEW unit \in Nat \ {0}
    PROVE  (e.exp * TicksPerSec - t) \div unit \in Nat
<1> DEFINE S == TicksPerSec
           p == t \div S
           x == e.exp
<1>1. S \in Nat \ {0}
  BY TicksPerSecType
<1>2. p \in Nat /\ S * p \in Nat /\ t < S * p + S /\ x \in Nat /\ x > p
  BY <1>1, DivBounds
<1> HIDE DEF S, p, x
<1>3. S * (p + 1) = S * p + S /\ S * (p + 1) <= x * S /\ x * S \in Nat
  BY <1>1, <1>2
<1> DEFINE z == x * S
           w == S * p + S
<1>4. z \in Nat /\ w \in Nat /\ t < w /\ w <= z
  BY <1>1, <1>2, <1>3
<1> HIDE DEF z, w
<1>5. z - t \in Nat
  BY <1>4
<1>6. (z - t) \div unit \in Nat
  BY <1>5, DivNat
<1> QED BY <1>6 DEF z, x, S

\* TTL and PTTL say that a key is missing when it is.
LEMMA TimeToLiveAgrees ==
    ASSUME NEW d \in Databases, NEW t \in Nat, NEW k \in Keys, NEW unit \in Nat \ {0}
    PROVE  Exists(d, t, k) <=> TimeToLive(d, t, k, unit) # IntReply(-2)
<1> DEFINE e   == d.K[k]
           ttl == (e.exp * TicksPerSec - t) \div unit
           n   == IF ~Exists(d, t, k) THEN -2
                  ELSE IF e.exp = 0 THEN -1
                  ELSE IF ttl < 0 THEN -2 ELSE ttl
<1>1. TimeToLive(d, t, k, unit) = IntReply(n)
  BY DEF TimeToLive
<1>2. ASSUME Exists(d, t, k) PROVE n # -2
  <2>1. e # None /\ e.exp \in Nat
    BY <1>2, StoredValue DEF Exists, Live
  <2>2. CASE e.exp = 0
    BY <1>2, <2>2
  <2>3. CASE e.exp # 0
    <3>1. e.exp > t \div TicksPerSec
      BY <1>2, <2>3 DEF Exists, Live
    <3>2. ttl \in Nat
      BY <2>1, <3>1, TimeIsLeft
    <3> HIDE DEF ttl
    <3> QED BY <1>2, <2>3, <3>2
  <2> QED BY <2>2, <2>3
<1>3. ~Exists(d, t, k) => n = -2
  OBVIOUS
<1> HIDE DEF n
<1> QED BY <1>1, <1>2, <1>3, RepliesDiffer

\* A live key answers to the reader of exactly one type, and TYPE, EXISTS, KEYS,
\* TTL and PTTL agree that it is there (ReadersAgree).
THEOREM ReadersAlwaysAgree == Spec => []ReadersAgree
<1>1. IInv => ReadersAgree
  <2> SUFFICES ASSUME IInv, NEW k \in Keys
      PROVE  LET readers == [string |-> StrLen(db, now, k), hash |-> HLen(db, now, k),
                             list |-> LLen(db, now, k), set |-> SCard(db, now, k)]
                 refused == ErrorReply("WRONGTYPE")
                 there   == Type(db, now, k) # "none"
             IN  /\ there <=> k \in KeysOf(db, now, Keys)
                 /\ there <=> ExistsCount(db, now, <<k>>) = IntReply(1)
                 /\ there <=> TTL(db, now, k) # IntReply(-2)
                 /\ there <=> PTTL(db, now, k) # IntReply(-2)
                 /\ there => \A t \in Kinds :
                       readers[t] # refused <=> t = Type(db, now, k)
                 /\ ~there => \A t \in Kinds : readers[t] = IntReply(0)
    BY DEF ReadersAgree
  <2> DEFINE readers == [string |-> StrLen(db, now, k), hash |-> HLen(db, now, k),
                         list |-> LLen(db, now, k), set |-> SCard(db, now, k)]
             there   == Type(db, now, k) # "none"
             E       == Exists(db, now, k)
             typ     == getExistingType(db, now, k)
  <2>1. db \in Databases /\ now \in Nat
    BY DEF IInv, TypeOK
  <2>2. typ \in Kinds
    BY <2>1, DatabaseFields DEF getExistingType, Live, TypeEntries, Kinds
  <2>3. (there <=> E) /\ (E => Type(db, now, k) = typ)
    BY <2>2 DEF Type, Kinds
  <2>4. there <=> k \in KeysOf(db, now, Keys)
    BY <2>3 DEF KeysOf
  <2>5. there <=> ExistsCount(db, now, <<k>>) = IntReply(1)
    <3> DEFINE hits == {i \in DOMAIN <<k>> : Exists(db, now, <<k>>[i])}
    <3>1. ExistsCount(db, now, <<k>>) = IntReply(Cardinality(hits))
      BY DEF ExistsCount
    <3>2. hits = IF E THEN {1} ELSE {}
      <4>1. DOMAIN <<k>> = {1} /\ <<k>>[1] = k
        OBVIOUS
      <4> QED BY <4>1
    <3>3. Cardinality({1}) = 1 /\ Cardinality({}) = 0
      BY FS_Singleton, FS_EmptySet
    <3>4. Cardinality(hits) = 1 <=> E
      BY <3>2, <3>3
    <3> HIDE DEF hits
    <3> QED BY <2>3, <3>1, <3>4, RepliesDiffer
  <2>6. there <=> TTL(db, now, k) # IntReply(-2)
    BY <2>1, <2>3, TimeToLiveAgrees, TicksPerSecType DEF TTL
  <2>7. there <=> PTTL(db, now, k) # IntReply(-2)
    BY <2>1, <2>3, TimeToLiveAgrees, ClockAssumption DEF PTTL
  <2>8. /\ E => (StrLen(db, now, k) # ErrorReply("WRONGTYPE") <=> typ = "string")
        /\ ~E => StrLen(db, now, k) = IntReply(0)
    BY ReadTypedRefuses DEF StrLen
  <2>9. /\ E => (HLen(db, now, k) # ErrorReply("WRONGTYPE") <=> typ = "hash")
        /\ ~E => HLen(db, now, k) = IntReply(Cardinality(DOMAIN HashOf(db, now, k)))
    BY ReadTypedRefuses DEF HLen, HashReply, HGetAll
  <2>10. /\ E => (LLen(db, now, k) # ErrorReply("WRONGTYPE") <=> typ = "list")
         /\ ~E => LLen(db, now, k) = IntReply(Len(ListOf(db, now, k)))
    BY ReadTypedRefuses DEF LLen
  <2>11. /\ E => (SCard(db, now, k) # ErrorReply("WRONGTYPE") <=> typ = "set")
         /\ ~E => SCard(db, now, k) = IntReply(Cardinality(MembersOf(db, now, k)))
    BY ReadTypedRefuses DEF SCard, SetAnswer
  <2>12. ASSUME ~E
         PROVE  /\ Cardinality(DOMAIN HashOf(db, now, k)) = 0 /\ Len(ListOf(db, now, k)) = 0
                /\ Cardinality(MembersOf(db, now, k)) = 0
    <3>1. HashOf(db, now, k) = [f \in {} |-> f] /\ ListOf(db, now, k) = << >>
          /\ MembersOf(db, now, k) = {}
      BY <2>12 DEF HashOf, ListOf, MembersOf, Holds
    <3>2. DOMAIN [f \in {} |-> f] = {} /\ Len(<< >>) = 0 /\ Cardinality({}) = 0
      BY FS_EmptySet
    <3> QED BY <3>1, <3>2
  <2>13. /\ readers["string"] = StrLen(db, now, k) /\ readers["hash"] = HLen(db, now, k)
         /\ readers["list"] = LLen(db, now, k) /\ readers["set"] = SCard(db, now, k)
    OBVIOUS
  <2> HIDE DEF readers, E, typ
  <2>14. ASSUME there, NEW t \in Kinds
         PROVE  readers[t] # ErrorReply("WRONGTYPE") <=> t = Type(db, now, k)
    BY <2>3, <2>8, <2>9, <2>10, <2>11, <2>13, <2>14 DEF Kinds
  <2>15. ASSUME ~there, NEW t \in Kinds PROVE readers[t] = IntReply(0)
    BY <2>3, <2>8, <2>9, <2>10, <2>11, <2>12, <2>13, <2>15 DEF Kinds
  <2> QED BY <2>4, <2>5, <2>6, <2>7, <2>14, <2>15 DEF readers
<1> QED BY <1>1, Invariant, PTL

(***************************************************************************)
(* Ranges.                                                                 *)
(***************************************************************************)
\* The slices of a list that LRANGE and LINDEX are compared on.
LEMMA SliceCuts ==
    ASSUME NEW s \in Seq(Words), NEW p \in Int, NEW j \in Int
    PROVE  LET n  == Len(s)
               at == IF p < 0 THEN n + p ELSE p
           IN  /\ p \in 1 .. n => sliceList(s, 0, p - 1) = SubSeq(s, 1, p)
               /\ p \in 1 .. n => sliceList(s, p, -1) = SubSeq(s, p + 1, n)
               /\ at < 0 \/ at >= n => sliceList(s, p, p) = << >>
               /\ at \in 0 .. (n - 1) => sliceList(s, p, p) = SubSeq(s, at + 1, at + 1)
               /\ p \in 0 .. (n - 1) => sliceList(s, p, j) = sliceList(s, p - n, j)
<1> DEFINE n  == Len(s)
           at == IF p < 0 THEN n + p ELSE p
<1>1. n \in Nat
  OBVIOUS
<1> HIDE DEF n
<1>2. \A start, stop \in Int :
        LET fst  == IF start < 0 THEN n + start ELSE start
            lst  == IF stop < 0 THEN n + stop ELSE stop
            from == IF fst < 0 THEN 0 ELSE fst
            to   == IF lst >= n THEN n - 1 ELSE lst
        IN  sliceList(s, start, stop) = IF from > to \/ from >= n THEN << >>
                                        ELSE SubSeq(s, from + 1, to + 1)
  BY DEF sliceList, n
<1>22. ASSUME NEW start \in Int, NEW stop \in Int, NEW from \in 0 .. (n - 1),
              NEW to \in from .. (n - 1),
              from = IF start < 0 THEN n + start ELSE start,
              to = IF stop < 0 THEN n + stop ELSE stop
       PROVE  sliceList(s, start, stop) = SubSeq(s, from + 1, to + 1)
  <2>1. from \in Int /\ to \in Int
    BY <1>1, <1>22
  <2>2. /\ ~(from < 0) /\ ~(to >= n) /\ ~(from > to) /\ ~(from >= n)
    BY <1>1, <1>22, <2>1
  <2>3. sliceList(s, start, stop) =
          LET first == IF from < 0 THEN 0 ELSE from
              last  == IF to >= n THEN n - 1 ELSE to
          IN  IF first > last \/ first >= n THEN << >> ELSE SubSeq(s, first + 1, last + 1)
    BY <1>22, Zenon DEF sliceList, n
  <2> QED BY <2>2, <2>3, Zenon
<1>3. ASSUME p \in 1 .. n PROVE sliceList(s, 0, p - 1) = SubSeq(s, 1, p)
  <2>1. /\ 0 \in Int /\ p - 1 \in Int /\ 0 \in 0 .. (n - 1) /\ p - 1 \in 0 .. (n - 1)
        /\ 0 = IF 0 < 0 THEN n + 0 ELSE 0
        /\ p - 1 = IF p - 1 < 0 THEN n + (p - 1) ELSE p - 1
        /\ 0 + 1 = 1 /\ (p - 1) + 1 = p
    BY <1>1, <1>3
  <2>2. sliceList(s, 0, p - 1) = SubSeq(s, 0 + 1, (p - 1) + 1)
    BY <1>22, <2>1
  <2> QED BY <2>1, <2>2
<1>4. ASSUME p \in 1 .. n PROVE sliceList(s, p, -1) = SubSeq(s, p + 1, n)
  <2>1. CASE p = n
    <3>1. sliceList(s, p, -1) = << >>
      BY <1>1, <1>2, <2>1
    <3>2. SubSeq(s, p + 1, n) = << >>
      BY <1>1, <2>1, SubSeqEmpty
    <3> QED BY <3>1, <3>2
  <2>2. CASE p # n
    <3>1. sliceList(s, p, -1) = SubSeq(s, p + 1, (n + -1) + 1)
      BY <1>1, <1>2, <1>4, <2>2
    <3>2. (n + -1) + 1 = n
      BY <1>1
    <3> QED BY <3>1, <3>2
  <2> QED BY <2>1, <2>2
<1>5. ASSUME at < 0 \/ at >= n PROVE sliceList(s, p, p) = << >>
  BY <1>1, <1>2, <1>5
<1>6. ASSUME at \in 0 .. (n - 1) PROVE sliceList(s, p, p) = SubSeq(s, at + 1, at + 1)
  <2>1. at \in 0 .. (n - 1) /\ at \in at .. (n - 1) /\ at = IF p < 0 THEN n + p ELSE p
    BY <1>1, <1>6
  <2> HIDE DEF at
  <2> QED BY <1>22, <2>1
<1>7. ASSUME p \in 0 .. (n - 1) PROVE sliceList(s, p, j) = sliceList(s, p - n, j)
  <2>1. /\ p - n \in Int /\ p - n < 0 /\ ~(p < 0) /\ n + (p - n) = p
    BY <1>1, <1>7
  <2> QED BY <1>2, <2>1
<1> QED BY <1>3, <1>4, <1>5, <1>6, <1>7 DEF n

\* A key typed as a list holds one.
LEMMA ListsRead ==
    ASSUME NEW d, Good(d), NEW t, NEW k \in Keys, Type(d, t, k) = "list"
    PROVE  /\ ListOf(d, t, k) \in Seq(Words)
           /\ \A i, j : LRange(d, t, k, i, j) = ArrayReply(sliceList(ListOf(d, t, k), i, j))
           /\ \A i : LIndex(d, t, k, i) =
                LET list == ListOf(d, t, k)
                    at   == IF i < 0 THEN Len(list) + i ELSE i
                IN  IF at < 0 \/ at >= Len(list) THEN NilReply
                    ELSE BulkReply(<<list[at + 1]>>)
<1>1. Exists(d, t, k) /\ ensureExistingType(d, t, k, "list")
  BY DEF Type, ensureExistingType
<1>2. d.T[k] # None /\ d.T[k].val = "list" /\ d.K[k] # None
  BY <1>1 DEF ensureExistingType, getExistingType, Exists, Live
<1>3. ~DecodeFails(d, t, k, "list")
  BY <1>2 DEF DecodeFails, Good, SoundTags
<1>4. ListOf(d, t, k) \in Seq(Words)
  BY ContentTypes DEF Good
<1>5. \A m, a : ReadTyped(d, t, k, "list", m, a) = a
  BY <1>1, <1>3 DEF ReadTyped
<1>6. \A i, j : LRange(d, t, k, i, j) = ArrayReply(sliceList(ListOf(d, t, k), i, j))
  BY <1>5 DEF LRange
<1>7. ASSUME NEW i
      PROVE  LIndex(d, t, k, i) =
                LET list == ListOf(d, t, k)
                    at   == IF i < 0 THEN Len(list) + i ELSE i
                IN  IF at < 0 \/ at >= Len(list) THEN NilReply
                    ELSE BulkReply(<<list[at + 1]>>)
  BY <1>5 DEF LIndex
<1> QED BY <1>4, <1>6, <1>7

\* The ranges LRANGE cuts tile every list and agree with LINDEX at every index
\* (RangesTile).
THEOREM RangesAlwaysTile == Spec => []RangesTile
<1>1. IInv => RangesTile
  <2> SUFFICES ASSUME IInv, NEW k \in Keys, Type(db, now, k) = "list"
      PROVE  LET list        == ListOf(db, now, k)
                 n           == Len(list)
                 range(i, j) == LRange(db, now, k, i, j).seq
                 at(i)       == LIndex(db, now, k, i)
             IN  /\ \A p \in 1 .. n : range(0, p - 1) \o range(p, -1) = list
                 /\ \A p \in (-n - 1) .. n :
                       range(p, p) = IF at(p) = NilReply THEN << >> ELSE at(p).str
                 /\ \A p \in 0 .. (n - 1), j \in (-n - 1) .. (n + 1) :
                       range(p, j) = range(p - n, j)
    BY DEF RangesTile
  <2> DEFINE list        == ListOf(db, now, k)
             n           == Len(list)
             range(i, j) == LRange(db, now, k, i, j).seq
             lindex(i)   == LIndex(db, now, k, i)
  <2>1. Good(db)
    BY DEF IInv, TypeOK, TagSound, NonEmptyCollections, Good
  <2>2. list \in Seq(Words)
    BY <2>1, ListsRead
  <2>3. ASSUME NEW i, NEW j PROVE range(i, j) = sliceList(list, i, j)
    <3>1. LRange(db, now, k, i, j) = ArrayReply(sliceList(list, i, j))
      BY <2>1, ListsRead
    <3> QED BY <3>1 DEF ArrayReply
  <2>4. ASSUME NEW i
        PROVE  lindex(i) = LET at == IF i < 0 THEN n + i ELSE i
                           IN  IF at < 0 \/ at >= n THEN NilReply
                               ELSE BulkReply(<<list[at + 1]>>)
    BY <2>1, ListsRead
  <2>5. n \in Nat
    BY <2>2
  <2> HIDE DEF list, range, lindex
  <2>6. ASSUME NEW p \in 1 .. n PROVE range(0, p - 1) \o range(p, -1) = list
    <3>1. range(0, p - 1) = SubSeq(list, 1, p) /\ range(p, -1) = SubSeq(list, p + 1, n)
      BY <2>2, <2>3, <2>5, <2>6, SliceCuts
    <3>2. SubSeq(list, 1, p) \o SubSeq(list, p + 1, n) = SubSeq(list, 1, n)
      BY <2>2, <2>5, ConcatAdjacentSubSeq
    <3>3. SubSeq(list, 1, n) = list
      BY <2>2, SubSeqFull
    <3> QED BY <3>1, <3>2, <3>3
  <2>7. ASSUME NEW p \in (-n - 1) .. n
        PROVE  range(p, p) = IF lindex(p) = NilReply THEN << >> ELSE lindex(p).str
    <3> DEFINE at == IF p < 0 THEN n + p ELSE p
    <3>1. p \in Int /\ at \in Int
      BY <2>5
    <3>2. CASE at < 0 \/ at >= n
      <4>1. sliceList(list, p, p) = << >>
        BY <2>2, <3>1, <3>2, SliceCuts
      <4>2. lindex(p) = NilReply
        BY <2>4, <3>2
      <4> QED BY <2>3, <4>1, <4>2
    <3>3. CASE ~(at < 0 \/ at >= n)
      <4>1. at \in 0 .. (n - 1) /\ at + 1 \in 1 .. n
        BY <2>5, <3>1, <3>3
      <4>2. sliceList(list, p, p) = SubSeq(list, at + 1, at + 1)
        BY <2>2, <3>1, <4>1, SliceCuts
      <4>3. lindex(p) = BulkReply(<<list[at + 1]>>)
        BY <2>4, <3>3
      <4>4. lindex(p) # NilReply /\ lindex(p).str = <<list[at + 1]>>
        <5> DEFINE x == <<list[at + 1]>>
        <5> HIDE DEF x
        <5>1. BulkReply(x).type = "bulk" /\ NilReply.type = "nil" /\ BulkReply(x).str = x
          BY DEF BulkReply, NilReply
        <5> QED BY <4>3, <5>1 DEF x
      <4> HIDE DEF at
      <4>5. SubSeq(list, at + 1, at + 1) = <<list[at + 1]>>
        <5> DEFINE m == at + 1
        <5>1. m \in 1 .. Len(list) /\ m \in m .. Len(list) /\ m \in Int
          BY <4>1
        <5> HIDE DEF m
        <5>2. SubSeq(list, m, m) = <<list[m]>> \o SubSeq(list, m + 1, m)
          BY <2>2, <5>1, SubSeqRecursiveFirst
        <5>3. SubSeq(list, m + 1, m) = << >>
          BY <5>1, SubSeqEmpty
        <5>4. <<list[m]>> \in Seq(Words)
          BY <2>2, <5>1
        <5>5. <<list[m]>> \o << >> = <<list[m]>>
          BY <5>4, ConcatEmptySeq
        <5> QED BY <5>2, <5>3, <5>5 DEF m
      <4> QED BY <2>3, <4>2, <4>4, <4>5
    <3> QED BY <3>2, <3>3
  <2>8. ASSUME NEW p \in 0 .. (n - 1), NEW j \in (-n - 1) .. (n + 1)
        PROVE  range(p, j) = range(p - n, j)
    <3>1. p \in Int /\ j \in Int
      BY <2>5
    <3>2. sliceList(list, p, j) = sliceList(list, p - n, j)
      BY <2>2, <3>1, SliceCuts
    <3> QED BY <2>3, <3>2
  <2> QED BY <2>6, <2>7, <2>8 DEF list, range, lindex
<1> QED BY <1>1, Invariant, PTL

(***************************************************************************)
(* Replies and what they leave.                                            *)
(***************************************************************************)
\* A key that is not in the last second of its life.
Calm(d, t, k) == Exists(d, t, k) =>
    d.K[k].exp = 0 \/ d.K[k].exp > t \div TicksPerSec + 1

\* Such a key survives a change of its value.
LEMMA ReplacedIsRead ==
    ASSUME NEW d \in Databases, NEW t \in Nat, NEW k \in Keys, NEW v \in Values,
           Calm(d, t, k)
    PROVE  /\ Exists(Replace(d, t, k, v), t, k)
           /\ Replace(d, t, k, v).K[k].val = v
<1> DEFINE e   == d.K[k]
           ttl == oldTTLMs(d, t, k)
           exp == IF ttl > 0 THEN WithTTL(t, ttl) ELSE 0
           new == Replace(d, t, k, v).K[k]
           sec == t \div TicksPerSec
<1>1. new = [val |-> v, exp |-> exp]
  BY SetValueAt DEF Replace
<1>2. sec \in Nat
  BY DivNat, TicksPerSecType
<1>3. exp \in Nat
  <2>1. ttl \in Nat
    BY OldTTLType
  <2>2. ttl * TicksPerMs \in Nat
    BY <2>1, TimesNat, ClockAssumption
  <2> HIDE DEF ttl
  <2>3. WithTTL(t, ttl) \in Nat
    BY <2>1, <2>2, WithTTLType
  <2> QED BY <2>3
<1>4. new.val = v /\ new.exp = exp
  BY <1>1
<1>5. new # None
  BY <1>1, <1>3, NoneAssumption DEF ValueEntries
<1>6. exp = 0 \/ exp > sec
  <2>1. CASE ~Exists(d, t, k)
    BY <2>1 DEF oldTTLMs
  <2>2. CASE Exists(d, t, k)
    <3>1. e.exp \in Nat /\ (e.exp = 0 \/ e.exp > sec + 1)
      BY <2>2, StoredValue DEF Exists, Live, Calm
    <3>2. ttl = remainingTTLMs(e, t)
      BY <2>2 DEF oldTTLMs
    <3> HIDE DEF ttl, e
    <3>3. CASE e.exp = 0
      BY <3>2, <3>3 DEF remainingTTLMs
    <3>4. CASE e.exp # 0
      <4>1. e.exp \in Nat \ {0} /\ e.exp > sec
        BY <1>2, <3>1, <3>4
      <4>2. ttl > 0 /\ WithTTL(t, ttl) \in {e.exp - 1, e.exp}
        BY <3>2, <4>1, RoundTrip
      <4> QED BY <1>2, <3>1, <3>4, <4>2
    <3> QED BY <3>3, <3>4
  <2> QED BY <2>1, <2>2
<1> HIDE DEF exp, new
<1> QED BY <1>4, <1>5, <1>6 DEF new, Exists, Live

\* A deleted key is gone.
LEMMA DeletedIsGone ==
    ASSUME NEW d, NEW t, NEW k \in Keys
    PROVE  ~Exists(Delete(d, {k}), t, k)
<1>1. Delete(d, {k}).K[k] = None
  BY DEF Delete
<1> QED BY <1>1 DEF Exists, Live

\* A list or a set is read back as it was stored, or as nothing when it was deleted.
LEMMA ReadBack ==
    ASSUME NEW d \in Databases, NEW t \in Nat, NEW k \in Keys, Calm(d, t, k)
    PROVE  /\ \A s \in Seq(Words) :
                /\ ListOf(Replace(d, t, k, List(s)), t, k) = s
                /\ ListOf(ReplaceOrDelete(d, t, k, List(s), s = << >>), t, k) = s
           /\ \A m \in SUBSET Words :
                /\ MembersOf(Replace(d, t, k, SetOf(m)), t, k) = m
                /\ MembersOf(ReplaceOrDelete(d, t, k, SetOf(m), m = {}), t, k) = m
           /\ \A F \in SUBSET Words : \A h \in [F -> Words] :
                /\ DOMAIN HashOf(Replace(d, t, k, Hash(h)), t, k) = F
                /\ DOMAIN HashOf(ReplaceOrDelete(d, t, k, Hash(h), DOMAIN h = {}), t, k) = F
<1>1. ASSUME NEW s \in Seq(Words)
      PROVE  /\ ListOf(Replace(d, t, k, List(s)), t, k) = s
             /\ ListOf(ReplaceOrDelete(d, t, k, List(s), s = << >>), t, k) = s
  <2> DEFINE v == List(s)
  <2>1. v \in Values
    BY ListValue
  <2>2. v.kind = "list" /\ v.seq = s
    BY DEF List
  <2> HIDE DEF v
  <2>3. ListOf(Replace(d, t, k, v), t, k) = s
    BY <2>1, <2>2, ReplacedIsRead DEF ListOf, Holds
  <2>4. ListOf(Delete(d, {k}), t, k) = << >>
    BY DeletedIsGone DEF ListOf, Holds
  <2> QED BY <2>3, <2>4 DEF ReplaceOrDelete, v
<1>2. ASSUME NEW m \in SUBSET Words
      PROVE  /\ MembersOf(Replace(d, t, k, SetOf(m)), t, k) = m
             /\ MembersOf(ReplaceOrDelete(d, t, k, SetOf(m), m = {}), t, k) = m
  <2> DEFINE v == SetOf(m)
  <2>1. v \in Values
    BY SetValue
  <2>2. v.kind = "set" /\ v.mem = m
    BY DEF SetOf
  <2> HIDE DEF v
  <2>3. MembersOf(Replace(d, t, k, v), t, k) = m
    BY <2>1, <2>2, ReplacedIsRead DEF MembersOf, Holds
  <2>4. MembersOf(Delete(d, {k}), t, k) = {}
    BY DeletedIsGone DEF MembersOf, Holds
  <2> QED BY <2>3, <2>4 DEF ReplaceOrDelete, v
<1>3. ASSUME NEW F \in SUBSET Words, NEW h \in [F -> Words]
      PROVE  /\ DOMAIN HashOf(Replace(d, t, k, Hash(h)), t, k) = F
             /\ DOMAIN HashOf(ReplaceOrDelete(d, t, k, Hash(h), DOMAIN h = {}), t, k) = F
  <2> DEFINE v == Hash(h)
  <2>1. v \in Values
    BY HashValue
  <2>2. v.kind = "hash" /\ v.map = h /\ DOMAIN h = F
    BY DEF Hash
  <2> HIDE DEF v
  <2>3. DOMAIN HashOf(Replace(d, t, k, v), t, k) = F
    BY <2>1, <2>2, ReplacedIsRead DEF HashOf, Holds
  <2>4. HashOf(Delete(d, {k}), t, k) = [f \in {} |-> f]
    BY DeletedIsGone DEF HashOf, Holds
  <2>5. DOMAIN HashOf(Delete(d, {k}), t, k) = {}
    BY <2>4
  <2> QED BY <2>2, <2>3, <2>5 DEF ReplaceOrDelete, v
<1> QED BY <1>1, <1>2, <1>3

\* The type check in front of a command answers with an error and keeps the
\* database, or lets the command run.
LEMMA TypedSplit ==
    ASSUME NEW d, NEW t, NEW k, NEW want, NEW r, NEW o, o = Typed(d, t, k, want, r)
    PROVE  o = r \/ (o.db = d /\ o.reply.type = "error")
BY DEF Typed, Fail, Outcome, ErrorReply

\* The last elements of a list, taken from its end and turned around again.
LEMMA ReversedTail ==
    ASSUME NEW s \in Seq(Words), NEW n \in 0 .. Len(s)
    PROVE  Reversed(SubSeq(Reversed(s), 1, n)) = SubSeq(s, Len(s) - n + 1, Len(s))
<1> DEFINE len == Len(s)
           rev == Reversed(s)
           out == SubSeq(rev, 1, n)
           end == SubSeq(s, len - n + 1, len)
<1>1. len \in Nat /\ n \in Nat /\ n <= len
  OBVIOUS
<1>2. \A i \in 1 .. len : s[i] \in Words
  BY ElementOfSeq
<1>3. rev \in Seq(Words) /\ Len(rev) = len
  BY ReversedType
<1>4. \A i \in 1 .. len : rev[i] = s[len + 1 - i]
  BY <1>1 DEF Reversed
<1> HIDE DEF rev, len
<1>5. \A i \in 1 .. n : rev[i] \in Words
  BY <1>1, <1>2, <1>4
<1>6. /\ out \in Seq(Words) /\ Len(out) = n
      /\ \A i \in 1 .. n : out[i] = rev[i]
  <2>1. /\ SubSeq(rev, 1, n) \in Seq(Words)
        /\ Len(SubSeq(rev, 1, n)) = IF 1 <= n THEN n - 1 + 1 ELSE 0
        /\ \A i \in 1 .. n - 1 + 1 : SubSeq(rev, 1, n)[i] = rev[1 + i - 1]
    BY <1>1, <1>5, SubSeqProperties
  <2>2. \A i \in 1 .. n : i \in 1 .. n - 1 + 1 /\ 1 + i - 1 = i
    BY <1>1
  <2>3. Len(out) = n
    BY <1>1, <2>1
  <2> QED BY <2>1, <2>2, <2>3
<1>7. /\ end \in Seq(Words) /\ Len(end) = n
      /\ \A i \in 1 .. n : end[i] = s[len - n + i]
  <2> DEFINE m == len - n + 1
  <2>1. m \in Int /\ \A i \in m .. len : s[i] \in Words
    BY <1>1, <1>2
  <2> HIDE DEF m
  <2>2. /\ SubSeq(s, m, len) \in Seq(Words)
        /\ Len(SubSeq(s, m, len)) = IF m <= len THEN len - m + 1 ELSE 0
        /\ \A i \in 1 .. len - m + 1 : SubSeq(s, m, len)[i] = s[m + i - 1]
    BY <1>1, <2>1, SubSeqProperties
  <2>3. \A i \in 1 .. n : i \in 1 .. len - m + 1 /\ m + i - 1 = len - n + i
    BY <1>1 DEF m
  <2>4. (IF m <= len THEN len - m + 1 ELSE 0) = n
    BY <1>1 DEF m
  <2>5. end = SubSeq(s, m, len)
    BY DEF m
  <2> HIDE DEF end
  <2> QED BY <2>2, <2>3, <2>4, <2>5
<1> HIDE DEF out, end
<1>8. Reversed(out) \in Seq(Words) /\ Len(Reversed(out)) = n
  BY <1>6, ReversedType
<1>9. ASSUME NEW i \in 1 .. n PROVE Reversed(out)[i] = end[i]
  <2>1. n + 1 - i \in 1 .. n /\ n + 1 - i \in 1 .. len /\ len + 1 - (n + 1 - i) = len - n + i
    BY <1>1
  <2>2. Reversed(out)[i] = out[n + 1 - i]
    BY <1>6 DEF Reversed
  <2> QED BY <1>4, <1>6, <1>7, <2>1, <2>2
<1> QED BY <1>7, <1>8, <1>9, SeqEqual DEF out, end, rev, len

\* LPOP and RPOP split the list they find into what they answer and what they leave.
LEMMA PopsSplit ==
    ASSUME NEW d, Good(d), NEW t \in Nat, NEW c \in PopCommands, Calm(d, t, c.key),
           c.op \in {"LPOP", "RPOP"}, NEW o, o = POP(d, t, c)
    PROVE  LET rest == ListOf(o.db, t, c.key)
               out  == IF o.reply.type = "bulk" THEN o.reply.str
                       ELSE IF o.reply.type = "array" THEN o.reply.seq ELSE << >>
           IN  /\ c.op = "LPOP" => out \o rest = ListOf(d, t, c.key)
               /\ c.op = "RPOP" => rest \o Reversed(out) = ListOf(d, t, c.key)
<1> DEFINE k    == c.key
           old  == ListOf(d, t, k)
           n    == IF c.count = << >> THEN 1
                   ELSE IF c.count[1] > Len(old) THEN Len(old) ELSE c.count[1]
           left == c.op = "LPOP"
           new  == IF left THEN SubSeq(old, n + 1, Len(old))
                           ELSE SubSeq(old, 1, Len(old) - n)
           got  == IF left THEN SubSeq(old, 1, n) ELSE SubSeq(Reversed(old), 1, n)
           bad  == c.count # << >> /\ ~(IsInteger(c.count) /\ c.count[1] >= 0)
           w    == ReplaceOrDelete(d, t, k, List(new), new = << >>)
           rep  == IF c.count = << >> THEN BulkReply(got) ELSE ArrayReply(got)
           r    == IF old = << >> THEN Outcome(d, NilReply)
                   ELSE IF bad THEN Fail(d, "NOTINTEGER")
                   ELSE Outcome(w, rep)
           rest == ListOf(o.db, t, k)
           out  == IF o.reply.type = "bulk" THEN o.reply.str
                   ELSE IF o.reply.type = "array" THEN o.reply.seq ELSE << >>
<1>1. k \in Keys /\ c.count \in Seq(Int) /\ d \in Databases
  BY DEF PopCommands, Good
<1>2. old \in Seq(Words) /\ Len(old) \in Nat
  BY <1>1, ContentTypes
<1>3. o = Typed(d, t, k, "list", r)
  BY DEF POP
<1>4. ASSUME o.db = d, out = << >>
      PROVE  out \o rest = old /\ rest \o Reversed(out) = old
  <2>1. rest = old
    BY <1>4
  <2>2. Reversed(<< >>) = << >>
    <3>1. << >> \in Seq(Words) /\ Len(<< >>) = 0
      BY EmptySeq
    <3>2. Reversed(<< >>) \in Seq(Words) /\ Len(Reversed(<< >>)) = 0
      BY <3>1, ReversedType
    <3> QED BY <3>2, EmptySeq
  <2> HIDE DEF out, old, rest
  <2> QED BY <1>2, <1>4, <2>1, <2>2, ConcatEmptySeq
<1>5. CASE o.db = d /\ o.reply.type \notin {"bulk", "array"}
  BY <1>4, <1>5
<1>6. CASE old # << >> /\ ~bad /\ o = Outcome(w, rep)
  <2>1. o.db = w /\ o.reply = rep
    BY <1>6 DEF Outcome
  <2> HIDE DEF w
  <2>2. out = got
    <3> HIDE DEF got
    <3> QED BY <2>1 DEF BulkReply, ArrayReply
  <2>3. n \in 0 .. Len(old)
    <3>1. Len(old) > 0
      BY <1>2, <1>6, EmptySeq
    <3>2. CASE c.count = << >>
      BY <1>2, <3>1, <3>2
    <3>3. CASE c.count # << >>
      <4>1. c.count[1] \in Int /\ c.count[1] >= 0
        BY <1>6, <3>3, ClockAssumption DEF IsInteger, Int64
      <4> QED BY <1>2, <3>3, <4>1
    <3> QED BY <3>2, <3>3
  <2> HIDE DEF n, old, bad
  <2>4. new \in Seq(Words)
    BY <1>2, <2>3, SubSeqType
  <2>5. rest = new
    <3>1. o.db = ReplaceOrDelete(d, t, k, List(new), new = << >>)
      BY <2>1 DEF w
    <3> HIDE DEF new
    <3> QED BY <1>1, <2>4, <3>1, ReadBack
  <2> HIDE DEF rest, out
  <2>6. \A i \in 0 .. Len(old) : SubSeq(old, 1, i) \o SubSeq(old, i + 1, Len(old)) = old
    <3> TAKE i \in 0 .. Len(old)
    <3>1. 1 \in 1 .. Len(old) + 1 /\ i \in 1 - 1 .. Len(old) /\ Len(old) \in i .. Len(old)
      BY <1>2
    <3>2. SubSeq(old, 1, i) \o SubSeq(old, i + 1, Len(old)) = SubSeq(old, 1, Len(old))
      BY <1>2, <3>1, ConcatAdjacentSubSeq
    <3>3. SubSeq(old, 1, Len(old)) = old
      BY <1>2, SubSeqFull
    <3> QED BY <3>2, <3>3
  <2>7. ASSUME left PROVE out \o rest = old
    BY <2>2, <2>3, <2>5, <2>6, <2>7
  <2>8. ASSUME ~left PROVE rest \o Reversed(out) = old
    <3> DEFINE m == Len(old) - n
    <3>1. m \in 0 .. Len(old)
      BY <1>2, <2>3
    <3>2. Reversed(got) = SubSeq(old, m + 1, Len(old))
      BY <1>2, <2>3, <2>8, ReversedTail
    <3>3. new = SubSeq(old, 1, m)
      BY <2>8
    <3> HIDE DEF m, new, got
    <3> QED BY <2>2, <2>5, <2>6, <3>1, <3>2, <3>3
  <2> QED BY <2>7, <2>8 DEF old, rest, out
<1>7. \/ o.db = d /\ o.reply.type \notin {"bulk", "array"}
      \/ old # << >> /\ ~bad /\ o = Outcome(w, rep)
  <2> HIDE DEF old, bad, w, rep
  <2>1. o = r \/ (o.db = d /\ o.reply.type = "error")
    <3> HIDE DEF r
    <3> QED BY <1>3, TypedSplit
  <2> QED BY <2>1 DEF Outcome, Fail, NilReply, ErrorReply
<1> QED BY <1>5, <1>6, <1>7

\* SPOP splits the set it finds into what it answers and what it leaves.
LEMMA SPopSplits ==
    ASSUME IsFiniteSet(Words), NEW d, Good(d), NEW t \in Nat, NEW c \in PopCommands,
           Calm(d, t, c.key), NEW o \in SPOP(d, t, c)
    PROVE  LET out  == IF o.reply.type = "bulk" THEN o.reply.str
                       ELSE IF o.reply.type = "array" THEN o.reply.seq ELSE << >>
               mem  == IF o.reply.type = "set" THEN o.reply.mem
                       ELSE {out[i] : i \in DOMAIN out}
               left == MembersOf(o.db, t, c.key)
           IN  /\ mem \cup left = MembersOf(d, t, c.key)
               /\ mem \cap left = {}
<1> DEFINE k     == c.key
           old   == MembersOf(d, t, k)
           count == IF c.count = << >> THEN 1 ELSE c.count[1]
           n     == IF count > Cardinality(old) THEN Cardinality(old)
                    ELSE IF count < 0 THEN 0 ELSE count
           out   == IF o.reply.type = "bulk" THEN o.reply.str
                    ELSE IF o.reply.type = "array" THEN o.reply.seq ELSE << >>
           mem   == IF o.reply.type = "set" THEN o.reply.mem
                    ELSE {out[i] : i \in DOMAIN out}
           left  == MembersOf(o.db, t, k)
           rep(g) == IF c.count # << >> THEN SetReply(g)
                     ELSE IF g = {} THEN NilReply ELSE BulkReply(<<CHOOSE m \in g : TRUE>>)
<1>1. k \in Keys /\ d \in Databases
  BY DEF PopCommands, Good
<1>2. old \in SUBSET Words /\ IsFiniteSet(old)
  <2>1. old \in SUBSET Words
    BY <1>1, ContentTypes
  <2> HIDE DEF old
  <2> QED BY <2>1, FS_Subset
<1>3. ASSUME o.reply.type \notin {"set", "bulk", "array"} PROVE mem = {}
  <2>1. out = << >> /\ DOMAIN << >> = {}
    BY <1>3
  <2> HIDE DEF out
  <2> QED BY <1>3, <2>1
<1>4. CASE ~Exists(d, t, k)
  <2>1. o = Outcome(d, IF c.count # << >> THEN SetReply({}) ELSE NilReply)
    BY <1>4 DEF SPOP
  <2>2. o.db = d /\ o.reply = IF c.count # << >> THEN SetReply({}) ELSE NilReply
    BY <2>1 DEF Outcome
  <2>3. old = {} /\ left = old
    BY <1>4, <2>2 DEF MembersOf, Holds
  <2>4. mem = {}
    <3>1. CASE c.count # << >>
      BY <2>2, <3>1 DEF SetReply
    <3>2. CASE c.count = << >>
      <4>1. o.reply.type = "nil"
        BY <2>2, <3>2 DEF NilReply
      <4> QED BY <1>3, <4>1
    <3> QED BY <3>1, <3>2
  <2> HIDE DEF mem, left, old
  <2>5. mem \cup left = old /\ mem \cap left = {}
    BY <2>3, <2>4
  <2> QED BY <2>5 DEF mem, left, old
<1>5. CASE Exists(d, t, k)
  <2>1. PICK gone \in SUBSET old :
          /\ Cardinality(gone) = n
          /\ o = Removed(d, t, c, gone, rep(gone))
    BY <1>5 DEF SPOP
  <2> DEFINE new == old \ gone
             w   == ReplaceOrDelete(d, t, k, SetOf(new), new = {})
  <2>2. o = Typed(d, t, k, "set", Outcome(w, rep(gone)))
    BY <2>1 DEF Removed
  <2>3. new \in SUBSET Words /\ IsFiniteSet(gone)
    <3> HIDE DEF old
    <3> QED BY <1>2, <2>1, FS_Subset
  <2>4. CASE o.db = d /\ o.reply.type = "error"
    <3>1. mem = {} /\ left = old
      BY <1>3, <2>4
    <3> HIDE DEF mem, left, old
    <3>2. mem \cup left = old /\ mem \cap left = {}
      BY <3>1
    <3> QED BY <3>2 DEF mem, left, old
  <2>5. CASE o = Outcome(w, rep(gone))
    <3>1. o.db = w /\ o.reply = rep(gone)
      BY <2>5 DEF Outcome
    <3>2. left = new
      <4> HIDE DEF new
      <4> QED BY <1>1, <2>3, <3>1, ReadBack
    <3>3. mem = gone
      <4>1. CASE c.count # << >>
        BY <3>1, <4>1 DEF SetReply
      <4>2. CASE c.count = << >> /\ gone = {}
        <5>1. o.reply.type = "nil"
          BY <3>1, <4>2 DEF NilReply
        <5> QED BY <1>3, <4>2, <5>1
      <4>3. CASE c.count = << >> /\ gone # {}
        <5>1. Cardinality(gone) = 1
          <6>1. n = IF 1 > Cardinality(old) THEN Cardinality(old) ELSE 1
            BY <4>3
          <6>2. Cardinality(old) \in Nat /\ Cardinality(gone) \in Nat /\ Cardinality(gone) # 0
            <7> HIDE DEF old
            <7> QED BY <1>2, <2>3, <4>3, FS_CardinalityType, FS_EmptySet
          <6> HIDE DEF old, n
          <6> QED BY <2>1, <6>1, <6>2
        <5>2. PICK x : gone = {x}
          BY <2>3, <5>1, FS_Singleton
        <5>3. (CHOOSE m \in gone : TRUE) = x
          BY <5>2
        <5>4. o.reply = BulkReply(<<x>>)
          BY <3>1, <4>3, <5>3
        <5>5. out = <<x>> /\ o.reply.type # "set"
          BY <5>4 DEF BulkReply
        <5> HIDE DEF out
        <5>6. {<<x>>[i] : i \in DOMAIN <<x>>} = {x}
          <6>1. DOMAIN <<x>> = {1} /\ <<x>>[1] = x
            OBVIOUS
          <6> QED BY <6>1
        <5> QED BY <5>2, <5>5, <5>6
      <4> QED BY <4>1, <4>2, <4>3
    <3> HIDE DEF mem, left, old
    <3>4. mem \cup left = old /\ mem \cap left = {}
      BY <2>1, <3>2, <3>3
    <3> QED BY <3>4 DEF mem, left, old
  <2>6. o = Outcome(w, rep(gone)) \/ (o.db = d /\ o.reply.type = "error")
    <3> DEFINE r == Outcome(w, rep(gone))
    <3> HIDE DEF r
    <3>1. o = r \/ (o.db = d /\ o.reply.type = "error")
      BY <2>2, TypedSplit DEF r
    <3> QED BY <3>1 DEF r
  <2> QED BY <2>4, <2>5, <2>6
<1> QED BY <1>4, <1>5

\* No pop loses or repeats an element, whatever the list, the set, the count and the
\* choice of members, as long as no key is in the last second of its life, where
\* the pop may end it together with what is left (PopsConserve).  A database has
\* room for finitely many strings only.
THEOREM PopsAlwaysConserve ==
    ASSUME IsFiniteSet(Words)
    PROVE  Spec => [](NoneEnding => PopsConserve)
<1>1. IInv /\ NoneEnding => PopsConserve
  <2> SUFFICES ASSUME IInv, NoneEnding, NEW c \in Requests,
                      NEW o \in applyCmdInTxn(db, now, c)
      PROVE  LET old  == ListOf(db, now, c.key)
                 rest == ListOf(o.db, now, c.key)
                 out  == IF o.reply.type = "bulk" THEN o.reply.str
                         ELSE IF o.reply.type = "array" THEN o.reply.seq ELSE << >>
                 mem  == IF o.reply.type = "set" THEN o.reply.mem
                         ELSE {out[i] : i \in DOMAIN out}
                 left == MembersOf(o.db, now, c.key)
             IN  /\ c.op = "LPOP" => out \o rest = old
                 /\ c.op = "RPOP" => rest \o Reversed(out) = old
                 /\ c.op = "SPOP" => /\ mem \cup left = MembersOf(db, now, c.key)
                                     /\ mem \cap left = {}
    BY DEF PopsConserve
  <2>1. Good(db) /\ now \in Nat
    BY DEF IInv, TypeOK, TagSound, NonEmptyCollections, Good
  <2>2. c.op \in {"LPOP", "RPOP", "SPOP"} => c \in PopCommands
    BY RequestsAssumption
    DEF CommandSpace, SetCommands, TextCommands, MSetCommands, DelCommands,
        FlushCommands, IncrCommands, ExpireCommands, PersistCommands, HSetCommands,
        AddCommands, RemoveCommands, PopCommands, LTrimCommands, LRemCommands
  <2>3. c.op \in {"LPOP", "RPOP", "SPOP"} => Calm(db, now, c.key)
    BY <2>2 DEF PopCommands, NoneEnding, Calm
  <2>4. CASE c.op \in {"LPOP", "RPOP"}
    <3>1. o = POP(db, now, c)
      BY <2>4 DEF applyCmdInTxn
    <3>2. c.op # "SPOP"
      BY <2>4
    <3> QED BY <2>1, <2>2, <2>3, <2>4, <3>1, <3>2, PopsSplit
  <2>5. CASE c.op = "SPOP"
    <3>1. o \in SPOP(db, now, c)
      BY <2>5 DEF applyCmdInTxn
    <3>2. c.op # "LPOP" /\ c.op # "RPOP"
      BY <2>5
    <3> QED BY <2>1, <2>2, <2>3, <2>5, <3>1, <3>2, SPopSplits
  <2> QED BY <2>4, <2>5
<1> QED BY <1>1, Invariant, PTL

(***************************************************************************)
(* Counts.                                                                 *)
(***************************************************************************)
\* DEL counts the keys it makes disappear, each of them once.
LEMMA DelCounts ==
    ASSUME IsFiniteSet(Keys), NEW d, NEW t, NEW c \in DelCommands
    PROVE  LET o == DEL(d, t, c)
           IN  o.reply.int = Cardinality(KeysOf(d, t, Keys)) - Cardinality(KeysOf(o.db, t, Keys))
<1> DEFINE gone  == {k \in Keys : (\E i \in DOMAIN c.keys : c.keys[i] = k) /\ Exists(d, t, k)}
           there == KeysOf(d, t, Keys)
           o     == DEL(d, t, c)
<1>1. o = Outcome(Delete(d, gone), IntReply(Cardinality(gone)))
  <2>1. c.key = None
    BY DEF DelCommands
  <2> QED BY <2>1 DEF DEL
<1>2. there \in SUBSET Keys /\ gone \in SUBSET there
  BY DEF KeysOf
<1>3. o.db = Delete(d, gone) /\ o.reply.int = Cardinality(gone)
  <2> HIDE DEF gone, o
  <2> QED BY <1>1 DEF Outcome, IntReply
<1> HIDE DEF gone
<1>4. \A k \in Keys : Delete(d, gone).K[k] = IF k \in gone THEN None ELSE d.K[k]
  BY DEF Delete
<1>5. KeysOf(o.db, t, Keys) = there \ gone
  BY <1>3, <1>4 DEF KeysOf, Exists, Live
<1> HIDE DEF there, o
<1>6. IsFiniteSet(there) /\ IsFiniteSet(gone)
  BY <1>2, FS_Subset
<1>7. there \cap gone = gone
  BY <1>2
<1>8. Cardinality(there \ gone) = Cardinality(there) - Cardinality(gone)
  BY <1>6, <1>7, FS_Difference
<1>9. Cardinality(there) \in Nat /\ Cardinality(gone) \in Nat
  BY <1>6, FS_CardinalityType
<1> QED BY <1>3, <1>5, <1>8, <1>9 DEF there, o

\* How many elements a set gains or loses.
LEMMA GainAndLoss ==
    ASSUME IsFiniteSet(Words), NEW A \in SUBSET Words, NEW B \in SUBSET Words
    PROVE  /\ Cardinality(B \ A) = Cardinality(A \cup B) - Cardinality(A)
           /\ B \subseteq A => Cardinality(B) = Cardinality(A) - Cardinality(A \ B)
<1>1. IsFiniteSet(A) /\ IsFiniteSet(B)
  BY FS_Subset
<1>2. IsFiniteSet(A \cap B) /\ IsFiniteSet(B \cap A)
  BY <1>1, FS_Intersection
<1>3. /\ Cardinality(A) \in Nat /\ Cardinality(B) \in Nat
      /\ Cardinality(A \cap B) \in Nat
  BY <1>1, <1>2, FS_CardinalityType
<1>4. Cardinality(A \cup B) = Cardinality(A) + Cardinality(B) - Cardinality(A \cap B)
  BY <1>1, FS_Union
<1>5. /\ Cardinality(B \ A) = Cardinality(B) - Cardinality(B \cap A)
      /\ Cardinality(A \ B) = Cardinality(A) - Cardinality(A \cap B)
  BY <1>1, FS_Difference
<1>6. A \cap B = B \cap A /\ (B \subseteq A => A \cap B = B)
  OBVIOUS
<1>7. Cardinality(B \ A) = Cardinality(A \cup B) - Cardinality(A)
  <2>1. Cardinality(B \cap A) = Cardinality(A \cap B)
    BY <1>6, Zenon
  <2> QED BY <1>3, <1>4, <1>5, <2>1
<1>8. ASSUME B \subseteq A PROVE Cardinality(B) = Cardinality(A) - Cardinality(A \ B)
  BY <1>3, <1>5, <1>6, <1>8
<1> QED BY <1>7, <1>8

\* HSET and HSETNX count the fields they add, HDEL those it takes away.
LEMMA HashCounts ==
    ASSUME IsFiniteSet(Words), NEW d, Good(d), NEW t \in Nat, NEW c, Calm(d, t, c.key), NEW o
    PROVE  LET hlen(e) == Cardinality(DOMAIN HashOf(e, t, c.key))
           IN  /\ c \in HSetCommands /\ o = HSET(d, t, c) /\ o.reply.type = "int"
                    => o.reply.int = hlen(o.db) - hlen(d)
               /\ c \in RemoveCommands /\ o = HDEL(d, t, c) /\ o.reply.type = "int"
                    => o.reply.int = hlen(d) - hlen(o.db)
<1> DEFINE k   == c.key
           old == HashOf(d, t, k)
           D   == DOMAIN old
<1>0. d \in Databases
  BY DEF Good
<1>1. ASSUME c \in HSetCommands, o = HSET(d, t, c), o.reply.type = "int"
      PROVE  o.reply.int = Cardinality(DOMAIN HashOf(o.db, t, k)) - Cardinality(D)
  <2> DEFINE N   == FieldsOf(c)
             new == HashAfter(d, t, c)
             r   == Outcome(Replace(d, t, k, Hash(new)), IntReply(Cardinality(N \ D)))
  <2>1. k \in Keys
    BY <1>1 DEF HSetCommands
  <2>2. D \cup N \in SUBSET Words /\ N \in SUBSET Words /\ new \in [D \cup N -> Words]
    BY <1>0, <1>1, HashAfterType
  <2>3. o = Typed(d, t, k, "hash", r)
    BY <1>1, HSETOutcome
  <2> HIDE DEF D, N, new
  <2>4. o = r
    <3> HIDE DEF r
    <3> QED BY <1>1, <2>3, TypedSplit
  <2>5. o.db = Replace(d, t, k, Hash(new)) /\ o.reply.int = Cardinality(N \ D)
    BY <2>4 DEF Outcome, IntReply
  <2>6. DOMAIN HashOf(o.db, t, k) = D \cup N
    BY <1>0, <2>1, <2>2, <2>5, ReadBack
  <2>7. D \in SUBSET Words
    BY <2>2
  <2> QED BY <2>2, <2>5, <2>6, <2>7, GainAndLoss
<1>2. ASSUME c \in RemoveCommands, o = HDEL(d, t, c), o.reply.type = "int"
      PROVE  o.reply.int = Cardinality(D) - Cardinality(DOMAIN HashOf(o.db, t, k))
  <2> DEFINE gone == {f \in DOMAIN old : \E i \in DOMAIN c.words : c.words[i] = f}
             new  == [f \in DOMAIN old \ gone |-> old[f]]
             w    == ReplaceOrDelete(d, t, k, Hash(new), DOMAIN new = {})
             r    == IF Exists(d, t, k) THEN Outcome(w, IntReply(Cardinality(gone)))
                     ELSE Outcome(d, IntReply(0))
  <2>1. k \in Keys
    BY <1>2 DEF RemoveCommands
  <2>2. o = Typed(d, t, k, "hash", r)
    BY <1>2 DEF HDEL
  <2>3. o = r
    <3> HIDE DEF r
    <3> QED BY <1>2, <2>2, TypedSplit
  <2>4. D \in SUBSET Words /\ old \in [D -> Words] /\ gone \subseteq D
    BY <1>0, <2>1, ContentTypes, HashDomain
  <2> HIDE DEF gone, old
  <2>5. new \in [D \ gone -> Words] /\ DOMAIN new = D \ gone /\ D \ gone \in SUBSET Words
    BY <2>4
  <2> HIDE DEF D, new
  <2>6. CASE Exists(d, t, k)
    <3>1. o.db = w /\ o.reply.int = Cardinality(gone)
      BY <2>3, <2>6 DEF Outcome, IntReply
    <3>2. DOMAIN HashOf(o.db, t, k) = D \ gone
      <4> DEFINE F == D \ gone
      <4>1. F \in SUBSET Words /\ new \in [F -> Words]
        BY <2>5
      <4> HIDE DEF F
      <4>2. \A h \in [F -> Words] :
              DOMAIN HashOf(ReplaceOrDelete(d, t, k, Hash(h), DOMAIN h = {}), t, k) = F
        BY <1>0, <2>1, <4>1, ReadBack
      <4>3. DOMAIN HashOf(w, t, k) = F
        BY <4>1, <4>2, Zenon
      <4> QED BY <3>1, <4>3 DEF F
    <3> QED BY <2>4, <3>1, <3>2, GainAndLoss
  <2>7. CASE ~Exists(d, t, k)
    <3>1. o.db = d /\ o.reply.int = 0
      BY <2>3, <2>7 DEF Outcome, IntReply
    <3>2. IsFiniteSet(D)
      BY <2>4, FS_Subset
    <3>3. Cardinality(D) \in Nat
      BY <3>2, FS_CardinalityType
    <3> QED BY <3>1, <3>3 DEF D, old
  <2> QED BY <2>6, <2>7
<1> QED BY <1>1, <1>2

\* The pushes answer the length of the list.
LEMMA PushCounts ==
    ASSUME NEW d, Good(d), NEW t \in Nat, NEW c \in AddCommands, Calm(d, t, c.key),
           NEW o, o = PUSH(d, t, c), o.reply.type = "int"
    PROVE  o.reply.int = Len(ListOf(o.db, t, c.key))
<1> DEFINE k   == c.key
           old == ListOf(d, t, k)
<1>0. d \in Databases
  BY DEF Good
<1> DEFINE new == IF c.op \in {"LPUSH", "LPUSHX"} THEN Reversed(c.words) \o old
                                                  ELSE old \o c.words
           x   == c.op \in {"LPUSHX", "RPUSHX"} /\ ~Exists(d, t, k)
           r   == IF x THEN Outcome(d, IntReply(0))
                  ELSE Outcome(Replace(d, t, k, List(new)), IntReply(Len(new)))
<1>1. k \in Keys /\ c.words \in Seq(Words)
  BY DEF AddCommands
<1>2. old \in Seq(Words)
  BY <1>0, <1>1, ContentTypes
<1>3. new \in Seq(Words)
  <2> HIDE DEF old
  <2>1. Reversed(c.words) \in Seq(Words)
    BY <1>1, ReversedType
  <2> QED BY <1>1, <1>2, <2>1
<1>4. o = Typed(d, t, k, "list", r)
  BY DEF PUSH
<1>5. o = r
  <2> HIDE DEF r
  <2> QED BY <1>4, TypedSplit
<1>6. CASE x
  <2>1. o.db = d /\ o.reply.int = 0
    BY <1>5, <1>6 DEF Outcome, IntReply
  <2>2. ListOf(d, t, k) = << >>
    BY <1>6 DEF ListOf, Holds
  <2>3. Len(<< >>) = 0
    BY EmptySeq
  <2> QED BY <2>1, <2>2, <2>3
<1> HIDE DEF new
<1>7. CASE ~x
  <2>1. o.db = Replace(d, t, k, List(new)) /\ o.reply.int = Len(new)
    BY <1>5, <1>7 DEF Outcome, IntReply
  <2> HIDE DEF r, x, old
  <2>2. ListOf(Replace(d, t, k, List(new)), t, k) = new
    BY <1>0, <1>1, <1>3, ReadBack
  <2> QED BY <2>1, <2>2
<1> QED BY <1>6, <1>7

\* LREM answers the number of elements it removes.
LEMMA LRemCounts ==
    ASSUME NEW d, Good(d), NEW t \in Nat, NEW c \in LRemCommands, Calm(d, t, c.key),
           NEW o, o = LREM(d, t, c), o.reply.type = "int"
    PROVE  o.reply.int = Len(ListOf(d, t, c.key)) - Len(ListOf(o.db, t, c.key))
<1> DEFINE k   == c.key
           old == ListOf(d, t, k)
<1>0. d \in Databases
  BY DEF Good
<1> DEFINE hits == {i \in DOMAIN old : old[i] = c.val}
           gone == {i \in hits :
             \/ c.limit = 0
             \/ c.limit > 0 /\ Cardinality({j \in hits : j < i}) < c.limit
             \/ c.limit < 0 /\ Cardinality({j \in hits : j > i}) < -c.limit}
           kept == DOMAIN old \ gone
           rank(i) == Cardinality({j \in kept : j <= i})
           new  == [n \in 1 .. Cardinality(kept) |->
                       old[CHOOSE i \in kept : rank(i) = n]]
           w    == ReplaceOrDelete(d, t, k, List(new), kept = {})
           r    == Outcome(w, IntReply(Cardinality(gone)))
<1>1. k \in Keys
  BY DEF LRemCommands
<1>2. old \in Seq(Words) /\ Len(old) \in Nat /\ DOMAIN old = 1 .. Len(old)
  BY <1>0, <1>1, ContentTypes, LenProperties
<1>3. o = Typed(d, t, k, "list", r)
  BY DEF LREM
<1>4. o = r
  <2> HIDE DEF r
  <2> QED BY <1>3, TypedSplit
<1>5. gone \subseteq DOMAIN old
  OBVIOUS
<1> HIDE DEF old, gone
<1>6. kept \in SUBSET (1 .. Len(old))
  BY <1>2
<1>7. Cardinality(kept) = Len(old) - Cardinality(gone) /\ Cardinality(gone) \in Nat
  <2> DEFINE I == 1 .. Len(old)
  <2>1. IsFiniteSet(I) /\ Cardinality(I) = Len(old)
    <3> DEFINE n == Len(old)
    <3>1. n \in Nat
      BY <1>2
    <3> HIDE DEF n
    <3>2. IsFiniteSet(1 .. n) /\ Cardinality(1 .. n) = IF 1 > n THEN 0 ELSE n - 1 + 1
      BY <3>1, FS_Interval
    <3>3. (IF 1 > n THEN 0 ELSE n - 1 + 1) = n
      BY <3>1
    <3> QED BY <3>2, <3>3 DEF n
  <2>2. gone \in SUBSET I /\ kept = I \ gone
    BY <1>2, <1>5
  <2> HIDE DEF I, kept
  <2>3. I \cap gone = gone /\ IsFiniteSet(gone)
    BY <2>1, <2>2, FS_Subset
  <2>4. Cardinality(I \ gone) = Cardinality(I) - Cardinality(I \cap gone)
    BY <2>1, FS_Difference
  <2>5. Cardinality(gone) \in Nat
    BY <2>3, FS_CardinalityType
  <2> QED BY <2>1, <2>2, <2>3, <2>4, <2>5
<1> HIDE DEF kept
<1>8. new \in Seq(Words) /\ Len(new) = Cardinality(kept) /\ (kept = {} <=> new = << >>)
  <2>1. new \in Seq(Words)
    BY <1>2, <1>6, KeptList
  <2>2. Len(new) = Cardinality(kept)
    BY <1>2, <1>6, KeptList
  <2>3. kept = {} <=> new = << >>
    <3>1. IsFiniteSet(kept) /\ Cardinality(kept) \in Nat
      BY <1>2, <1>6, KeptList
    <3> QED BY <2>1, <2>2, <3>1, FS_EmptySet, EmptySeq
  <2> QED BY <2>1, <2>2, <2>3
<1> HIDE DEF rank, new
<1>9. o.db = w /\ o.reply.int = Cardinality(gone)
  BY <1>4 DEF Outcome, IntReply
<1>10. ListOf(w, t, k) = new
  <2>1. /\ ListOf(Replace(d, t, k, List(new)), t, k) = new
        /\ ListOf(ReplaceOrDelete(d, t, k, List(new), new = << >>), t, k) = new
    BY <1>0, <1>1, <1>8, ReadBack
  <2> QED BY <1>8, <2>1 DEF ReplaceOrDelete
<1> HIDE DEF w
<1>11. Len(ListOf(o.db, t, k)) = Cardinality(kept)
  BY <1>8, <1>9, <1>10
<1> QED BY <1>2, <1>7, <1>9, <1>11 DEF old

\* SADD counts the members it adds, SREM those it takes away.
LEMMA SetCounts ==
    ASSUME IsFiniteSet(Words), NEW d, Good(d), NEW t \in Nat, NEW c, Calm(d, t, c.key), NEW o
    PROVE  LET card(e) == Cardinality(MembersOf(e, t, c.key))
           IN  /\ c \in AddCommands /\ o = SADD(d, t, c) /\ o.reply.type = "int"
                    => o.reply.int = card(o.db) - card(d)
               /\ c \in RemoveCommands /\ o = SREM(d, t, c) /\ o.reply.type = "int"
                    => o.reply.int = card(d) - card(o.db)
<1> DEFINE k   == c.key
           old == MembersOf(d, t, k)
<1>0. d \in Databases
  BY DEF Good
<1>1. ASSUME c \in AddCommands, o = SADD(d, t, c), o.reply.type = "int"
      PROVE  o.reply.int = Cardinality(MembersOf(o.db, t, k)) - Cardinality(old)
  <2> DEFINE args == {c.words[i] : i \in DOMAIN c.words}
             new  == old \cup args
             r    == Outcome(Replace(d, t, k, SetOf(new)), IntReply(Cardinality(args \ old)))
  <2>1. k \in Keys /\ args \in SUBSET Words
    BY <1>1 DEF AddCommands
  <2>2. old \in SUBSET Words
    BY <1>0, <2>1, ContentTypes
  <2>3. o = Typed(d, t, k, "set", r)
    BY <1>1 DEF SADD
  <2> HIDE DEF args, old
  <2>4. o = r
    <3> HIDE DEF r
    <3> QED BY <1>1, <2>3, TypedSplit
  <2>5. new \in SUBSET Words
    BY <2>1, <2>2
  <2>6. Cardinality(args \ old) = Cardinality(new) - Cardinality(old)
    BY <2>1, <2>2, GainAndLoss
  <2> HIDE DEF new
  <2>7. o.db = Replace(d, t, k, SetOf(new)) /\ o.reply.int = Cardinality(args \ old)
    BY <2>4 DEF Outcome, IntReply
  <2>8. MembersOf(o.db, t, k) = new
    BY <1>0, <2>1, <2>5, <2>7, ReadBack
  <2> QED BY <2>6, <2>7, <2>8
<1>2. ASSUME c \in RemoveCommands, o = SREM(d, t, c), o.reply.type = "int"
      PROVE  o.reply.int = Cardinality(old) - Cardinality(MembersOf(o.db, t, k))
  <2> DEFINE gone == {m \in old : \E i \in DOMAIN c.words : c.words[i] = m}
             new  == old \ gone
             w    == ReplaceOrDelete(d, t, k, SetOf(new), new = {})
             r    == Outcome(w, IntReply(Cardinality(gone)))
  <2>1. k \in Keys
    BY <1>2 DEF RemoveCommands
  <2>2. old \in SUBSET Words /\ gone \subseteq old
    BY <1>0, <2>1, ContentTypes
  <2>3. CASE ~Exists(d, t, k)
    <3>1. o = Outcome(d, IntReply(0))
      BY <1>2, <2>3 DEF SREM
    <3>2. o.db = d /\ o.reply.int = 0
      BY <3>1 DEF Outcome, IntReply
    <3> HIDE DEF old, gone
    <3>3. IsFiniteSet(old)
      BY <2>2, FS_Subset
    <3>4. Cardinality(old) \in Nat
      BY <3>3, FS_CardinalityType
    <3> QED BY <3>2, <3>4 DEF old
  <2>4. CASE Exists(d, t, k)
    <3>1. o = Typed(d, t, k, "set", r)
      BY <1>2, <2>4 DEF SREM, Removed
    <3> HIDE DEF old, gone
    <3>2. o = r
      <4> HIDE DEF r
      <4> QED BY <1>2, <3>1, TypedSplit
    <3>3. new \in SUBSET Words
      BY <2>2
    <3>4. Cardinality(gone) = Cardinality(old) - Cardinality(new)
      BY <2>2, GainAndLoss
    <3> HIDE DEF new
    <3>5. o.db = w /\ o.reply.int = Cardinality(gone)
      BY <3>2 DEF Outcome, IntReply
    <3>6. MembersOf(o.db, t, k) = new
      BY <1>0, <2>1, <3>3, <3>5, ReadBack
    <3> QED BY <3>4, <3>5, <3>6
  <2> QED BY <2>3, <2>4
<1> QED BY <1>1, <1>2

\* The counts that commands reply are the changes the readers see, whatever the
\* arguments, as long as no key is in the last second of its life
\* (CountsAreTruthful).
THEOREM CountsAreAlwaysTruthful ==
    ASSUME IsFiniteSet(Keys), IsFiniteSet(Words)
    PROVE  Spec => [](NoneEnding => CountsAreTruthful)
<1>1. IInv /\ NoneEnding => CountsAreTruthful
  <2> DEFINE hlen(d, k) == Cardinality(DOMAIN HashOf(d, now, k))
             llen(d, k) == Len(ListOf(d, now, k))
             card(d, k) == Cardinality(MembersOf(d, now, k))
             keys(d)    == Cardinality(KeysOf(d, now, Keys))
  <2> SUFFICES ASSUME IInv, NoneEnding, NEW c \in Requests,
                      NEW o \in applyCmdInTxn(db, now, c), o.reply.type = "int"
      PROVE  LET n == o.reply.int
             IN  /\ c.op = "DEL" => n = keys(db) - keys(o.db)
                 /\ c.op \in {"HSET", "HSETNX"} =>
                       n = hlen(o.db, c.key) - hlen(db, c.key)
                 /\ c.op = "HDEL" => n = hlen(db, c.key) - hlen(o.db, c.key)
                 /\ c.op \in {"LPUSH", "RPUSH", "LPUSHX", "RPUSHX"} =>
                       n = llen(o.db, c.key)
                 /\ c.op = "LREM" => n = llen(db, c.key) - llen(o.db, c.key)
                 /\ c.op = "SADD" => n = card(o.db, c.key) - card(db, c.key)
                 /\ c.op = "SREM" => n = card(db, c.key) - card(o.db, c.key)
    BY DEF CountsAreTruthful
  <2>1. Good(db) /\ now \in Nat /\ c \in CommandSpace
    BY RequestsAssumption DEF IInv, TypeOK, TagSound, NonEmptyCollections, Good
  <2>2. /\ c.op = "DEL" => c \in DelCommands
        /\ c.op \in {"HSET", "HSETNX"} => c \in HSetCommands
        /\ c.op \in {"HDEL", "SREM"} => c \in RemoveCommands
        /\ c.op \in {"LPUSH", "RPUSH", "LPUSHX", "RPUSHX", "SADD"} => c \in AddCommands
        /\ c.op = "LREM" => c \in LRemCommands
    BY <2>1
    DEF CommandSpace, SetCommands, TextCommands, MSetCommands, DelCommands,
        FlushCommands, IncrCommands, ExpireCommands, PersistCommands, HSetCommands,
        AddCommands, RemoveCommands, PopCommands, LTrimCommands, LRemCommands
  <2>3. c \in HSetCommands \cup RemoveCommands \cup AddCommands \cup LRemCommands
          => Calm(db, now, c.key)
    BY DEF HSetCommands, RemoveCommands, AddCommands, LRemCommands, NoneEnding, Calm
  <2>4. /\ c.op = "DEL" => o = DEL(db, now, c)
        /\ c.op \in {"HSET", "HSETNX"} => o = HSET(db, now, c)
        /\ c.op = "HDEL" => o = HDEL(db, now, c)
        /\ c.op \in {"LPUSH", "RPUSH", "LPUSHX", "RPUSHX"} => o = PUSH(db, now, c)
        /\ c.op = "LREM" => o = LREM(db, now, c)
        /\ c.op = "SADD" => o = SADD(db, now, c)
        /\ c.op = "SREM" => o = SREM(db, now, c)
    BY DEF applyCmdInTxn
  <2>5. ASSUME c.op = "DEL" PROVE o.reply.int = keys(db) - keys(o.db)
    BY <2>2, <2>4, <2>5, DelCounts
  <2>6. ASSUME c.op \in {"HSET", "HSETNX"}
        PROVE  o.reply.int = hlen(o.db, c.key) - hlen(db, c.key)
    BY <2>1, <2>2, <2>3, <2>4, <2>6, HashCounts
  <2>7. ASSUME c.op = "HDEL" PROVE o.reply.int = hlen(db, c.key) - hlen(o.db, c.key)
    BY <2>1, <2>2, <2>3, <2>4, <2>7, HashCounts
  <2>8. ASSUME c.op \in {"LPUSH", "RPUSH", "LPUSHX", "RPUSHX"}
        PROVE  o.reply.int = llen(o.db, c.key)
    BY <2>1, <2>2, <2>3, <2>4, <2>8, PushCounts
  <2>9. ASSUME c.op = "LREM" PROVE o.reply.int = llen(db, c.key) - llen(o.db, c.key)
    <3>1. c \in LRemCommands /\ o = LREM(db, now, c) /\ Calm(db, now, c.key)
      BY <2>2, <2>3, <2>4, <2>9
    <3> QED BY <2>1, <3>1, LRemCounts
  <2>10. ASSUME c.op = "SADD" PROVE o.reply.int = card(o.db, c.key) - card(db, c.key)
    BY <2>1, <2>2, <2>3, <2>4, <2>10, SetCounts
  <2>11. ASSUME c.op = "SREM" PROVE o.reply.int = card(db, c.key) - card(o.db, c.key)
    BY <2>1, <2>2, <2>3, <2>4, <2>11, SetCounts
  <2> QED BY <2>5, <2>6, <2>7, <2>8, <2>9, <2>10, <2>11
<1> QED BY <1>1, Invariant, PTL
(***************************************************************************)
(* What Badger still stores and no client can see, an expired entry or a   *)
(* type entry that outlives its value, changes no reply and no later state *)
(* (GhostsAreInvisible).  Two databases that differ in such ghosts only    *)
(* are twins; every command takes twins to twins and answers them alike.   *)
(***************************************************************************)
\* Twins agree on the live keys, on their value entries, and on whether these have
\* a live type entry and which.
Twin(d, e, t) == \A k \in Keys :
    /\ Exists(d, t, k) <=> Exists(e, t, k)
    /\ Exists(d, t, k) => /\ d.K[k] = e.K[k]
                          /\ Live(d.T[k], t) <=> Live(e.T[k], t)
                          /\ Live(d.T[k], t) => d.T[k] = e.T[k]

\* Outcomes that no client can tell apart.
Alike(o, p, t) == o.reply = p.reply /\ Twin(o.db, p.db, t)

\* Swept only takes ghosts away.
LEMMA SweptTwin ==
    ASSUME NEW d \in Databases
    PROVE  Twin(d, Swept(d), now) /\ Swept(d) \in Databases
<1> DEFINE nK == [k \in Keys |-> IF Live(d.K[k], now) THEN d.K[k] ELSE None]
           nT == [k \in Keys |-> IF Live(d.K[k], now) /\ Live(d.T[k], now)
                                 THEN d.T[k] ELSE None]
<1>1. /\ nK \in [Keys -> ValueEntries \cup {None}]
      /\ nT \in [Keys -> TypeEntries \cup {None}]
  BY DatabaseFields
<1>2. Swept(d) = [K |-> nK, T |-> nT]
  BY DEF Swept
<1>3. \A k \in Keys : /\ nK[k] = IF Live(d.K[k], now) THEN d.K[k] ELSE None
                      /\ nT[k] = IF Live(d.K[k], now) /\ Live(d.T[k], now)
                                 THEN d.T[k] ELSE None
  OBVIOUS
<1> HIDE DEF nK, nT
<1>4. Swept(d) \in Databases /\ Swept(d).K = nK /\ Swept(d).T = nT
  BY <1>1, <1>2, MakeDatabase
<1>5. Twin(d, Swept(d), now)
  BY <1>3, <1>4 DEF Twin, Exists, Live
<1> QED BY <1>4, <1>5

\* Twins look the same to a client.
LEMMA TwinSwept ==
    ASSUME NEW d, NEW e, Twin(d, e, now)
    PROVE  Swept(d) = Swept(e)
<1>1. ASSUME NEW k \in Keys
      PROVE  /\ (IF Live(d.K[k], now) THEN d.K[k] ELSE None)
                 = (IF Live(e.K[k], now) THEN e.K[k] ELSE None)
             /\ (IF Live(d.K[k], now) /\ Live(d.T[k], now) THEN d.T[k] ELSE None)
                 = (IF Live(e.K[k], now) /\ Live(e.T[k], now) THEN e.T[k] ELSE None)
  BY DEF Twin, Exists
<1> QED BY <1>1 DEF Swept

\* Being twins is symmetric.
LEMMA TwinSymmetric ==
    ASSUME NEW d, NEW e, NEW t, Twin(d, e, t)
    PROVE  Twin(e, d, t)
BY DEF Twin

(***************************************************************************)
(* The helpers.                                                            *)
(***************************************************************************)
\* A command reads the same from twins.
LEMMA TwinView ==
    ASSUME NEW d, NEW e, NEW t, Twin(d, e, t), NEW k \in Keys
    PROVE  /\ Exists(d, t, k) <=> Exists(e, t, k)
           /\ Exists(d, t, k) => /\ d.K[k] = e.K[k]
                                 /\ getExistingType(d, t, k) = getExistingType(e, t, k)
           /\ StringOf(d, t, k) = StringOf(e, t, k)
           /\ HashOf(d, t, k) = HashOf(e, t, k)
           /\ ListOf(d, t, k) = ListOf(e, t, k)
           /\ MembersOf(d, t, k) = MembersOf(e, t, k)
           /\ OldReply(d, t, k) = OldReply(e, t, k)
           /\ oldTTLMs(d, t, k) = oldTTLMs(e, t, k)
<1>1. /\ Exists(d, t, k) <=> Exists(e, t, k)
      /\ Exists(d, t, k) => d.K[k] = e.K[k]
  BY DEF Twin
<1>2. Exists(d, t, k) => getExistingType(d, t, k) = getExistingType(e, t, k)
  BY DEF Twin, getExistingType
<1>3. StringOf(d, t, k) = StringOf(e, t, k)
  BY <1>1 DEF StringOf
<1>4. /\ HashOf(d, t, k) = HashOf(e, t, k)
      /\ ListOf(d, t, k) = ListOf(e, t, k)
      /\ MembersOf(d, t, k) = MembersOf(e, t, k)
  BY <1>1 DEF HashOf, ListOf, MembersOf, Holds
<1>5. OldReply(d, t, k) = OldReply(e, t, k)
  BY <1>1, <1>3 DEF OldReply
<1>6. oldTTLMs(d, t, k) = oldTTLMs(e, t, k)
  BY <1>1 DEF oldTTLMs
<1> QED BY <1>1, <1>2, <1>3, <1>4, <1>5, <1>6

\* Storing the same value leaves twins.
LEMMA TwinSetValue ==
    ASSUME NEW d \in Databases, NEW e \in Databases, NEW t, Twin(d, e, t),
           NEW k \in Keys, NEW v, NEW typ, NEW ttl
    PROVE  Twin(setValue(d, t, k, v, typ, ttl), setValue(e, t, k, v, typ, ttl), t)
<1> DEFINE exp == IF ttl > 0 THEN WithTTL(t, ttl) ELSE 0
           m   == setValue(d, t, k, v, typ, ttl)
           n   == setValue(e, t, k, v, typ, ttl)
<1>1. /\ m.K[k] = [val |-> v, exp |-> exp] /\ m.T[k] = [val |-> typ, exp |-> exp]
      /\ \A j \in Keys : j # k => m.K[j] = d.K[j] /\ m.T[j] = d.T[j]
  BY SetValueFields
<1>2. /\ n.K[k] = [val |-> v, exp |-> exp] /\ n.T[k] = [val |-> typ, exp |-> exp]
      /\ \A j \in Keys : j # k => n.K[j] = e.K[j] /\ n.T[j] = e.T[j]
  BY SetValueFields
<1> HIDE DEF exp, m, n
<1>3. Twin(m, n, t)
  BY <1>1, <1>2 DEF Twin, Exists
<1> QED BY <1>3 DEF m, n

\* So does deleting the same keys.
LEMMA TwinDelete ==
    ASSUME NEW d, NEW e, NEW t, Twin(d, e, t), NEW ks
    PROVE  Twin(Delete(d, ks), Delete(e, ks), t)
<1> DEFINE m == Delete(d, ks)
           n == Delete(e, ks)
<1>1. \A k \in Keys : /\ m.K[k] = IF k \in ks THEN None ELSE d.K[k]
                      /\ m.T[k] = IF k \in ks THEN None ELSE d.T[k]
  BY DEF Delete
<1>2. \A k \in Keys : /\ n.K[k] = IF k \in ks THEN None ELSE e.K[k]
                      /\ n.T[k] = IF k \in ks THEN None ELSE e.T[k]
  BY DEF Delete
<1> HIDE DEF m, n
<1>3. Twin(m, n, t)
  BY <1>1, <1>2 DEF Twin, Exists, Live
<1> QED BY <1>3 DEF m, n

\* And so do the two ways of writing a value back.
LEMMA TwinReplace ==
    ASSUME NEW d \in Databases, NEW e \in Databases, NEW t, Twin(d, e, t),
           NEW k \in Keys, NEW v, NEW empty
    PROVE  /\ Twin(Replace(d, t, k, v), Replace(e, t, k, v), t)
           /\ Twin(ReplaceOrDelete(d, t, k, v, empty), ReplaceOrDelete(e, t, k, v, empty), t)
<1> DEFINE typ == v.kind
           ttl == oldTTLMs(d, t, k)
<1>1. Replace(d, t, k, v) = setValue(d, t, k, v, typ, ttl)
  BY DEF Replace
<1>2. Replace(e, t, k, v) = setValue(e, t, k, v, typ, ttl)
  BY TwinView DEF Replace
<1> HIDE DEF typ, ttl
<1>3. Twin(Replace(d, t, k, v), Replace(e, t, k, v), t)
  BY <1>1, <1>2, TwinSetValue
<1>4. Twin(Delete(d, {k}), Delete(e, {k}), t)
  BY TwinDelete
<1> QED BY <1>3, <1>4 DEF ReplaceOrDelete

\* The type check treats twins alike.
LEMMA TwinTyped ==
    ASSUME NEW d, NEW e, NEW t, Twin(d, e, t), NEW k \in Keys, NEW want,
           NEW o, NEW p, Alike(o, p, t)
    PROVE  Alike(Typed(d, t, k, want, o), Typed(e, t, k, want, p), t)
<1>1. WrongType(d, t, k, want) <=> WrongType(e, t, k, want)
  BY TwinView DEF WrongType, ensureExistingType
<1>2. DecodeFails(d, t, k, want) <=> DecodeFails(e, t, k, want)
  BY TwinView DEF DecodeFails
<1>3. \A x : Alike(Fail(d, x), Fail(e, x), t)
  BY DEF Alike, Fail, Outcome
<1> QED BY <1>1, <1>2, <1>3 DEF Typed

\* Outcomes made of twins and one reply are alike.
LEMMA AlikeOutcome ==
    ASSUME NEW d, NEW e, NEW t, Twin(d, e, t), NEW r
    PROVE  Alike(Outcome(d, r), Outcome(e, r), t) /\ \A x : Alike(Fail(d, x), Fail(e, x), t)
BY DEF Alike, Outcome, Fail

(***************************************************************************)
(* The commands.                                                           *)
(***************************************************************************)
\* SET and GETSET.
LEMMA TwinSet ==
    ASSUME NEW d \in Databases, NEW e \in Databases, NEW t, Twin(d, e, t),
           NEW c, c.key \in Keys
    PROVE  Alike(SET(d, t, c), SET(e, t, c), t) /\ Alike(GETSET(d, t, c), GETSET(e, t, c), t)
<1> DEFINE k      == c.key
           v      == Str(c.val)
           old(x) == OldReply(x, t, k)
<1>0. k \in Keys
  OBVIOUS
<1>1. Alike(SET(d, t, c), SET(e, t, c), t)
  <2> DEFINE set(x) == setKey(c, Exists(x, t, k))
             ttl    == c.ttl
             rep(x) == IF c.get THEN old(x) ELSE IF set(x) THEN OKReply ELSE NilReply
             new(x) == IF set(x) THEN setValue(x, t, k, v, "string", ttl) ELSE x
             o(x)   == Outcome(new(x), rep(x))
  <2>1. \A x : SET(x, t, c) = Typed(x, t, k, "string", o(x))
    BY DEF SET
  <2>2. (set(d) <=> set(e)) /\ old(d) = old(e)
    BY <1>0, TwinView DEF setKey
  <2>3. rep(d) = rep(e)
    BY <2>2
  <2> HIDE DEF k, v, ttl
  <2>4. Twin(setValue(d, t, k, v, "string", ttl), setValue(e, t, k, v, "string", ttl), t)
    BY <1>0, TwinSetValue
  <2> HIDE DEF set, old
  <2>5. Twin(new(d), new(e), t)
    BY <2>2, <2>4
  <2> HIDE DEF new, rep
  <2>6. Alike(o(d), o(e), t)
    BY <2>3, <2>5, AlikeOutcome
  <2> HIDE DEF o
  <2> QED BY <1>0, <2>1, <2>6, TwinTyped
<1>2. Alike(GETSET(d, t, c), GETSET(e, t, c), t)
  <2> DEFINE o(x) == Outcome(setValue(x, t, k, v, "string", 0), old(x))
  <2>1. \A x : GETSET(x, t, c) = Typed(x, t, k, "string", o(x))
    BY DEF GETSET
  <2>2. old(d) = old(e)
    BY <1>0, TwinView
  <2> HIDE DEF k, v, old
  <2>3. Twin(setValue(d, t, k, v, "string", 0), setValue(e, t, k, v, "string", 0), t)
    BY <1>0, TwinSetValue
  <2>4. Alike(o(d), o(e), t)
    BY <2>2, <2>3, AlikeOutcome
  <2> HIDE DEF o
  <2> QED BY <1>0, <2>1, <2>4, TwinTyped
<1> QED BY <1>1, <1>2

\* APPEND and the commands that count.
LEMMA TwinStrings ==
    ASSUME NEW d \in Databases, NEW e \in Databases, NEW t, Twin(d, e, t),
           NEW c, c.key \in Keys
    PROVE  Alike(APPEND(d, t, c), APPEND(e, t, c), t) /\ Alike(INCR(d, t, c), INCR(e, t, c), t)
<1> DEFINE k == c.key
<1>0. k \in Keys
  OBVIOUS
<1>1. Alike(APPEND(d, t, c), APPEND(e, t, c), t)
  <2> DEFINE new(x) == StringOf(x, t, k) \o c.val
             o(x, n) == Outcome(Replace(x, t, k, Str(n)), IntReply(Len(n)))
  <2>1. \A x : APPEND(x, t, c) = Typed(x, t, k, "string", o(x, new(x)))
    BY DEF APPEND
  <2>2. new(d) = new(e)
    <3>1. StringOf(d, t, k) = StringOf(e, t, k)
      BY <1>0, TwinView
    <3> QED BY <3>1, Zenon
  <2> HIDE DEF k, new
  <2>3. ASSUME NEW n PROVE Alike(o(d, n), o(e, n), t)
    <3>1. Twin(Replace(d, t, k, Str(n)), Replace(e, t, k, Str(n)), t)
      BY <1>0, TwinReplace
    <3> QED BY <3>1, AlikeOutcome
  <2> HIDE DEF o
  <2> QED BY <1>0, <2>1, <2>2, <2>3, TwinTyped
<1>2. Alike(INCR(d, t, c), INCR(e, t, c), t)
  <2> DEFINE old(x) == IF Exists(x, t, k) THEN StringOf(x, t, k) ELSE <<0>>
             new(s) == Wrap64(IF c.op \in {"INCR", "INCRBY"} THEN s[1] + c.by[1]
                                                             ELSE s[1] - c.by[1])
             ok(s) == IsInteger(s) /\ IsInteger(c.by)
             o(x, s) == IF ok(s)
                        THEN Outcome(Replace(x, t, k, Str(<<new(s)>>)), IntReply(new(s)))
                        ELSE Fail(x, "NOTINTEGER")
  <2>1. \A x : INCR(x, t, c) = Typed(x, t, k, "string", o(x, old(x)))
    BY DEF INCR
  <2>2. old(d) = old(e)
    BY <1>0, TwinView
  <2> HIDE DEF k, new, old, ok
  <2>3. ASSUME NEW s PROVE Alike(o(d, s), o(e, s), t)
    <3> DEFINE v == Str(<<new(s)>>)
    <3>1. Twin(Replace(d, t, k, v), Replace(e, t, k, v), t)
      BY <1>0, TwinReplace
    <3> HIDE DEF v
    <3>2. /\ Alike(Outcome(Replace(d, t, k, v), IntReply(new(s))),
                   Outcome(Replace(e, t, k, v), IntReply(new(s))), t)
          /\ Alike(Fail(d, "NOTINTEGER"), Fail(e, "NOTINTEGER"), t)
      BY <3>1, AlikeOutcome
    <3> QED BY <3>2 DEF v
  <2> HIDE DEF o
  <2> QED BY <1>0, <2>1, <2>2, <2>3, TwinTyped
<1> QED BY <1>1, <1>2

\* MSET, DEL and FLUSHDB.
LEMMA TwinKeys ==
    ASSUME NEW d \in Databases, NEW e \in Databases, NEW t, Twin(d, e, t), NEW c
    PROVE  /\ Alike(MSET(d, t, c), MSET(e, t, c), t)
           /\ c.key = None => Alike(DEL(d, t, c), DEL(e, t, c), t)
           /\ Alike(FLUSHDB(d, t, c), FLUSHDB(e, t, c), t)
<1>1. Alike(MSET(d, t, c), MSET(e, t, c), t)
  <2> DEFINE at(k)  == {i \in DOMAIN c.pairs : c.pairs[i][1] = k}
             val(k) == c.pairs[CHOOSE i \in at(k) : \A j \in at(k) : j <= i][2]
             n(x)   == [K |-> [k \in Keys |-> IF at(k) = {} THEN x.K[k]
                                              ELSE [val |-> Str(val(k)), exp |-> 0]],
                        T |-> [k \in Keys |-> IF at(k) = {} THEN x.T[k]
                                              ELSE [val |-> "string", exp |-> 0]]]
  <2>1. \A x : MSET(x, t, c) = Outcome(n(x), OKReply)
    BY DEF MSET
  <2> HIDE DEF at, val
  <2>2. ASSUME NEW x, NEW k \in Keys
        PROVE  /\ n(x).K[k] = IF at(k) = {} THEN x.K[k] ELSE [val |-> Str(val(k)), exp |-> 0]
               /\ n(x).T[k] = IF at(k) = {} THEN x.T[k] ELSE [val |-> "string", exp |-> 0]
    OBVIOUS
  <2> HIDE DEF n
  <2>3. Twin(n(d), n(e), t)
    BY <2>2 DEF Twin, Exists
  <2> QED BY <2>1, <2>3, AlikeOutcome
<1>2. ASSUME c.key = None PROVE Alike(DEL(d, t, c), DEL(e, t, c), t)
  <2> DEFINE gone(x) == {k \in Keys : (\E i \in DOMAIN c.keys : c.keys[i] = k)
                                      /\ Exists(x, t, k)}
             o(x, g) == Outcome(Delete(x, g), IntReply(Cardinality(g)))
  <2>1. \A x : DEL(x, t, c) = o(x, gone(x))
    BY <1>2 DEF DEL
  <2>2. gone(d) = gone(e)
    BY TwinView
  <2> HIDE DEF gone
  <2>3. ASSUME NEW g PROVE Alike(o(d, g), o(e, g), t)
    BY TwinDelete, AlikeOutcome
  <2> HIDE DEF o
  <2> QED BY <2>1, <2>2, <2>3
<1>3. Alike(FLUSHDB(d, t, c), FLUSHDB(e, t, c), t)
  <2> DEFINE n(x) == [K |-> [k \in Keys |-> IF Live(x.K[k], t) THEN None ELSE x.K[k]],
                      T |-> [k \in Keys |-> IF Live(x.T[k], t) THEN None ELSE x.T[k]]]
  <2>1. \A x : FLUSHDB(x, t, c) = Outcome(n(x), OKReply)
    BY DEF FLUSHDB
  <2>2. ASSUME NEW x, NEW k \in Keys
        PROVE  n(x).K[k] = IF Live(x.K[k], t) THEN None ELSE x.K[k]
    OBVIOUS
  <2> HIDE DEF n
  <2>3. ASSUME NEW x, NEW k \in Keys PROVE ~Exists(n(x), t, k)
    BY <2>2 DEF Exists, Live
  <2>4. Twin(n(d), n(e), t)
    BY <2>3 DEF Twin
  <2> QED BY <2>1, <2>4, AlikeOutcome
<1> QED BY <1>1, <1>2, <1>3

\* EXPIRE and PERSIST.
LEMMA TwinLifetimes ==
    ASSUME NEW d \in Databases, NEW e \in Databases, NEW t, Twin(d, e, t),
           NEW c, c.key \in Keys
    PROVE  /\ Alike(EXPIRE(d, t, c), EXPIRE(e, t, c), t)
           /\ Alike(PERSIST(d, t, c), PERSIST(e, t, c), t)
<1> DEFINE k == c.key
<1>0. k \in Keys
  OBVIOUS
<1>1. Exists(d, t, k) <=> Exists(e, t, k)
  BY <1>0, TwinView
<1>2. ASSUME Exists(d, t, k)
      PROVE  d.K[k] = e.K[k] /\ getExistingType(d, t, k) = getExistingType(e, t, k)
  BY <1>0, <1>2, TwinView
<1>3. Alike(EXPIRE(d, t, c), EXPIRE(e, t, c), t)
  <2> DEFINE new(x) == [val |-> x.K[k].val, exp |-> WithTTL(t, c.ttl)]
             n(x)   == [x EXCEPT !.K = [@ EXCEPT ![k] = new(x)]]
  <2>1. \A x : EXPIRE(x, t, c) = IF Exists(x, t, k) THEN Outcome(n(x), IntReply(1))
                                 ELSE Outcome(x, IntReply(0))
    BY DEF EXPIRE
  <2>2. CASE Exists(d, t, k)
    <3>1. new(d) = new(e)
      BY <1>2, <2>2
    <3> HIDE DEF new, k
    <3>2. ASSUME NEW x \in Databases, NEW j \in Keys
          PROVE  n(x).K[j] = (IF j = k THEN new(x) ELSE x.K[j]) /\ n(x).T = x.T
      <4>1. n(x).K = [x.K EXCEPT ![k] = new(x)] /\ n(x).T = x.T /\ DOMAIN x.K = Keys
        BY DEF Databases
      <4> QED BY <4>1
    <3> HIDE DEF n
    <3>3. Twin(n(d), n(e), t)
      BY <1>0, <2>2, <3>1, <3>2 DEF Twin, Exists
    <3> QED BY <1>1, <2>1, <2>2, <3>3, AlikeOutcome
  <2>3. CASE ~Exists(d, t, k)
    BY <1>1, <2>1, <2>3, AlikeOutcome
  <2> QED BY <2>2, <2>3
<1>4. Alike(PERSIST(d, t, c), PERSIST(e, t, c), t)
  <2> DEFINE w(x) == setValue(x, t, k, x.K[k].val, getExistingType(x, t, k), 0)
             b(x) == Exists(x, t, k) /\ x.K[k].exp # 0
  <2>1. \A x : PERSIST(x, t, c) = IF b(x) THEN Outcome(w(x), IntReply(1))
                                  ELSE Outcome(x, IntReply(0))
    BY DEF PERSIST
  <2>2. b(d) <=> b(e)
    BY <1>1, <1>2
  <2>3. ASSUME b(d) PROVE Twin(w(d), w(e), t)
    <3> DEFINE v   == d.K[k].val
               typ == getExistingType(d, t, k)
    <3>1. w(e) = setValue(e, t, k, v, typ, 0)
      BY <1>2, <2>3
    <3>2. w(d) = setValue(d, t, k, v, typ, 0)
      OBVIOUS
    <3> HIDE DEF k, v, typ
    <3> QED BY <1>0, <3>1, <3>2, TwinSetValue
  <2> HIDE DEF w, b
  <2> QED BY <2>1, <2>2, <2>3, AlikeOutcome
<1> QED BY <1>3, <1>4

\* The commands on hashes.
LEMMA TwinHashes ==
    ASSUME NEW d \in Databases, NEW e \in Databases, NEW t, Twin(d, e, t),
           NEW c, c.key \in Keys
    PROVE  Alike(HSET(d, t, c), HSET(e, t, c), t) /\ Alike(HDEL(d, t, c), HDEL(e, t, c), t)
<1> DEFINE k == c.key
<1>0. /\ k \in Keys /\ HashOf(d, t, k) = HashOf(e, t, k)
      /\ Exists(d, t, k) <=> Exists(e, t, k)
  BY TwinView
<1>1. Alike(HSET(d, t, c), HSET(e, t, c), t)
  <2> DEFINE at(f)  == {i \in DOMAIN c.pairs : c.pairs[i][1] = f}
             fields == {f \in Words : at(f) # {}}
             nx     == c.op = "HSETNX"
             val(f) == c.pairs[CHOOSE i \in at(f) :
                                 \A j \in at(f) : IF nx THEN i <= j ELSE j <= i][2]
             new(old) == [f \in DOMAIN old \cup fields |->
                             IF f \notin fields \/ (nx /\ f \in DOMAIN old)
                             THEN old[f] ELSE val(f)]
             count(old) == Cardinality(fields \ DOMAIN old)
             o(x, old) == Outcome(Replace(x, t, k, Hash(new(old))), IntReply(count(old)))
  <2>1. \A x : HSET(x, t, c) = Typed(x, t, k, "hash", o(x, HashOf(x, t, k)))
    BY DEF HSET
  <2> HIDE DEF new, count, k
  <2>2. ASSUME NEW old PROVE Alike(o(d, old), o(e, old), t)
    <3> DEFINE v == Hash(new(old))
    <3>1. Twin(Replace(d, t, k, v), Replace(e, t, k, v), t)
      BY <1>0, TwinReplace
    <3> QED BY <3>1, AlikeOutcome
  <2> HIDE DEF o
  <2> QED BY <1>0, <2>1, <2>2, TwinTyped
<1>2. Alike(HDEL(d, t, c), HDEL(e, t, c), t)
  <2> DEFINE gone(old) == {f \in DOMAIN old : \E i \in DOMAIN c.words : c.words[i] = f}
             new(old) == [f \in DOMAIN old \ gone(old) |-> old[f]]
             empty(old) == DOMAIN new(old) = {}
             count(old) == Cardinality(gone(old))
             w(x, old) == Outcome(ReplaceOrDelete(x, t, k, Hash(new(old)), empty(old)),
                                  IntReply(count(old)))
             o(x, old) == IF Exists(x, t, k) THEN w(x, old) ELSE Outcome(x, IntReply(0))
  <2>1. \A x : HDEL(x, t, c) = Typed(x, t, k, "hash", o(x, HashOf(x, t, k)))
    BY DEF HDEL
  <2> HIDE DEF new, count, empty, k
  <2>2. ASSUME NEW old PROVE Alike(w(d, old), w(e, old), t)
    <3> DEFINE v == Hash(new(old))
               b == empty(old)
    <3>1. Twin(ReplaceOrDelete(d, t, k, v, b), ReplaceOrDelete(e, t, k, v, b), t)
      BY <1>0, TwinReplace
    <3> QED BY <3>1, AlikeOutcome
  <2> HIDE DEF w
  <2>3. ASSUME NEW old PROVE Alike(o(d, old), o(e, old), t)
    BY <1>0, <2>2, AlikeOutcome
  <2> HIDE DEF o
  <2> QED BY <1>0, <2>1, <2>3, TwinTyped
<1> QED BY <1>1, <1>2

\* The commands on lists.
LEMMA TwinLists ==
    ASSUME NEW d \in Databases, NEW e \in Databases, NEW t, Twin(d, e, t),
           NEW c, c.key \in Keys
    PROVE  /\ Alike(PUSH(d, t, c), PUSH(e, t, c), t)
           /\ Alike(POP(d, t, c), POP(e, t, c), t)
           /\ Alike(LTRIM(d, t, c), LTRIM(e, t, c), t)
           /\ Alike(LREM(d, t, c), LREM(e, t, c), t)
<1> DEFINE k == c.key
<1>0. /\ k \in Keys /\ ListOf(d, t, k) = ListOf(e, t, k)
      /\ Exists(d, t, k) <=> Exists(e, t, k)
  BY TwinView
<1>1. Alike(PUSH(d, t, c), PUSH(e, t, c), t)
  <2> DEFINE new(old) == IF c.op \in {"LPUSH", "LPUSHX"} THEN Reversed(c.words) \o old
                                                         ELSE old \o c.words
             count(old) == Len(new(old))
             w(x, old) == Outcome(Replace(x, t, k, List(new(old))), IntReply(count(old)))
             o(x, old) == IF c.op \in {"LPUSHX", "RPUSHX"} /\ ~Exists(x, t, k)
                          THEN Outcome(x, IntReply(0)) ELSE w(x, old)
  <2>1. \A x : PUSH(x, t, c) = Typed(x, t, k, "list", o(x, ListOf(x, t, k)))
    BY DEF PUSH
  <2> HIDE DEF new, count, k
  <2>2. ASSUME NEW old PROVE Alike(w(d, old), w(e, old), t)
    <3> DEFINE v == List(new(old))
    <3>1. Twin(Replace(d, t, k, v), Replace(e, t, k, v), t)
      BY <1>0, TwinReplace
    <3> QED BY <3>1, AlikeOutcome
  <2> HIDE DEF w
  <2>3. ASSUME NEW old PROVE Alike(o(d, old), o(e, old), t)
    BY <1>0, <2>2, AlikeOutcome
  <2> HIDE DEF o
  <2> QED BY <1>0, <2>1, <2>3, TwinTyped
<1>2. ASSUME NEW v, NEW b, NEW r
      PROVE  Alike(Outcome(ReplaceOrDelete(d, t, k, v, b), r),
                   Outcome(ReplaceOrDelete(e, t, k, v, b), r), t)
  <2> HIDE DEF k
  <2>1. Twin(ReplaceOrDelete(d, t, k, v, b), ReplaceOrDelete(e, t, k, v, b), t)
    BY <1>0, TwinReplace
  <2> QED BY <2>1, AlikeOutcome
<1>3. Alike(POP(d, t, c), POP(e, t, c), t)
  <2> DEFINE n(old) == IF c.count = << >> THEN 1
                       ELSE IF c.count[1] > Len(old) THEN Len(old) ELSE c.count[1]
             left == c.op = "LPOP"
             new(old) == IF left THEN SubSeq(old, n(old) + 1, Len(old))
                                 ELSE SubSeq(old, 1, Len(old) - n(old))
             out(old) == IF left THEN SubSeq(old, 1, n(old))
                                 ELSE SubSeq(Reversed(old), 1, n(old))
             bad == c.count # << >> /\ ~(IsInteger(c.count) /\ c.count[1] >= 0)
             rep(old) == IF c.count = << >> THEN BulkReply(out(old)) ELSE ArrayReply(out(old))
             empty(old) == new(old) = << >>
             w(x, old) == Outcome(ReplaceOrDelete(x, t, k, List(new(old)), empty(old)),
                                  rep(old))
             o(x, old) == IF old = << >> THEN Outcome(x, NilReply)
                          ELSE IF bad THEN Fail(x, "NOTINTEGER") ELSE w(x, old)
  <2>1. \A x : POP(x, t, c) = Typed(x, t, k, "list", o(x, ListOf(x, t, k)))
    BY DEF POP
  <2> HIDE DEF new, out, bad, rep, empty, k
  <2>2. ASSUME NEW old PROVE Alike(w(d, old), w(e, old), t)
    BY <1>2
  <2> HIDE DEF w
  <2>3. ASSUME NEW old PROVE Alike(o(d, old), o(e, old), t)
    BY <2>2, AlikeOutcome
  <2> HIDE DEF o
  <2> QED BY <1>0, <2>1, <2>3, TwinTyped
<1>4. Alike(LTRIM(d, t, c), LTRIM(e, t, c), t)
  <2> DEFINE new(old) == sliceList(old, c.start, c.stop)
             empty(old) == new(old) = << >>
             o(x, old) == Outcome(ReplaceOrDelete(x, t, k, List(new(old)), empty(old)), OKReply)
  <2>1. \A x : LTRIM(x, t, c) = Typed(x, t, k, "list", o(x, ListOf(x, t, k)))
    BY DEF LTRIM
  <2> HIDE DEF new, empty, k
  <2>2. ASSUME NEW old PROVE Alike(o(d, old), o(e, old), t)
    BY <1>2
  <2> HIDE DEF o
  <2> QED BY <1>0, <2>1, <2>2, TwinTyped
<1>5. Alike(LREM(d, t, c), LREM(e, t, c), t)
  <2> DEFINE hits(old) == {i \in DOMAIN old : old[i] = c.val}
             gone(old) == {i \in hits(old) :
               \/ c.limit = 0
               \/ c.limit > 0 /\ Cardinality({j \in hits(old) : j < i}) < c.limit
               \/ c.limit < 0 /\ Cardinality({j \in hits(old) : j > i}) < -c.limit}
             kept(old) == DOMAIN old \ gone(old)
             rank(old, i) == Cardinality({j \in kept(old) : j <= i})
             new(old) == [m \in 1 .. Cardinality(kept(old)) |->
                             old[CHOOSE i \in kept(old) : rank(old, i) = m]]
             empty(old) == kept(old) = {}
             count(old) == Cardinality(gone(old))
             o(x, old) == Outcome(ReplaceOrDelete(x, t, k, List(new(old)), empty(old)),
                                  IntReply(count(old)))
  <2>1. \A x : LREM(x, t, c) = Typed(x, t, k, "list", o(x, ListOf(x, t, k)))
    BY DEF LREM
  <2> HIDE DEF new, empty, count, k
  <2>2. ASSUME NEW old PROVE Alike(o(d, old), o(e, old), t)
    BY <1>2
  <2> HIDE DEF o
  <2> QED BY <1>0, <2>1, <2>2, TwinTyped
<1> QED BY <1>1, <1>3, <1>4, <1>5

\* The commands on sets.  SPOP may take the same members from both.
LEMMA TwinSets ==
    ASSUME NEW d \in Databases, NEW e \in Databases, NEW t, Twin(d, e, t),
           NEW c, c.key \in Keys
    PROVE  /\ Alike(SADD(d, t, c), SADD(e, t, c), t)
           /\ Alike(SREM(d, t, c), SREM(e, t, c), t)
           /\ \A o \in SPOP(d, t, c) : \E p \in SPOP(e, t, c) : Alike(o, p, t)
<1> DEFINE k == c.key
<1>0. /\ k \in Keys /\ MembersOf(d, t, k) = MembersOf(e, t, k)
      /\ Exists(d, t, k) <=> Exists(e, t, k)
  BY TwinView
<1>1. Alike(SADD(d, t, c), SADD(e, t, c), t)
  <2> DEFINE args == {c.words[i] : i \in DOMAIN c.words}
             new(old) == old \cup args
             count(old) == Cardinality(args \ old)
             o(x, old) == Outcome(Replace(x, t, k, SetOf(new(old))), IntReply(count(old)))
  <2>1. \A x : SADD(x, t, c) = Typed(x, t, k, "set", o(x, MembersOf(x, t, k)))
    BY DEF SADD
  <2> HIDE DEF new, count, k
  <2>2. ASSUME NEW old PROVE Alike(o(d, old), o(e, old), t)
    <3> DEFINE v == SetOf(new(old))
    <3>1. Twin(Replace(d, t, k, v), Replace(e, t, k, v), t)
      BY <1>0, TwinReplace
    <3> QED BY <3>1, AlikeOutcome
  <2> HIDE DEF o
  <2> QED BY <1>0, <2>1, <2>2, TwinTyped
<1>2. ASSUME NEW gone, NEW r
      PROVE  Alike(Removed(d, t, c, gone, r), Removed(e, t, c, gone, r), t)
  <2> DEFINE new(old) == old \ gone
             empty(old) == new(old) = {}
             o(x, old) == Outcome(ReplaceOrDelete(x, t, k, SetOf(new(old)), empty(old)), r)
  <2>1. \A x : Removed(x, t, c, gone, r) = Typed(x, t, k, "set", o(x, MembersOf(x, t, k)))
    BY DEF Removed
  <2> HIDE DEF new, empty, k
  <2>2. ASSUME NEW old PROVE Alike(o(d, old), o(e, old), t)
    <3> DEFINE v == SetOf(new(old))
               b == empty(old)
    <3>1. Twin(ReplaceOrDelete(d, t, k, v, b), ReplaceOrDelete(e, t, k, v, b), t)
      BY <1>0, TwinReplace
    <3> QED BY <3>1, AlikeOutcome
  <2> HIDE DEF o
  <2> QED BY <1>0, <2>1, <2>2, TwinTyped
<1>3. Alike(SREM(d, t, c), SREM(e, t, c), t)
  <2> DEFINE gone(old) == {m \in old : \E i \in DOMAIN c.words : c.words[i] = m}
             w(x, old) == Removed(x, t, c, gone(old), IntReply(Cardinality(gone(old))))
  <2>1. \A x : SREM(x, t, c) = IF Exists(x, t, k) THEN w(x, MembersOf(x, t, k))
                               ELSE Outcome(x, IntReply(0))
    BY DEF SREM
  <2>2. ASSUME NEW old PROVE Alike(w(d, old), w(e, old), t)
    BY <1>2
  <2> HIDE DEF w
  <2> QED BY <1>0, <2>1, <2>2, AlikeOutcome
<1>4. ASSUME NEW o \in SPOP(d, t, c) PROVE \E p \in SPOP(e, t, c) : Alike(o, p, t)
  <2> DEFINE n(old) == LET count == IF c.count = << >> THEN 1 ELSE c.count[1]
                       IN  IF count > Cardinality(old) THEN Cardinality(old)
                           ELSE IF count < 0 THEN 0 ELSE count
             picks(old) == {g \in SUBSET old : Cardinality(g) = n(old)}
             rep(gone) == IF c.count # << >> THEN SetReply(gone)
                          ELSE IF gone = {} THEN NilReply
                          ELSE BulkReply(<<CHOOSE m \in gone : TRUE>>)
             nil == IF c.count # << >> THEN SetReply({}) ELSE NilReply
  <2>1. \A x : SPOP(x, t, c) =
                 IF Exists(x, t, k)
                 THEN {Removed(x, t, c, gone, rep(gone)) : gone \in picks(MembersOf(x, t, k))}
                 ELSE {Outcome(x, nil)}
    BY DEF SPOP
  <2> HIDE DEF picks, rep, nil
  <2>2. CASE Exists(d, t, k)
    <3>1. PICK gone \in picks(MembersOf(d, t, k)) : o = Removed(d, t, c, gone, rep(gone))
      BY <2>1, <2>2
    <3>2. Removed(e, t, c, gone, rep(gone)) \in SPOP(e, t, c)
      BY <1>0, <2>1, <2>2, <3>1
    <3> QED BY <1>2, <3>1, <3>2
  <2>3. CASE ~Exists(d, t, k)
    <3>1. o = Outcome(d, nil) /\ Outcome(e, nil) \in SPOP(e, t, c)
      BY <1>0, <2>1, <2>3
    <3> QED BY <3>1, AlikeOutcome
  <2> QED BY <2>2, <2>3
<1> QED BY <1>1, <1>3, <1>4

(***************************************************************************)
(* Every command.                                                          *)
(***************************************************************************)
\* Whatever a command does to a database, it does to its twin.
LEMMA TwinApply ==
    ASSUME NEW d \in Databases, NEW e \in Databases, NEW t, Twin(d, e, t),
           NEW c \in CommandSpace, NEW o \in applyCmdInTxn(d, t, c)
    PROVE  \E p \in applyCmdInTxn(e, t, c) : Alike(o, p, t)
<1> USE DEF applyCmdInTxn
<1>1. CASE c \in SetCommands
  <2>1. c.op = "SET" /\ c.key \in Keys
    BY <1>1 DEF SetCommands
  <2>2. Alike(SET(d, t, c), SET(e, t, c), t)
    BY <2>1, TwinSet
  <2> QED BY <2>1, <2>2
<1>2. CASE c \in TextCommands
  BY <1>2, TwinSet, TwinStrings DEF TextCommands
<1>3. CASE c \in MSetCommands
  BY <1>3, TwinKeys DEF MSetCommands
<1>4. CASE c \in DelCommands
  BY <1>4, TwinKeys DEF DelCommands
<1>5. CASE c \in FlushCommands
  BY <1>5, TwinKeys DEF FlushCommands
<1>6. CASE c \in IncrCommands
  BY <1>6, TwinStrings DEF IncrCommands
<1>7. CASE c \in ExpireCommands
  BY <1>7, TwinLifetimes DEF ExpireCommands
<1>8. CASE c \in PersistCommands
  BY <1>8, TwinLifetimes DEF PersistCommands
<1>9. CASE c \in HSetCommands
  BY <1>9, TwinHashes DEF HSetCommands
<1>10. CASE c \in AddCommands
  BY <1>10, TwinLists, TwinSets DEF AddCommands
<1>11. CASE c \in RemoveCommands
  BY <1>11, TwinHashes, TwinSets DEF RemoveCommands
<1>12. CASE c \in PopCommands
  BY <1>12, TwinLists, TwinSets DEF PopCommands
<1>13. CASE c \in LTrimCommands
  BY <1>13, TwinLists DEF LTrimCommands
<1>14. CASE c \in LRemCommands
  BY <1>14, TwinLists DEF LRemCommands
<1> QED
  BY <1>1, <1>2, <1>3, <1>4, <1>5, <1>6, <1>7, <1>8, <1>9, <1>10, <1>11,
     <1>12, <1>13, <1>14 DEF CommandSpace

\* So its effects on twins are the same.
LEMMA TwinEffects ==
    ASSUME NEW d \in Databases, NEW e \in Databases, Twin(d, e, now), NEW c \in CommandSpace
    PROVE  Effects(d, c) \subseteq Effects(e, c)
<1> SUFFICES ASSUME NEW o \in applyCmdInTxn(d, now, c)
             PROVE  [db |-> Swept(o.db), reply |-> o.reply] \in Effects(e, c)
  BY DEF Effects
<1>1. PICK p \in applyCmdInTxn(e, now, c) : Alike(o, p, now)
  BY TwinApply
<1>2. Swept(o.db) = Swept(p.db) /\ o.reply = p.reply
  BY <1>1, TwinSwept DEF Alike
<1> QED BY <1>2 DEF Effects

\* What Badger still stores and no client can see changes no reply and no later
\* state, for every command (GhostsAreInvisible).
THEOREM GhostsStayInvisible == Spec => []GhostsAreInvisible
<1>1. IInv => GhostsAreInvisible
  <2> SUFFICES ASSUME IInv, NEW c \in Requests
               PROVE  Effects(db, c) = Effects(Swept(db), c)
    BY DEF GhostsAreInvisible
  <2>1. db \in Databases /\ c \in CommandSpace
    BY RequestsAssumption DEF IInv, TypeOK
  <2>2. Swept(db) \in Databases /\ Twin(db, Swept(db), now) /\ Twin(Swept(db), db, now)
    BY <2>1, SweptTwin, TwinSymmetric
  <2>3. /\ Effects(db, c) \subseteq Effects(Swept(db), c)
        /\ Effects(Swept(db), c) \subseteq Effects(db, c)
    BY <2>1, <2>2, TwinEffects
  <2> QED BY <2>3
<1> QED BY <1>1, Invariant, PTL

(***************************************************************************)
(* What parts a collection from its type.                                  *)
(***************************************************************************)
\* The entries of a key after a command: as before, or written together.
SameEntries(d, n, k) == n.K[k] = d.K[k] /\ n.T[k] = d.T[k]

WrittenTogether(n, k) == \E v, x : /\ n.K[k] = [val |-> v, exp |-> x]
                          /\ n.T[k] = [val |-> v.kind, exp |-> x]

Together(d, n, t, k) == SameEntries(d, n, k) \/ WrittenTogether(n, k) \/ ~Exists(n, t, k)

\* setValue writes the entries of its key together and keeps the others.
LEMMA SetValueTogether ==
    ASSUME NEW d \in Databases, NEW t, NEW j \in Keys, NEW v, NEW ttl, NEW k \in Keys
    PROVE  Together(d, setValue(d, t, j, v, v.kind, ttl), t, k)
<1> DEFINE exp == IF ttl > 0 THEN WithTTL(t, ttl) ELSE 0
           typ == v.kind
           n   == setValue(d, t, j, v, typ, ttl)
<1>1. /\ n.K[j] = [val |-> v, exp |-> exp] /\ n.T[j] = [val |-> typ, exp |-> exp]
      /\ k # j => n.K[k] = d.K[k] /\ n.T[k] = d.T[k]
  <2> HIDE DEF typ
  <2> QED BY SetValueFields
<1> HIDE DEF exp, n
<1> SUFFICES Together(d, n, t, k)
  BY DEF n
<1>2. CASE k = j
  BY <1>1, <1>2 DEF Together, WrittenTogether
<1>3. CASE k # j
  BY <1>1, <1>3 DEF Together, SameEntries
<1> QED BY <1>2, <1>3

\* The entries after a value is stored without a lifetime.
LEMMA StoredForGood ==
    ASSUME NEW d \in Databases, NEW t, NEW j \in Keys, NEW v, NEW typ, NEW k \in Keys
    PROVE  LET n == setValue(d, t, j, v, typ, 0)
           IN  /\ k = j => n.K[k] = [val |-> v, exp |-> 0]
               /\ k # j => SameEntries(d, n, k)
<1> DEFINE ttl == 0
           n   == setValue(d, t, j, v, typ, ttl)
           exp == IF ttl > 0 THEN WithTTL(t, ttl) ELSE 0
<1>2. exp = 0
  OBVIOUS
<1> HIDE DEF ttl
<1>1. /\ n.K[j] = [val |-> v, exp |-> exp] /\ n.T[j] = [val |-> typ, exp |-> exp]
      /\ k # j => n.K[k] = d.K[k] /\ n.T[k] = d.T[k]
  BY SetValueFields
<1> HIDE DEF n, exp
<1>3. /\ k = j => n.K[k] = [val |-> v, exp |-> 0]
      /\ k # j => n.K[k] = d.K[k] /\ n.T[k] = d.T[k]
  BY <1>1, <1>2
<1> QED BY <1>3 DEF n, ttl, SameEntries

\* A deletion removes both entries of a key or keeps both.
LEMMA DeleteTogether ==
    ASSUME NEW d, NEW t, NEW ks, NEW k \in Keys
    PROVE  Together(d, Delete(d, ks), t, k)
<1> DEFINE n == Delete(d, ks)
<1>1. /\ n.K[k] = IF k \in ks THEN None ELSE d.K[k]
      /\ n.T[k] = IF k \in ks THEN None ELSE d.T[k]
  BY DEF Delete
<1> HIDE DEF n
<1> SUFFICES Together(d, n, t, k)
  BY DEF n
<1>2. CASE k \in ks
  BY <1>1, <1>2 DEF Together, Exists, Live
<1>3. CASE k \notin ks
  BY <1>1, <1>3 DEF Together, SameEntries
<1> QED BY <1>2, <1>3

\* Every command but EXPIRE and PERSIST treats the entries of every key alike.
LEMMA CommandsWriteTogether ==
    ASSUME NEW d \in Databases, NEW t \in Nat, NEW c \in CommandSpace,
           c.op \notin {"EXPIRE", "PERSIST"},
           NEW o \in applyCmdInTxn(d, t, c), NEW k \in Keys
    PROVE  Together(d, o.db, t, k)
<1>0. c.op \in {"SET", "GETSET", "MSET", "DEL", "FLUSHDB"} \/ c.op \in Keeping
  BY DEF Keeping,
         CommandSpace, SetCommands, TextCommands, MSetCommands, DelCommands,
         FlushCommands, IncrCommands, ExpireCommands, PersistCommands, HSetCommands,
         AddCommands, RemoveCommands, PopCommands, LTrimCommands, LRemCommands
<1>1. Together(d, d, t, k)
  BY DEF Together, SameEntries
<1>2. c.op \in {"SET", "GETSET"} => c.key \in Keys
  BY DEF CommandSpace, SetCommands, TextCommands, MSetCommands, DelCommands,
         FlushCommands, IncrCommands, ExpireCommands, PersistCommands, HSetCommands,
         AddCommands, RemoveCommands, PopCommands, LTrimCommands, LRemCommands
<1>3. ASSUME NEW s, NEW ttl, c.key \in Keys,
             o.db = setValue(d, t, c.key, Str(s), "string", ttl)
      PROVE  Together(d, o.db, t, k)
  <2>1. Str(s).kind = "string"
    BY DEF Str
  <2> DEFINE x == c.key
             v == Str(s)
  <2>2. x \in Keys
    BY <1>3
  <2> HIDE DEF x, v
  <2>3. Together(d, setValue(d, t, x, v, v.kind, ttl), t, k)
    BY <2>2, SetValueTogether
  <2> QED BY <1>3, <2>1, <2>3 DEF x, v
<1>4. CASE c.op = "SET"
  <2> DEFINE set == setKey(c, Exists(d, t, c.key))
             r   == Outcome(IF set THEN setValue(d, t, c.key, Str(c.val), "string", c.ttl)
                                   ELSE d,
                            IF c.get THEN OldReply(d, t, c.key)
                            ELSE IF set THEN OKReply ELSE NilReply)
  <2>1. o = SET(d, t, c)
    BY <1>4 DEF applyCmdInTxn
  <2>2. o = Typed(d, t, c.key, "string", r)
    BY <2>1 DEF SET
  <2>3. r.db = d \/ r.db = setValue(d, t, c.key, Str(c.val), "string", c.ttl)
    BY DEF Outcome
  <2> HIDE DEF r
  <2>4. o.db = d \/ o.db = setValue(d, t, c.key, Str(c.val), "string", c.ttl)
    BY <2>2, <2>3, TypedShape
  <2> QED BY <1>1, <1>2, <1>3, <1>4, <2>4
<1>5. CASE c.op = "GETSET"
  <2> DEFINE r == Outcome(setValue(d, t, c.key, Str(c.val), "string", 0),
                          OldReply(d, t, c.key))
  <2>1. o = GETSET(d, t, c)
    BY <1>5 DEF applyCmdInTxn
  <2>2. o = Typed(d, t, c.key, "string", r)
    BY <2>1 DEF GETSET
  <2>3. r.db = setValue(d, t, c.key, Str(c.val), "string", 0)
    BY DEF Outcome
  <2> HIDE DEF r
  <2>4. o.db = d \/ o.db = setValue(d, t, c.key, Str(c.val), "string", 0)
    BY <2>2, <2>3, TypedShape
  <2> QED BY <1>1, <1>2, <1>3, <1>5, <2>4
<1>6. CASE c.op = "MSET"
  <2> DEFINE at(j)  == {i \in DOMAIN c.pairs : c.pairs[i][1] = j}
             val(j) == c.pairs[CHOOSE i \in at(j) : \A l \in at(j) : l <= i][2]
             v      == Str(val(k))
  <2>1. o = MSET(d, t, c)
    BY <1>6 DEF applyCmdInTxn
  <2>2. /\ o.db.K[k] = IF at(k) = {} THEN d.K[k] ELSE [val |-> v, exp |-> 0]
        /\ o.db.T[k] = IF at(k) = {} THEN d.T[k] ELSE [val |-> "string", exp |-> 0]
    BY <2>1 DEF MSET, Outcome
  <2>3. v.kind = "string"
    BY DEF Str
  <2> HIDE DEF at, v
  <2> QED BY <2>2, <2>3 DEF Together, SameEntries, WrittenTogether
<1>7. CASE c.op = "DEL"
  <2> DEFINE gone == {j \in Keys : (\E i \in DOMAIN c.keys : c.keys[i] = j)
                                   /\ Exists(d, t, j)}
  <2>1. o = DEL(d, t, c) /\ c.key = None
    BY <1>7
    DEF applyCmdInTxn,
        CommandSpace, SetCommands, TextCommands, MSetCommands, DelCommands,
        FlushCommands, IncrCommands, ExpireCommands, PersistCommands, HSetCommands,
        AddCommands, RemoveCommands, PopCommands, LTrimCommands, LRemCommands
  <2>2. o.db = Delete(d, gone)
    BY <2>1 DEF DEL, Outcome
  <2> QED BY <2>2, DeleteTogether
<1>8. CASE c.op = "FLUSHDB"
  <2>1. o = FLUSHDB(d, t, c)
    BY <1>8 DEF applyCmdInTxn
  <2>2. o.db.K[k] = IF Live(d.K[k], t) THEN None ELSE d.K[k]
    BY <2>1 DEF FLUSHDB, Outcome
  <2> QED BY <2>2 DEF Together, Exists, Live
<1>9. CASE c.op \in Keeping
  <2>1. KeepShape(d, t, c, o.db) /\ c.key \in Keys
    BY <1>9, KeepingShape
  <2>2. ASSUME NEW v, o.db = Replace(d, t, c.key, v)
        PROVE  Together(d, o.db, t, k)
    <3> DEFINE x == c.key
               ttl == oldTTLMs(d, t, c.key)
    <3>1. x \in Keys /\ o.db = setValue(d, t, x, v, v.kind, ttl)
      BY <2>1, <2>2 DEF Replace
    <3> HIDE DEF x, ttl
    <3> QED BY <3>1, SetValueTogether
  <2>3. Together(d, Delete(d, {c.key}), t, k)
    BY DeleteTogether
  <2> QED BY <1>1, <2>1, <2>2, <2>3 DEF KeepShape
<1> QED BY <1>0, <1>4, <1>5, <1>6, <1>7, <1>8, <1>9

\* Entries that are treated alike keep the type of a collection.
LEMMA TogetherLasts ==
    ASSUME NEW d, NEW n \in Databases, NEW t, NEW k \in Keys,
           TypeLasts(d, t, k), Together(d, n, t, k)
    PROVE  TypeLasts(n, t, k)
<1>1. CASE SameEntries(d, n, k)
  BY <1>1 DEF SameEntries, TypeLasts, Exists
<1>2. CASE ~Exists(n, t, k)
  BY <1>2 DEF TypeLasts
<1>3. CASE WrittenTogether(n, k) /\ Exists(n, t, k)
  <2>1. PICK v, x : /\ n.K[k] = [val |-> v, exp |-> x]
                    /\ n.T[k] = [val |-> v.kind, exp |-> x]
    BY <1>3 DEF WrittenTogether
  <2>2. n.K[k] \in ValueEntries
    BY <1>3, DatabaseFields DEF Exists, Live
  <2>3. v \in Values /\ x \in Nat
    BY <2>1, <2>2 DEF ValueEntries
  <2>4. v.kind \in Kinds
    BY <2>3 DEF Values, Kinds
  <2> DEFINE typ == v.kind
  <2>5. n.T[k] = [val |-> typ, exp |-> x] /\ typ \in Kinds
    BY <2>1, <2>4
  <2>6. n.K[k].val.kind = typ /\ n.K[k].exp = x
    BY <2>1
  <2> HIDE DEF typ
  <2>7. n.T[k] # None /\ n.T[k].val = typ /\ n.T[k].exp = x
    BY <2>3, <2>5, NoneAssumption DEF TypeEntries
  <2> QED BY <2>3, <2>6, <2>7 DEF TypeLasts
<1> QED BY <1>1, <1>2, <1>3 DEF Together

\* PERSIST finds the type of a collection whose type entry lasts, and writes it.
LEMMA PersistLasts ==
    ASSUME NEW d \in Databases, NEW t \in Nat, NEW c \in CommandSpace, c.op = "PERSIST",
           NEW o \in applyCmdInTxn(d, t, c), o.db \in Databases,
           NEW k \in Keys, TypeLasts(d, t, k)
    PROVE  TypeLasts(o.db, t, k)
<1> DEFINE x   == c.key
           v   == d.K[x].val
           typ == getExistingType(d, t, x)
<1>1. o = PERSIST(d, t, c)
  BY DEF applyCmdInTxn
<1>2. o.db = d \/ (Exists(d, t, x) /\ o.db = setValue(d, t, x, v, typ, 0))
  BY <1>1 DEF PERSIST, Outcome
<1>3. x \in Keys
  BY DEF CommandSpace, SetCommands, TextCommands, MSetCommands, DelCommands,
         FlushCommands, IncrCommands, ExpireCommands, PersistCommands, HSetCommands,
         AddCommands, RemoveCommands, PopCommands, LTrimCommands, LRemCommands
<1> HIDE DEF x
<1>4. CASE o.db = d
  BY <1>4
<1>5. CASE Exists(d, t, x) /\ o.db = setValue(d, t, x, v, typ, 0)
  <2>1. CASE v.kind = "string" /\ k = x
    <3> HIDE DEF v, typ
    <3>1. o.db.K[x] = [val |-> v, exp |-> 0]
      BY <1>3, <1>5, StoredForGood
    <3> QED BY <2>1, <3>1 DEF TypeLasts
  <2>2. CASE v.kind # "string" /\ k = x
    <3>1. /\ d.T[x] # None /\ d.T[x].val = v.kind
          /\ d.T[x].exp = 0 \/ (d.K[x].exp # 0 /\ d.K[x].exp <= d.T[x].exp)
      BY <1>5, <2>2 DEF TypeLasts
    <3>2. /\ d.K[x] # None /\ (d.K[x].exp = 0 \/ d.K[x].exp > t \div TicksPerSec)
      BY <1>5 DEF Exists, Live
    <3>3. d.K[x].exp \in Nat /\ d.T[x].exp \in Nat /\ t \div TicksPerSec \in Nat
      <4>1. d.K[x] \in ValueEntries /\ d.T[x] \in TypeEntries
        BY <1>3, <3>1, <3>2, DatabaseFields
      <4> QED BY <4>1, TicksPerSecType, DivNat DEF ValueEntries, TypeEntries
    <3>4. Live(d.T[x], t)
      BY <3>1, <3>2, <3>3 DEF Live
    <3>5. typ = v.kind
      BY <3>1, <3>4 DEF getExistingType
    <3>6. o.db = setValue(d, t, x, v, v.kind, 0)
      BY <1>5, <3>5
    <3> HIDE DEF v
    <3>7. Together(d, o.db, t, k)
      BY <1>3, <3>6, SetValueTogether
    <3> QED BY <3>7, TogetherLasts
  <2>3. CASE k # x
    <3> HIDE DEF v, typ
    <3> DEFINE n == setValue(d, t, x, v, typ, 0)
    <3>1. SameEntries(d, n, k)
      BY <1>3, <2>3, StoredForGood
    <3>2. Together(d, o.db, t, k)
      BY <1>5, <3>1 DEF Together
    <3> QED BY <3>2, TogetherLasts
  <2> QED BY <2>1, <2>2, <2>3
<1> QED BY <1>2, <1>4, <1>5

\* EXPIRE touches the value entry of its own key and nothing else.
LEMMA ExpireWrites ==
    ASSUME NEW d \in Databases, NEW t, NEW c, c.op = "EXPIRE",
           NEW o \in applyCmdInTxn(d, t, c), NEW k \in Keys
    PROVE  \/ SameEntries(d, o.db, k)
           \/ /\ k = c.key /\ Exists(d, t, k)
              /\ o.db.K[k] = [val |-> d.K[k].val, exp |-> WithTTL(t, c.ttl)]
              /\ o.db.T[k] = d.T[k]
<1> DEFINE e == [val |-> d.K[c.key].val, exp |-> WithTTL(t, c.ttl)]
<1>0. DOMAIN d.K = Keys
  BY DEF Databases
<1>1. o = EXPIRE(d, t, c)
  BY DEF applyCmdInTxn
<1>2. \/ o.db = d
      \/ Exists(d, t, c.key) /\ o.db = [d EXCEPT !.K = [@ EXCEPT ![c.key] = e]]
  BY <1>1 DEF EXPIRE, Outcome
<1> HIDE DEF e
<1>3. CASE o.db = d
  BY <1>3 DEF SameEntries
<1>4. CASE Exists(d, t, c.key) /\ o.db = [d EXCEPT !.K = [@ EXCEPT ![c.key] = e]]
  <2>1. o.db.K = [d.K EXCEPT ![c.key] = e] /\ o.db.T = d.T
    BY <1>4 DEF Databases
  <2>2. /\ k # c.key => o.db.K[k] = d.K[k]
        /\ k = c.key => o.db.K[k] = e
    BY <1>0, <2>1
  <2> QED BY <1>4, <2>1, <2>2 DEF SameEntries, e
<1> QED BY <1>2, <1>3, <1>4

\* No EXPIRE of the requests leaves an entry without an expiry.
LEMMA ExpiryIsSet ==
    ASSUME NEW t \in Nat, t >= Start, NEW c \in Requests, c.op = "EXPIRE"
    PROVE  WithTTL(t, c.ttl) \in Nat \ {0}
<1>1. c.ttl \in Int
  BY RequestsAssumption
  DEF CommandSpace, SetCommands, TextCommands, MSetCommands, DelCommands,
      FlushCommands, IncrCommands, ExpireCommands, PersistCommands, HSetCommands,
      AddCommands, RemoveCommands, PopCommands, LTrimCommands, LRemCommands
<1>2. c.ttl * TicksPerMs \in Int
  BY <1>1, ClockAssumption
<1> DEFINE x == t + c.ttl * TicksPerMs
<1>3. x \in Nat /\ x >= TicksPerSec
  BY <1>2, RequestsAssumption, TicksPerSecType
<1> HIDE DEF x
<1>4. TicksPerSec * 1 <= x
  BY <1>3, TicksPerSecType
<1>5. 1 <= x \div TicksPerSec /\ x \div TicksPerSec \in Nat
  BY <1>3, <1>4, TicksPerSecType, DivBetween, DivNat
<1> QED BY <1>5 DEF WithTTL, x

\* A live collection comes to outlive its type entry only by an EXPIRE of its key that
\* lengthens the lifetime the entry carries (TypesOutlivedByExpire).
THEOREM TypesAreOutlivedByExpireOnly == Spec => TypesOutlivedByExpire
<1> DEFINE Lengthened(k) == \E c \in Requests :
                               /\ c.op = "EXPIRE" /\ c.key = k /\ Apply(c)
                               /\ db.T[k].exp # 0 /\ db'.K[k].exp > db.T[k].exp
           A == \A k \in Keys : TypeLasts(db, now, k) /\ ~TypeLasts(db', now', k)
                                   => Lengthened(k)
<1>1. IInv /\ IInv' /\ [Next]_vars => [A]_vars
  <2> SUFFICES ASSUME IInv, IInv', Next, NEW k \in Keys,
                      TypeLasts(db, now, k), ~TypeLasts(db', now', k)
               PROVE  Lengthened(k)
    OBVIOUS
  <2>1. /\ db \in Databases /\ now \in Nat /\ now >= Start
        /\ db' \in Databases /\ Requests \subseteq CommandSpace
    BY RequestsAssumption DEF IInv, TypeOK
  <2>2. (\E c \in Requests : Apply(c)) \/ Tick
    BY DEF Next, Set, GetSet, Append_, MSet, Del, FlushDB, Incr, Expire,
           Persist, HSet, HDel, Push, Pop, LTrim, LRem, SAdd, SRem, SPop
  <2>3. ASSUME NEW c \in Requests, Apply(c), c.op \notin {"EXPIRE", "PERSIST"}
        PROVE  FALSE
    <3>1. PICK o \in applyCmdInTxn(db, now, c) : db' = o.db /\ now' = now
      BY <2>3 DEF Apply
    <3>2. Together(db, o.db, now, k)
      BY <2>1, <2>3, CommandsWriteTogether
    <3>3. TypeLasts(o.db, now, k)
      BY <2>1, <3>1, <3>2, TogetherLasts
    <3> QED BY <3>1, <3>3
  <2>4. ASSUME NEW c \in Requests, Apply(c), c.op = "PERSIST" PROVE FALSE
    <3>1. PICK o \in applyCmdInTxn(db, now, c) : db' = o.db /\ now' = now
      BY <2>4 DEF Apply
    <3>2. TypeLasts(o.db, now, k)
      BY <2>1, <2>4, <3>1, PersistLasts
    <3> QED BY <3>1, <3>2
  <2>5. ASSUME NEW c \in Requests, Apply(c), c.op = "EXPIRE" PROVE Lengthened(k)
    <3>1. PICK o \in applyCmdInTxn(db, now, c) : db' = o.db /\ now' = now
      BY <2>5 DEF Apply
    <3>2. ~SameEntries(db, o.db, k)
      BY <3>1 DEF SameEntries, TypeLasts, Exists
    <3>3. /\ k = c.key /\ Exists(db, now, k)
          /\ db'.K[k] = [val |-> db.K[k].val, exp |-> WithTTL(now, c.ttl)]
          /\ db'.T[k] = db.T[k]
      BY <2>1, <2>5, <3>1, <3>2, ExpireWrites
    <3>4. WithTTL(now, c.ttl) \in Nat \ {0}
      BY <2>1, <2>5, RequestsAssumption, ExpiryIsSet
    <3>5. /\ db.K[k].val.kind # "string" /\ db.T[k] # None
          /\ db.T[k].val = db.K[k].val.kind
          /\ ~(db.T[k].exp = 0 \/ (db'.K[k].exp # 0 /\ db'.K[k].exp <= db.T[k].exp))
      BY <3>3 DEF TypeLasts
    <3>6. db.T[k].exp \in Nat
      BY <2>1, <3>5, DatabaseFields DEF TypeEntries
    <3>7. db.T[k].exp # 0 /\ db'.K[k].exp > db.T[k].exp
      BY <3>3, <3>4, <3>5, <3>6
    <3> QED BY <2>5, <3>3, <3>7
  <2>6. ASSUME Tick PROVE FALSE
    <3>1. db' = db /\ now' = now + 1
      BY <2>6 DEF Tick
    <3>2. Live(db.K[k], now + 1) => Live(db.K[k], now)
      BY <2>1, DatabaseFields, LiveBefore
    <3> QED BY <3>1, <3>2 DEF TypeLasts, Exists
  <2> QED BY <2>2, <2>3, <2>4, <2>5, <2>6
<1> QED BY <1>1, Invariant, PTL DEF Spec, TypesOutlivedByExpire
=============================================================================
