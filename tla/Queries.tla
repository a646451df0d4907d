------------------------------ MODULE Queries ------------------------------
(***************************************************************************)
(* The read methods of store/fsm.go.  Each runs in one Badger View         *)
(* transaction on the local database and bypasses the Raft log.            *)
(***************************************************************************)
EXTENDS Commands

\* A reader of values: NilReply for a missing key, an error for a key of
\* another type, the answer otherwise.
ReadTyped(db, now, k, want, missing, answer) ==
    IF ~Exists(db, now, k) THEN missing
    ELSE IF ~ensureExistingType(db, now, k, want) THEN ErrorReply("WRONGTYPE")
    ELSE IF DecodeFails(db, now, k, want) THEN ErrorReply("DECODE")
    ELSE answer

\* Item.ValueCopy(nil) of an empty value is a nil slice, which the handlers
\* answer as they answer a missing key.
ValueReply(s) == IF s = << >> THEN NilReply ELSE BulkReply(s)

GetString(db, now, k) ==
    ReadTyped(db, now, k, "string", NilReply,
              ValueReply(StringOf(db, now, k)))

\* MGET checks no type.
GetStrings(db, now, ks) ==
    ArrayReply([i \in DOMAIN ks |-> ValueReply(StringOf(db, now, ks[i]))])

ExistsCount(db, now, ks) ==
    IntReply(Cardinality({i \in DOMAIN ks : Exists(db, now, ks[i])}))

StrLen(db, now, k) ==
    ReadTyped(db, now, k, "string", IntReply(0),
              IntReply(Len(StringOf(db, now, k))))

\* -2: no such key; -1: no expiry; else what is left, rounded down.
TimeToLive(db, now, k, unit) ==
    LET e   == db.K[k]
        ttl == (e.exp * TicksPerSec - now) \div unit
    IN  IntReply(IF ~Exists(db, now, k) THEN -2
                 ELSE IF e.exp = 0 THEN -1
                 ELSE IF ttl < 0 THEN -2 ELSE ttl)

TTL(db, now, k)  == TimeToLive(db, now, k, TicksPerSec)
PTTL(db, now, k) == TimeToLive(db, now, k, TicksPerMs)

\* Mutant: TYPE looks at the type entry alone.
TypeOfTag(db, now, k) ==
    IF Live(db.T[k], now) THEN db.T[k].val ELSE "none"

Type(db, now, k) ==
    IF Exists(db, now, k) THEN getExistingType(db, now, k) ELSE "none"

\* KEYS: the live keys among those the glob pattern matches.
KeysOf(db, now, matching) == {k \in matching : Exists(db, now, k)}

HGetAll(db, now, k) == HashOf(db, now, k)

HashReply(db, now, k, answer) == ReadTyped(db, now, k, "hash", answer, answer)

HGet(db, now, k, f) ==
    LET h == HGetAll(db, now, k)
    IN  HashReply(db, now, k,
            IF f \in DOMAIN h THEN BulkReply(<<h[f]>>) ELSE NilReply)

HLen(db, now, k) ==
    HashReply(db, now, k, IntReply(Cardinality(DOMAIN HGetAll(db, now, k))))

HExists(db, now, k, f) ==
    HashReply(db, now, k,
        IntReply(IF f \in DOMAIN HGetAll(db, now, k) THEN 1 ELSE 0))

HMGet(db, now, k, fs) ==
    LET h == HGetAll(db, now, k)
    IN  HashReply(db, now, k,
            ArrayReply([i \in DOMAIN fs |->
                IF fs[i] \in DOMAIN h THEN BulkReply(<<h[fs[i]]>>)
                                      ELSE NilReply]))

HKeys(db, now, k) ==
    HashReply(db, now, k, SetReply(DOMAIN HGetAll(db, now, k)))

HVals(db, now, k) ==
    LET h == HGetAll(db, now, k)
    IN  HashReply(db, now, k, SetReply({<<f, h[f]>> : f \in DOMAIN h}))

LRange(db, now, k, start, stop) ==
    LET answer == ArrayReply(sliceList(ListOf(db, now, k), start, stop))
    IN  ReadTyped(db, now, k, "list", answer, answer)

LLen(db, now, k) ==
    LET answer == IntReply(Len(ListOf(db, now, k)))
    IN  ReadTyped(db, now, k, "list", answer, answer)

LIndex(db, now, k, index) ==
    LET list   == ListOf(db, now, k)
        at     == IF index < 0 THEN Len(list) + index ELSE index
        answer == IF at < 0 \/ at >= Len(list) THEN NilReply
                  ELSE BulkReply(<<list[at + 1]>>)
    IN  ReadTyped(db, now, k, "list", answer, answer)

SetAnswer(db, now, k, answer) == ReadTyped(db, now, k, "set", answer, answer)

SMembers(db, now, k) ==
    SetAnswer(db, now, k, SetReply(MembersOf(db, now, k)))

SCard(db, now, k) ==
    SetAnswer(db, now, k, IntReply(Cardinality(MembersOf(db, now, k))))

SIsMember(db, now, k, m) ==
    SetAnswer(db, now, k, IntReply(IF m \in MembersOf(db, now, k) THEN 1 ELSE 0))

\* SRANDMEMBER: the first members in stored order, which is that of a Go map
\* iteration; a negative count goes around them again.
SRandMember(db, now, k, count) ==
    LET m    == MembersOf(db, now, k)
        want == IF count < 0 THEN -count ELSE count
        n    == IF want > Cardinality(m) THEN Cardinality(m) ELSE want
    IN  {SetAnswer(db, now, k, SetReply(s)) :
           s \in {t \in SUBSET m : Cardinality(t) = n}}
=============================================================================
