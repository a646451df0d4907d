------------------------------- MODULE Store -------------------------------
(***************************************************************************)
(* The keyspace that store/fsm.go keeps in BadgerDB, and the helpers its   *)
(* commands share.  A user key k owns two Badger entries: "K"+k holds the  *)
(* value and "T"+k the name of its type.  Each entry has an expiry of its  *)
(* own, in whole Unix seconds (0: none), and Badger hides an entry once    *)
(* that second has begun.                                                  *)
(*                                                                         *)
(* The clock runs in ticks finer than a millisecond, because the code      *)
(* rounds a remaining lifetime down to milliseconds and Badger rounds an   *)
(* expiry down to seconds: both roundings are kept.                        *)
(***************************************************************************)
EXTENDS Integers, Sequences, FiniteSets

CONSTANTS
    Keys,          \* user keys
    Words,         \* non-numeric strings: values, fields, members
    Raw,           \* a msgpack encoding of a collection, seen as a string
    None,          \* no Badger entry
    MaxInt,        \* largest int64
    TicksPerMs,    \* clock ticks in a millisecond
    MsPerSec       \* milliseconds in a second

ASSUME ClockAssumption ==
    /\ TicksPerMs \in Nat \ {0}
    /\ MsPerSec \in Nat \ {0}
    /\ MaxInt \in Nat

TicksPerSec == TicksPerMs * MsPerSec

(***************************************************************************)
(* Values.  A string is a sequence of chunks; a collection is what         *)
(* encodeMsgpack stores of a Go map or slice.                              *)
(***************************************************************************)
Kinds == {"string", "hash", "list", "set"}

Int64 == (-MaxInt - 1) .. MaxInt

Chunks == Words \cup Int64 \cup {Raw}

Str(s)   == [kind |-> "string", str |-> s]
Hash(h)  == [kind |-> "hash", map |-> h]
List(s)  == [kind |-> "list", seq |-> s]
SetOf(m) == [kind |-> "set", mem |-> m]

Hashes == UNION {[F -> Words] : F \in SUBSET Words}

Values == [kind : {"string"}, str : Seq(Chunks)]
          \cup [kind : {"hash"}, map : Hashes]
          \cup [kind : {"list"}, seq : Seq(Words)]
          \cup [kind : {"set"}, mem : SUBSET Words]

\* An entry under the prefix K, and one under the prefix T.
ValueEntries == [val : Values, exp : Nat]
TypeEntries  == [val : Kinds, exp : Nat]

Databases == [K : [Keys -> ValueEntries \cup {None}],
              T : [Keys -> TypeEntries \cup {None}]]

ASSUME NoneAssumption == None \notin ValueEntries \cup TypeEntries

EmptyDB == [K |-> [k \in Keys |-> None], T |-> [k \in Keys |-> None]]

(***************************************************************************)
(* Badger: what Get sees at an instant, the expiry WithTTL computes, and   *)
(* what a transaction writes.                                              *)
(***************************************************************************)
Live(e, now) == e # None /\ (e.exp = 0 \/ e.exp > now \div TicksPerSec)

WithTTL(now, ttlMs) == (now + ttlMs * TicksPerMs) \div TicksPerSec

Delete(db, ks) ==
    [K |-> [k \in Keys |-> IF k \in ks THEN None ELSE db.K[k]],
     T |-> [k \in Keys |-> IF k \in ks THEN None ELSE db.T[k]]]

(***************************************************************************)
(* The helpers of store/fsm.go.                                            *)
(***************************************************************************)
Exists(db, now, k) == Live(db.K[k], now)

setValue(db, now, k, val, typ, ttlMs) ==
    LET exp == IF ttlMs > 0 THEN WithTTL(now, ttlMs) ELSE 0
    IN  [K |-> [db.K EXCEPT ![k] = [val |-> val, exp |-> exp]],
         T |-> [db.T EXCEPT ![k] = [val |-> typ, exp |-> exp]]]

\* 0 for an entry without expiry, else whole milliseconds, never below 1.
remainingTTLMs(e, now) ==
    LET ttl == (e.exp * TicksPerSec - now) \div TicksPerMs
    IN  IF e.exp = 0 THEN 0 ELSE IF ttl < 1 THEN 1 ELSE ttl

\* A key without a live type entry counts as a string.
getExistingType(db, now, k) ==
    IF Live(db.T[k], now) THEN db.T[k].val ELSE "string"

\* Mutant: no type check.
ensureNothing(db, now, k, want) == TRUE

ensureExistingType(db, now, k, want) == getExistingType(db, now, k) = want

\* The bytes of a stored value taken as a string.
AsString(val) == IF val.kind = "string" THEN val.str ELSE <<Raw>>

\* strconv.ParseInt accepts the string; FormatInt writes it back.  Digits that
\* APPEND has added to digits count as a string that is no number.
IsInteger(s) == Len(s) = 1 /\ s[1] \in Int64

\* Mutant: arithmetic that grows out of 64 bits.
Unbounded(n) == n

\* int64 arithmetic wraps around.
Wrap64(n) == ((n + MaxInt + 1) % (2 * (MaxInt + 1))) - MaxInt - 1

(***************************************************************************)
(* What the commands keep true of a database: type entries that name a     *)
(* collection are right, and no collection is stored empty.                *)
(***************************************************************************)
SoundTags(d) == \A k \in Keys :
    d.K[k] # None /\ d.T[k] # None /\ d.T[k].val # "string"
        => d.K[k].val.kind = d.T[k].val

Filled(val) == /\ val.kind = "hash" => DOMAIN val.map # {}
               /\ val.kind = "list" => val.seq # << >>
               /\ val.kind = "set" => val.mem # {}

AllFilled(d) == \A k \in Keys : d.K[k] # None => Filled(d.K[k].val)
=============================================================================
