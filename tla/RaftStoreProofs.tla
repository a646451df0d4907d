-------------------------- MODULE RaftStoreProofs ---------------------------
(***************************************************************************)
(* The Raft log and stable store, for every number of entries, candidates  *)
(* and keys, whichever transactions fail: the store is the log that Raft   *)
(* takes it for (RaftStore implements LogStore), with a hole only after    *)
(* entries were refused behind a cut, and a node votes once in a term.     *)
(***************************************************************************)
EXTENDS RaftStore, TLAPS, NaturalsInduction, WellFoundedInduction

(***************************************************************************)
(* Keys.                                                                   *)
(***************************************************************************)
\* The two bytes of an index, and the index they make up.
LEMMA Bytes ==
    ASSUME NEW i \in Indices
    PROVE  /\ i \div Byte \in 0 .. (Byte - 1)
           /\ i % Byte \in 0 .. (Byte - 1)
           /\ i = (i \div Byte) * Byte + (i % Byte)
<1> DEFINE q == i \div Byte
           r == i % Byte
<1>1. Byte \in Nat /\ Byte > 2 /\ i \in Nat /\ i < Byte * Byte
  BY RaftStoreAssumption DEF Indices
<1>2. i = q * Byte + r /\ r \in 0 .. (Byte - 1) /\ q \in Int
  BY <1>1
<1>3. q >= 0
  BY <1>1, <1>2
<1>4. q < Byte
  <2>1. ASSUME q >= Byte PROVE FALSE
    <3> HIDE DEF q, r
    <3>1. q * Byte >= Byte * Byte
      BY <1>1, <1>2, <2>1
    <3> QED BY <1>1, <1>2, <3>1
  <2> QED BY <2>1, <1>1, <1>2
<1> QED BY <1>1, <1>2, <1>3, <1>4

\* A key made of two bytes has an index.
LEMMA IndexInRange ==
    ASSUME NEW q \in 0 .. (Byte - 1), NEW r \in 0 .. (Byte - 1)
    PROVE  /\ q * Byte + r \in Indices
           /\ (q * Byte + r) \div Byte = q
           /\ (q * Byte + r) % Byte = r
<1>1. Byte \in Nat /\ Byte > 2 /\ q \in Nat /\ r \in Nat /\ q <= Byte - 1 /\ r < Byte
  BY RaftStoreAssumption
<1>2. q * Byte <= (Byte - 1) * Byte
  BY <1>1
<1>3. (Byte - 1) * Byte = Byte * Byte - Byte
  BY <1>1
<1>4. q * Byte + r \in Indices
  BY <1>1, <1>2, <1>3 DEF Indices
<1> DEFINE i == q * Byte + r
<1>5. i \in Nat /\ i = (i \div Byte) * Byte + (i % Byte) /\ i % Byte \in 0 .. (Byte - 1)
      /\ i \div Byte \in Nat
  <2>1. i \in Indices
    BY <1>4
  <2> HIDE DEF i
  <2> QED BY <2>1, Bytes, <1>1 DEF Indices
<1>6. i \div Byte = q
  <2> DEFINE p == i \div Byte
             s == i % Byte
  <2>0. q * Byte + r = p * Byte + s /\ s \in 0 .. (Byte - 1) /\ p \in Nat
    BY <1>5
  <2> HIDE DEF p, s, i
  <2>1. ASSUME p < q PROVE FALSE
    <3>1. (p + 1) * Byte <= q * Byte
      BY <2>1, <1>1, <2>0
    <3>2. (p + 1) * Byte = p * Byte + Byte
      BY <1>1, <2>0
    <3> QED BY <3>1, <3>2, <2>0, <1>1
  <2>2. ASSUME q < p PROVE FALSE
    <3>1. (q + 1) * Byte <= p * Byte
      BY <2>2, <1>1, <2>0
    <3>2. (q + 1) * Byte = q * Byte + Byte
      BY <1>1, <2>0
    <3> QED BY <3>1, <3>2, <2>0, <1>1
  <2>3. p = q
    BY <2>1, <2>2, <2>0, <1>1
  <2> QED BY <2>3 DEF p, i
<1>7. i % Byte = r
  BY <1>5, <1>6, <1>1
<1> QED BY <1>4, <1>6, <1>7

\* Encoding an index and decoding a key are inverse.
LEMMA Coding ==
    /\ \A i \in Indices : logKey(i) \in LogKeys /\ indexOf(logKey(i)) = i
    /\ \A k \in LogKeys : indexOf(k) \in Indices /\ logKey(indexOf(k)) = k
<1>1. ASSUME NEW i \in Indices PROVE logKey(i) \in LogKeys /\ indexOf(logKey(i)) = i
  BY Bytes DEF logKey, indexOf, LogKeys
<1>2. ASSUME NEW k \in LogKeys PROVE indexOf(k) \in Indices /\ logKey(indexOf(k)) = k
  <2>1. PICK q \in 0 .. (Byte - 1), r \in 0 .. (Byte - 1) : k = <<PrefixL, q, r>>
    BY DEF LogKeys
  <2>2. indexOf(k) = q * Byte + r
    BY <2>1 DEF indexOf
  <2>3. logKey(indexOf(k)) = <<PrefixL, q, r>>
    BY <2>2, IndexInRange DEF logKey
  <2> QED BY <2>1, <2>2, <2>3, IndexInRange
<1> QED BY <1>1, <1>2

\* Big-endian keys sort as their indices do.
LEMMA Order ==
    ASSUME NEW i \in Indices, NEW j \in Indices, i <= j
    PROVE  LessEq(logKey(i), logKey(j))
<1> DEFINE p == i \div Byte
           r == i % Byte
           q == j \div Byte
           s == j % Byte
<1>1. /\ i = p * Byte + r /\ j = q * Byte + s /\ Byte \in Nat
      /\ p \in Nat /\ q \in Nat /\ r \in 0 .. (Byte - 1) /\ s \in 0 .. (Byte - 1)
  BY Bytes, RaftStoreAssumption
<1>2. p < q \/ (p = q /\ r <= s)
  <2> HIDE DEF p, q, r, s
  <2>1. ASSUME q < p PROVE FALSE
    <3>1. (q + 1) * Byte <= p * Byte
      BY <2>1, <1>1
    <3>2. (q + 1) * Byte = q * Byte + Byte
      BY <1>1
    <3> QED BY <3>1, <3>2, <1>1
  <2>2. ASSUME p = q PROVE r <= s
    BY <2>2, <1>1
  <2> QED BY <2>1, <2>2, <1>1
<1> QED BY <1>1, <1>2 DEF LessEq, logKey

\* LessEq is antisymmetric on keys.
LEMMA Antisymmetric ==
    ASSUME NEW j \in Int \X Int \X Int, NEW k \in Int \X Int \X Int,
           LessEq(j, k), LessEq(k, j)
    PROVE  j = k
BY DEF LessEq

\* The keys of the log are those with its prefix, and no two kinds meet.
LEMMA KeyKinds ==
    /\ AllKeys \subseteq Int \X Int \X Int
    /\ \A k \in AllKeys : k[1] = PrefixL <=> k \in LogKeys
    /\ LogKeys \subseteq AllKeys /\ StableKeys \subseteq AllKeys
    /\ Others \subseteq AllKeys
    /\ Others \cap (LogKeys \cup StableKeys) = {}
    /\ \A name \in StableNames : stableKey(name) \in StableKeys
    /\ \A m, n \in StableNames : stableKey(m) = stableKey(n) => m = n
    /\ \A k \in LogKeys : k[1] = PrefixL
<1>1. Byte \in Int /\ Byte > 2
  BY RaftStoreAssumption
<1>2. StableKeys = {<<PrefixS, 0, 1>>, <<PrefixS, 1, 1>>, <<PrefixS, 2, 1>>}
  BY DEF StableKeys, stableKey, StableNames
<1>3. Others \subseteq Int \X Int \X Int
  BY RaftStoreAssumption, <1>1 DEF PrefixK, PrefixS, PrefixT
<1>4. \A k \in Others : k[1] # PrefixL /\ (k[1] = PrefixS => k[3] = 0)
  BY RaftStoreAssumption, <1>1 DEF PrefixK, PrefixS, PrefixT, PrefixL
<1>5. \A k \in LogKeys : k[1] = PrefixL /\ k \in Int \X Int \X Int
  BY <1>1 DEF LogKeys, PrefixL
<1>6. \A k \in StableKeys : k[1] = PrefixS /\ k[3] = 1 /\ k \in Int \X Int \X Int
  BY <1>2 DEF PrefixS
<1>7. \A m, n \in StableNames : stableKey(m) = stableKey(n) => m = n
  BY DEF stableKey, StableNames
<1>8. PrefixS # PrefixL
  BY DEF PrefixS, PrefixL
<1>9. \A name \in StableNames : stableKey(name) \in StableKeys
  BY DEF StableKeys
<1> QED BY <1>3, <1>4, <1>5, <1>6, <1>7, <1>8, <1>9 DEF AllKeys

\* A set of indices has a least and a greatest element.
LEMMA Extremes ==
    ASSUME NEW S \in SUBSET (1 .. MaxIndex), S # {}
    PROVE  \E lo, hi \in S : \A i \in S : lo <= i /\ i <= hi
<1>0. MaxIndex \in Nat
  BY RaftStoreAssumption
<1>1. \A R \in SUBSET Nat : R # {} => \E m \in R : \A r \in R : m <= r
  <2> SUFFICES ASSUME NEW R \in SUBSET Nat, R # {}
               PROVE  \E m \in R : \A r \in R : m <= r
    OBVIOUS
  <2>1. PICK m \in R : \A r \in R : ~ (<<r, m>> \in OpToRel(<, Nat))
    BY WFMin, NatLessThanWellFounded
  <2>2. \A r \in R : ~ (r < m)
    BY <2>1 DEF OpToRel
  <2> QED BY <2>2
<1>2. S \in SUBSET Nat
  BY <1>0
<1>3. PICK lo \in S : \A i \in S : lo <= i
  BY <1>1, <1>2
<1> DEFINE R == {MaxIndex - i : i \in S}
<1>4. R \in SUBSET Nat /\ R # {}
  BY <1>0
<1>5. PICK r \in R : \A x \in R : r <= x
  BY <1>1, <1>4
<1>6. PICK hi \in S : r = MaxIndex - hi
  OBVIOUS
<1>7. \A i \in S : MaxIndex - hi <= MaxIndex - i
  BY <1>5, <1>6
<1>8. \A i \in S : i <= hi
  BY <1>0, <1>7
<1> QED BY <1>3, <1>8

\* FirstIndex and LastIndex are the bounds of the stored indices, whatever
\* other keys the database holds.
LEMMA Ends ==
    ASSUME NEW d, Stored(d) \subseteq 1 .. MaxIndex
    PROVE  \/ Stored(d) = {} /\ FirstIndex(d) = 0 /\ LastIndex(d) = 0
           \/ /\ FirstIndex(d) \in Stored(d) /\ LastIndex(d) \in Stored(d)
              /\ Stored(d) \subseteq FirstIndex(d) .. LastIndex(d)
<1> DEFINE from == {k \in Present(d) : k[1] >= PrefixL}
           least == {k \in from : \A j \in from : LessEq(k, j)}
           to == {k \in Present(d) : k[1] < PrefixL + 1}
           greatest == {k \in to : \A j \in to : LessEq(j, k)}
<1>0. MaxIndex \in Nat /\ MaxIndex < Byte * Byte /\ Byte \in Nat
      /\ Nil \notin Int \X Int \X Int
  BY RaftStoreAssumption
<1>1. /\ from \subseteq Int \X Int \X Int /\ to \subseteq Int \X Int \X Int
      /\ from \subseteq AllKeys /\ to \subseteq AllKeys
  BY KeyKinds DEF Present
<1>2. \A k \in Present(d) : k[1] = PrefixL =>
         k \in LogKeys /\ indexOf(k) \in Stored(d) /\ k = logKey(indexOf(k))
  <2> SUFFICES ASSUME NEW k \in Present(d), k[1] = PrefixL
               PROVE  k \in LogKeys /\ indexOf(k) \in Stored(d) /\ k = logKey(indexOf(k))
    OBVIOUS
  <2>1. k \in LogKeys /\ d[k] # Nil
    BY KeyKinds DEF Present
  <2>2. indexOf(k) \in Indices /\ logKey(indexOf(k)) = k
    BY <2>1, Coding
  <2>3. indexOf(k) \in Stored(d)
    BY <2>1, <2>2 DEF Stored, GetLog
  <2> QED BY <2>1, <2>2, <2>3
<1>3. CASE Stored(d) = {}
  <2>1. \A k \in Present(d) : k[1] # PrefixL
    BY <1>2, <1>3
  <2>2. ~ValidForPrefix(Seek(d, PrefixL), PrefixL)
    <3>1. Seek(d, PrefixL) = IF least = {} THEN Nil ELSE CHOOSE k \in least : TRUE
      BY DEF Seek
    <3>2. Seek(d, PrefixL) = Nil \/ Seek(d, PrefixL) \in Present(d)
      <4> HIDE DEF from
      <4>1. least # {} => (CHOOSE k \in least : TRUE) \in from
        OBVIOUS
      <4> QED BY <3>1, <4>1 DEF from
    <3> QED BY <3>2, <2>1 DEF ValidForPrefix
  <2>3. ~ValidForPrefix(SeekReverse(d, PrefixL + 1), PrefixL)
    <3>1. SeekReverse(d, PrefixL + 1) =
             IF greatest = {} THEN Nil ELSE CHOOSE k \in greatest : TRUE
      BY DEF SeekReverse
    <3>2. SeekReverse(d, PrefixL + 1) = Nil \/ SeekReverse(d, PrefixL + 1) \in Present(d)
      <4> HIDE DEF to
      <4>1. greatest # {} => (CHOOSE k \in greatest : TRUE) \in to
        OBVIOUS
      <4> QED BY <3>1, <4>1 DEF to
    <3> QED BY <3>2, <2>1 DEF ValidForPrefix
  <2> QED BY <2>2, <2>3, <1>3 DEF FirstIndex, LastIndex
<1>4. CASE Stored(d) # {}
  <2>0. PICK lo \in Stored(d), hi \in Stored(d) :
           \A i \in Stored(d) : lo <= i /\ i <= hi
    BY <1>4, Extremes
  <2>1. /\ lo \in Indices /\ hi \in Indices
        /\ d[logKey(lo)] # Nil /\ d[logKey(hi)] # Nil
    BY DEF Stored, GetLog
  <2>2. /\ logKey(lo) \in Present(d) /\ logKey(lo)[1] = PrefixL
        /\ logKey(hi) \in Present(d) /\ logKey(hi)[1] = PrefixL
    BY <2>1, Coding, KeyKinds DEF Present
  <2>3. logKey(lo) \in from /\ logKey(hi) \in to
    BY <2>2 DEF PrefixL
  <2>4. \A j \in from : LessEq(logKey(lo), j)
    <3> SUFFICES ASSUME NEW j \in from PROVE LessEq(logKey(lo), j)
      OBVIOUS
    <3>1. CASE j[1] = PrefixL
      BY <3>1, <1>2, <2>0, <2>1, Order, Coding DEF Stored
    <3>2. CASE j[1] # PrefixL
      BY <3>2, <1>1, <2>2 DEF LessEq, PrefixL
    <3> QED BY <3>1, <3>2
  <2>5. \A j \in to : LessEq(j, logKey(hi))
    <3> SUFFICES ASSUME NEW j \in to PROVE LessEq(j, logKey(hi))
      OBVIOUS
    <3>1. CASE j[1] = PrefixL
      BY <3>1, <1>2, <2>0, <2>1, Order, Coding DEF Stored
    <3>2. CASE j[1] # PrefixL
      BY <3>2, <1>1, <2>2 DEF LessEq, PrefixL
    <3> QED BY <3>1, <3>2
  <2> HIDE DEF from, to
  <2>6. logKey(lo) \in least /\ \A k \in least : k = logKey(lo)
    BY <2>3, <2>4, <1>1, Antisymmetric
  <2>7. logKey(hi) \in greatest /\ \A k \in greatest : k = logKey(hi)
    BY <2>3, <2>5, <1>1, Antisymmetric
  <2>8. Seek(d, PrefixL) = logKey(lo)
    <3>1. Seek(d, PrefixL) = IF least = {} THEN Nil ELSE CHOOSE k \in least : TRUE
      BY DEF Seek, from
    <3> HIDE DEF least
    <3> QED BY <3>1, <2>6
  <2>9. SeekReverse(d, PrefixL + 1) = logKey(hi)
    <3>1. SeekReverse(d, PrefixL + 1) =
             IF greatest = {} THEN Nil ELSE CHOOSE k \in greatest : TRUE
      BY DEF SeekReverse, to
    <3> HIDE DEF greatest
    <3> QED BY <3>1, <2>7
  <2>10. logKey(lo) # Nil /\ logKey(hi) # Nil
    BY <2>3, <1>1, <1>0
  <2>11. FirstIndex(d) = lo /\ LastIndex(d) = hi
    BY <2>1, <2>2, <2>8, <2>9, <2>10, Coding DEF FirstIndex, LastIndex, ValidForPrefix
  <2> QED BY <1>0, <2>0, <2>11
<1> QED BY <1>3, <1>4

\* A window has the bounds it shows.
LEMMA WindowEnds ==
    ASSUME NEW d, NEW lo \in 1 .. (MaxIndex + 1), NEW hi \in 0 .. MaxIndex,
           Stored(d) = lo .. hi
    PROVE  /\ FirstIndex(d) = IF lo <= hi THEN lo ELSE 0
           /\ LastIndex(d) = IF lo <= hi THEN hi ELSE 0
<1>0. MaxIndex \in Nat /\ Stored(d) \subseteq 1 .. MaxIndex
  BY RaftStoreAssumption
<1>1. CASE lo <= hi
  <2>1. lo \in Stored(d) /\ hi \in Stored(d)
    BY <1>0, <1>1
  <2>2. /\ FirstIndex(d) \in lo .. hi /\ LastIndex(d) \in lo .. hi
        /\ lo \in FirstIndex(d) .. LastIndex(d) /\ hi \in FirstIndex(d) .. LastIndex(d)
    BY <1>0, <2>1, Ends
  <2> QED BY <1>0, <1>1, <2>2
<1>2. CASE lo > hi
  <2>1. Stored(d) = {}
    BY <1>0, <1>2
  <2> QED BY <1>0, <1>2, <2>1, Ends
<1> QED BY <1>0, <1>1, <1>2

(***************************************************************************)
(* What the transactions do to the log and to the stable keys.             *)
(***************************************************************************)
LEMMA StoreEffect ==
    ASSUME NEW d, NEW lo \in Int, NEW hi \in Int, NEW t \in Terms,
           lo .. hi \subseteq Indices
    PROVE  LET e == StoreLogs(d, lo, hi, t)
           IN  /\ DOMAIN e = AllKeys
               /\ \A k \in AllKeys \ LogKeys : e[k] = d[k]
               /\ \A i \in Indices : GetLog(e, i) =
                     IF i \in lo .. hi THEN [index |-> i, term |-> t] ELSE GetLog(d, i)
               /\ Stored(e) = Stored(d) \cup (lo .. hi)
<1> DEFINE e == StoreLogs(d, lo, hi, t)
<1>1. DOMAIN e = AllKeys
  BY DEF StoreLogs
<1>2. ASSUME NEW k \in AllKeys \ LogKeys PROVE e[k] = d[k]
  BY Coding DEF StoreLogs
<1>3. ASSUME NEW i \in Indices
      PROVE  GetLog(e, i) = IF i \in lo .. hi THEN [index |-> i, term |-> t]
                            ELSE GetLog(d, i)
  <2>1. logKey(i) \in AllKeys
    BY Coding, KeyKinds
  <2>2. \A j \in lo .. hi : logKey(i) = logKey(j) => i = j
    BY Coding
  <2>3. i \in lo .. hi => (CHOOSE j \in lo .. hi : logKey(i) = logKey(j)) = i
    BY <2>2
  <2> QED BY <2>1, <2>2, <2>3 DEF StoreLogs, GetLog
<1>4. [index |-> 0, term |-> t] # Nil /\ \A i \in Indices : [index |-> i, term |-> t] # Nil
  BY RaftStoreAssumption DEF Indices
<1>5. Stored(e) = Stored(d) \cup (lo .. hi)
  <2> HIDE DEF e
  <2> QED BY <1>3, <1>4 DEF Stored
<1> QED BY <1>1, <1>2, <1>3, <1>5

LEMMA DeleteEffect ==
    ASSUME NEW d, NEW min \in Int, NEW max \in Int, min .. max \subseteq Indices
    PROVE  LET e == DeleteRange(d, min, max)
           IN  /\ DOMAIN e = AllKeys
               /\ \A k \in AllKeys \ LogKeys : e[k] = d[k]
               /\ \A i \in Indices : GetLog(e, i) =
                     IF i \in min .. max THEN Nil ELSE GetLog(d, i)
               /\ Stored(e) = Stored(d) \ (min .. max)
<1> DEFINE e == DeleteRange(d, min, max)
<1>1. DOMAIN e = AllKeys
  BY DEF DeleteRange
<1>2. ASSUME NEW k \in AllKeys \ LogKeys PROVE e[k] = d[k]
  BY Coding DEF DeleteRange
<1>3. ASSUME NEW i \in Indices
      PROVE  GetLog(e, i) = IF i \in min .. max THEN Nil ELSE GetLog(d, i)
  <2>1. logKey(i) \in AllKeys
    BY Coding, KeyKinds
  <2>2. \A j \in min .. max : logKey(i) = logKey(j) => i = j
    BY Coding
  <2> QED BY <2>1, <2>2 DEF DeleteRange, GetLog
<1>4. Stored(e) = Stored(d) \ (min .. max)
  <2> HIDE DEF e
  <2> QED BY <1>3 DEF Stored
<1> QED BY <1>1, <1>2, <1>3, <1>4

\* A write to any key but the log's leaves the log as it is.
LEMMA OtherEffect ==
    ASSUME NEW d, NEW e, \A k \in LogKeys : e[k] = d[k]
    PROVE  /\ \A i \in Indices : GetLog(e, i) = GetLog(d, i)
           /\ Stored(e) = Stored(d)
BY Coding DEF GetLog, Stored

\* The stable keys are not touched by a write to the log or to the data.
LEMMA StableApart ==
    ASSUME NEW d, NEW e,
           \/ \A k \in AllKeys \ LogKeys : e[k] = d[k]
           \/ \A k \in AllKeys \ Others : e[k] = d[k]
    PROVE  \A name \in StableNames : Get(e, name) = Get(d, name)
<1>1. ASSUME NEW name \in StableNames
      PROVE  /\ stableKey(name) \in AllKeys \ LogKeys
             /\ stableKey(name) \in AllKeys \ Others
  <2>1. stableKey(name) \in StableKeys
    BY KeyKinds
  <2>2. \A k \in StableKeys : k[1] = PrefixS
    BY DEF StableKeys, stableKey, StableNames
  <2> QED BY <2>1, <2>2, KeyKinds DEF PrefixS, PrefixL
<1> QED BY <1>1 DEF Get

(***************************************************************************)
(* The parts of the invariant under the steps that do not concern them.    *)
(***************************************************************************)
LEMMA TypeByParts ==
    ASSUME TypeOK, DOMAIN kv' = AllKeys,
           \A i \in Indices : GetLog(kv', i) = Nil
               \/ GetLog(kv', i) = GetLog(kv, i)
               \/ GetLog(kv', i) \in [index : {i}, term : Terms],
           \A k \in Others : kv'[k] \in {Nil, Data},
           \A name \in StableNames : Get(kv', name) \in
              {Nil} \cup IF name = "LastVoteCand" THEN Candidates ELSE Terms,
           up' \in BOOLEAN, lastLog' \in 0 .. MaxIndex, commit' \in 0 .. MaxIndex,
           granted' \subseteq Terms \X Candidates, torn' \in BOOLEAN
    PROVE  TypeOK'
<1>1. ASSUME NEW k \in LogKeys
      PROVE  kv'[k] = Nil \/ kv'[k] \in [index : {indexOf(k)}, term : Terms]
  <2>1. indexOf(k) \in Indices /\ logKey(indexOf(k)) = k
    BY Coding
  <2>2. kv[k] = Nil \/ kv[k] \in [index : {indexOf(k)}, term : Terms]
    BY DEF TypeOK
  <2> QED BY <2>1, <2>2 DEF GetLog
<1> QED BY <1>1 DEF TypeOK, Get

LEMMA VotesKept ==
    ASSUME VotesRecorded, granted' = granted,
           \A name \in StableNames : Get(kv', name) = Get(kv, name),
           main' = main \/ main'.pc \in {"idle", "conflict"}
    PROVE  VotesRecorded'
<1>1. \A name \in StableNames : GetUint64(kv', name) = GetUint64(kv, name)
  BY DEF GetUint64
<1>2. "CurrentTerm" \in StableNames /\ "LastVoteTerm" \in StableNames
      /\ "LastVoteCand" \in StableNames
  BY DEF StableNames
<1> QED BY <1>1, <1>2 DEF VotesRecorded

LEMMA LogKept ==
    ASSUME Bounded, LogIsWindow, Stored(kv') = Stored(kv),
           lastLog' = lastLog, commit' = commit, up' = up, snap' = snap, torn' = torn,
           main' = main \/ (main.pc # "conflict" /\ main'.pc # "conflict")
    PROVE  Bounded' /\ LogIsWindow'
<1>1. Bounded'
  BY DEF Bounded
<1>2. CASE torn
  BY <1>1, <1>2, Zenon DEF LogIsWindow
<1>3. CASE ~torn
  <2>1. PICK lo \in 1 .. (MaxIndex + 1) : LogFrom(lo)
    BY <1>3 DEF LogIsWindow
  <2>2. LogFrom(lo)'
    BY <2>1 DEF LogFrom
  <2> QED BY <1>1, <2>2 DEF LogIsWindow
<1> QED BY <1>1, <1>2, <1>3

(***************************************************************************)
(* The inductive invariant.                                                *)
(***************************************************************************)
LEMMA InitInv == Init => IInv
<1> SUFFICES ASSUME Init PROVE IInv
  OBVIOUS
<1>0. MaxIndex \in Nat
  BY RaftStoreAssumption
<1>1. \A k \in AllKeys : kv[k] = Nil
  BY DEF Init
<1>2. /\ \A k \in LogKeys : kv[k] = Nil
      /\ \A k \in Others : kv[k] = Nil
      /\ \A name \in StableNames : Get(kv, name) = Nil
  BY <1>1, KeyKinds DEF Get
<1>3. Stored(kv) = {}
  BY <1>2, Coding DEF Stored, GetLog
<1>4. TypeOK
  <2>1. torn \in BOOLEAN
    BY Zenon DEF Init
  <2> QED BY <1>0, <1>2, <2>1 DEF Init, TypeOK
<1>5. PcOK
  BY DEF Init, PcOK
<1>6. Bounded /\ LogIsWindow
  <2>1. LogFrom(1) /\ Bounded
    BY <1>0, <1>3 DEF LogFrom, Bounded, Init, Idle
  <2> QED BY <2>1, <1>0 DEF LogIsWindow
<1>7. VotesRecorded
  BY <1>2 DEF VotesRecorded, Init, Idle, GetUint64, StableNames
<1> QED BY <1>4, <1>5, <1>6, <1>7 DEF IInv

LEMMA AppendInv ==
    ASSUME IInv, NEW n \in 1 .. MaxIndex, NEW t \in Terms, AppendEntries(n, t)
    PROVE  IInv'
<1>0. /\ MaxIndex \in Nat /\ MaxIndex < Byte * Byte /\ Byte \in Nat
      /\ lastLog \in 0 .. MaxIndex /\ n \in Nat /\ n > 0 /\ commit \in 0 .. MaxIndex
  BY RaftStoreAssumption DEF IInv, TypeOK
<1>1. (lastLog + 1) .. (lastLog + n) \subseteq Indices
  BY <1>0 DEF AppendEntries, Indices
<1>2. kv' = StoreLogs(kv, lastLog + 1, lastLog + n, t)
  BY DEF AppendEntries
<1>3. /\ DOMAIN kv' = AllKeys
      /\ \A k \in AllKeys \ LogKeys : kv'[k] = kv[k]
      /\ \A i \in Indices : GetLog(kv', i) =
            IF i \in (lastLog + 1) .. (lastLog + n)
            THEN [index |-> i, term |-> t] ELSE GetLog(kv, i)
      /\ Stored(kv') = Stored(kv) \cup ((lastLog + 1) .. (lastLog + n))
  BY <1>0, <1>1, <1>2, StoreEffect
<1>4. \A name \in StableNames : Get(kv', name) = Get(kv, name)
  BY <1>3, StableApart
<1>5. TypeOK'
  <2>1. \A k \in Others : kv'[k] = kv[k]
    BY <1>3, KeyKinds
  <2>3. \A j \in Indices : GetLog(kv', j) = Nil
               \/ GetLog(kv', j) = GetLog(kv, j)
               \/ GetLog(kv', j) \in [index : {j}, term : Terms]
    BY <1>3
  <2>4. /\ \A k \in Others : kv'[k] \in {Nil, Data}
        /\ \A name \in StableNames : Get(kv', name) \in
              {Nil} \cup IF name = "LastVoteCand" THEN Candidates ELSE Terms
    BY <1>4, <2>1 DEF IInv, TypeOK
  <2>5. /\ up' \in BOOLEAN /\ lastLog' \in 0 .. MaxIndex /\ commit' \in 0 .. MaxIndex
        /\ granted' \subseteq Terms \X Candidates /\ torn' \in BOOLEAN
    BY <1>0 DEF IInv, TypeOK, AppendEntries
  <2>6. TypeOK
    BY DEF IInv
  <2> QED BY <1>3, <2>3, <2>4, <2>5, <2>6, TypeByParts
<1>6. PcOK'
  BY DEF IInv, PcOK, AppendEntries
<1>7. Bounded'
  <2>1. up /\ up' /\ main.pc = "idle" /\ main' = main /\ snap' = snap /\ commit' = commit
        /\ lastLog' = lastLog + n
    BY DEF AppendEntries, Idle
  <2>2. Stored(kv) \subseteq 1 .. lastLog
    BY <2>1 DEF IInv, Bounded
  <2>3. Stored(kv') \subseteq 1 .. (lastLog + n) /\ lastLog + n <= MaxIndex
    BY <1>0, <1>3, <2>2 DEF AppendEntries
  <2>4. snap.pc = "delete" =>
           /\ snap.min \in Int /\ snap.max \in Int
           /\ snap.min <= snap.max /\ snap.max <= commit /\ snap.max < lastLog
           /\ \A i \in Stored(kv) : snap.min <= i
    BY <1>0 DEF IInv, Bounded, PcOK, Idle, Indices
  <2> QED BY <1>0, <1>3, <2>1, <2>2, <2>3, <2>4 DEF Bounded
<1>9. LogIsWindow'
  <2> SUFFICES ASSUME ~torn PROVE LogIsWindow'
    BY DEF LogIsWindow, AppendEntries
  <2>1. PICK lo \in 1 .. (MaxIndex + 1) : LogFrom(lo)
    BY DEF IInv, LogIsWindow
  <2>2. up /\ main.pc = "idle" /\ main' = main
    BY DEF AppendEntries, Idle
  <2>3. /\ Stored(kv) = lo .. lastLog
        /\ lo <= lastLog \/ (lo = 1 /\ lastLog = 0)
    BY <2>1, <2>2 DEF LogFrom
  <2>4. Stored(kv') = lo .. (lastLog + n)
    BY <1>0, <1>3, <2>3
  <2>5. LogFrom(lo)'
    BY <1>0, <2>1, <2>2, <2>3, <2>4 DEF LogFrom, AppendEntries
  <2> QED BY <2>5 DEF LogIsWindow
<1>8. VotesRecorded'
  BY <1>4, VotesKept DEF IInv, AppendEntries
<1> QED BY <1>5, <1>6, <1>7, <1>8, <1>9 DEF IInv

LEMMA TruncateInv ==
    ASSUME IInv, NEW i \in 1 .. MaxIndex, Truncate(i)
    PROVE  IInv'
<1>0. /\ MaxIndex \in Nat /\ MaxIndex < Byte * Byte /\ Byte \in Nat
      /\ lastLog \in 0 .. MaxIndex /\ commit \in 0 .. MaxIndex
      /\ commit < i /\ i <= lastLog
  BY RaftStoreAssumption DEF IInv, TypeOK, Truncate
<1>1. i .. lastLog \subseteq Indices
  BY <1>0 DEF Indices
<1>2. kv' = DeleteRange(kv, i, lastLog)
  BY DEF Truncate
<1>3. /\ DOMAIN kv' = AllKeys
      /\ \A k \in AllKeys \ LogKeys : kv'[k] = kv[k]
      /\ \A j \in Indices : GetLog(kv', j) =
            IF j \in i .. lastLog THEN Nil ELSE GetLog(kv, j)
      /\ Stored(kv') = Stored(kv) \ (i .. lastLog)
  BY <1>0, <1>1, <1>2, DeleteEffect
<1>4. \A name \in StableNames : Get(kv', name) = Get(kv, name)
  BY <1>3, StableApart
<1>5. TypeOK'
  <2>1. \A k \in Others : kv'[k] = kv[k]
    BY <1>3, KeyKinds
  <2>3. \A j \in Indices : GetLog(kv', j) = Nil
               \/ GetLog(kv', j) = GetLog(kv, j)
               \/ GetLog(kv', j) \in [index : {j}, term : Terms]
    BY <1>3
  <2>4. /\ \A k \in Others : kv'[k] \in {Nil, Data}
        /\ \A name \in StableNames : Get(kv', name) \in
              {Nil} \cup IF name = "LastVoteCand" THEN Candidates ELSE Terms
    BY <1>4, <2>1 DEF IInv, TypeOK
  <2>5. /\ up' \in BOOLEAN /\ lastLog' \in 0 .. MaxIndex /\ commit' \in 0 .. MaxIndex
        /\ granted' \subseteq Terms \X Candidates /\ torn' \in BOOLEAN
    BY <1>0 DEF IInv, TypeOK, Truncate
  <2>6. TypeOK
    BY DEF IInv
  <2> QED BY <1>3, <2>3, <2>4, <2>5, <2>6, TypeByParts
<1>6. PcOK'
  BY DEF IInv, PcOK, Truncate
<1>a. /\ up /\ up' /\ main.pc = "idle" /\ main'.pc = "conflict" /\ main'.at = i
      /\ lastLog' = lastLog /\ commit' = commit /\ snap' = snap /\ torn' = torn
  BY DEF Truncate, Idle
<1>7. Bounded'
  <2>1. Stored(kv) \subseteq 1 .. lastLog
    BY <1>a DEF IInv, Bounded
  <2>2. Stored(kv') \subseteq 1 .. (i - 1) /\ Stored(kv') \subseteq Stored(kv)
    BY <1>0, <1>3, <2>1
  <2> QED BY <1>0, <1>a, <2>1, <2>2 DEF IInv, Bounded
<1>9. LogIsWindow'
  <2> SUFFICES ASSUME ~torn PROVE LogIsWindow'
    BY <1>a DEF LogIsWindow
  <2>1. PICK lo \in 1 .. (MaxIndex + 1) : LogFrom(lo)
    BY DEF IInv, LogIsWindow
  <2>3. Stored(kv) = lo .. lastLog /\ lo <= commit + 1
    BY <1>a, <2>1 DEF LogFrom
  <2>4. Stored(kv') = lo .. (i - 1)
    BY <1>0, <1>3, <2>3
  <2>5. LogFrom(lo)'
    BY <1>0, <1>a, <2>1, <2>3, <2>4 DEF LogFrom
  <2> QED BY <2>5 DEF LogIsWindow
<1>8. VotesRecorded'
  BY <1>4, VotesKept DEF IInv, Truncate
<1> QED BY <1>5, <1>6, <1>7, <1>8, <1>9 DEF IInv

LEMMA OverwriteInv ==
    ASSUME IInv, NEW n \in 1 .. MaxIndex, NEW t \in Terms, Overwrite(n, t)
    PROVE  IInv'
<1> DEFINE i == main.at
           hi == main.at + n - 1
<1>0. /\ MaxIndex \in Nat /\ MaxIndex < Byte * Byte /\ Byte \in Nat
      /\ lastLog \in 0 .. MaxIndex /\ n \in Nat /\ n > 0 /\ commit \in 0 .. MaxIndex
      /\ main.pc = "conflict" /\ up /\ i \in 1 .. MaxIndex /\ hi <= MaxIndex
  BY RaftStoreAssumption DEF IInv, TypeOK, Overwrite, PcOK, Idle
<1>1. i .. hi \subseteq Indices /\ hi \in Int
  BY <1>0 DEF Indices
<1>2. kv' = StoreLogs(kv, i, hi, t)
  BY DEF Overwrite
<1>3. /\ DOMAIN kv' = AllKeys
      /\ \A k \in AllKeys \ LogKeys : kv'[k] = kv[k]
      /\ \A j \in Indices : GetLog(kv', j) =
            IF j \in i .. hi THEN [index |-> j, term |-> t] ELSE GetLog(kv, j)
      /\ Stored(kv') = Stored(kv) \cup (i .. hi)
  <2> HIDE DEF i, hi
  <2> QED BY <1>0, <1>1, <1>2, StoreEffect
<1>4. \A name \in StableNames : Get(kv', name) = Get(kv, name)
  BY <1>3, StableApart
<1>5. TypeOK'
  <2>1. \A k \in Others : kv'[k] = kv[k]
    BY <1>3, KeyKinds
  <2>2. lastLog' \in 0 .. MaxIndex
    BY <1>0 DEF Overwrite
  <2> HIDE DEF i, hi
  <2>3. \A j \in Indices : GetLog(kv', j) = Nil
               \/ GetLog(kv', j) = GetLog(kv, j)
               \/ GetLog(kv', j) \in [index : {j}, term : Terms]
    BY <1>3
  <2>4. /\ \A k \in Others : kv'[k] \in {Nil, Data}
        /\ \A name \in StableNames : Get(kv', name) \in
              {Nil} \cup IF name = "LastVoteCand" THEN Candidates ELSE Terms
    BY <1>4, <2>1 DEF IInv, TypeOK
  <2>5. /\ up' \in BOOLEAN /\ lastLog' \in 0 .. MaxIndex /\ commit' \in 0 .. MaxIndex
        /\ granted' \subseteq Terms \X Candidates /\ torn' \in BOOLEAN
    BY <1>0, <2>2 DEF IInv, TypeOK, Overwrite
  <2>6. TypeOK
    BY DEF IInv
  <2> QED BY <1>3, <2>3, <2>4, <2>5, <2>6, TypeByParts
<1>6. PcOK'
  BY DEF IInv, PcOK, Overwrite
<1>a. /\ up' /\ main'.pc = "idle" /\ lastLog' = hi /\ commit' = commit /\ snap' = snap
      /\ torn' = torn /\ commit < i /\ Stored(kv) \subseteq 1 .. (i - 1)
  BY <1>0 DEF Overwrite, Idle, IInv, Bounded
<1>7. Bounded'
  <2>1. snap.pc = "delete" =>
           /\ snap.min \in Int /\ snap.max \in Int
           /\ snap.min <= snap.max /\ snap.max <= commit
           /\ \A j \in Stored(kv) : snap.min <= j
    BY <1>0 DEF IInv, Bounded, PcOK, Idle, Indices
  <2>2. Stored(kv') \subseteq 1 .. hi
    BY <1>0, <1>3, <1>a
  <2>3. hi \in Int /\ i <= hi
    BY <1>0
  <2> HIDE DEF i, hi
  <2>4. snap.pc = "delete" => snap.max < hi /\ \A j \in Stored(kv') : snap.min <= j
    BY <1>0, <1>3, <1>a, <2>1, <2>3
  <2> QED BY <1>0, <1>a, <2>1, <2>2, <2>3, <2>4 DEF Bounded
<1>9. LogIsWindow'
  <2> SUFFICES ASSUME ~torn PROVE LogIsWindow'
    BY <1>a DEF LogIsWindow
  <2>1. PICK lo \in 1 .. (MaxIndex + 1) : LogFrom(lo)
    BY DEF IInv, LogIsWindow
  <2>3. Stored(kv) = lo .. (i - 1) /\ lo <= commit + 1
    BY <2>1, <1>0 DEF LogFrom
  <2>4. Stored(kv') = lo .. hi /\ lo <= hi
    BY <1>0, <1>3, <1>a, <2>3
  <2>5. LogFrom(lo)'
    BY <1>0, <1>a, <2>1, <2>3, <2>4 DEF LogFrom
  <2> QED BY <2>5 DEF LogIsWindow
<1>8. VotesRecorded'
  BY <1>4, VotesKept DEF IInv, Overwrite, Idle
<1> QED BY <1>5, <1>6, <1>7, <1>8, <1>9 DEF IInv

LEMMA RefusedInv ==
    ASSUME IInv, Refused
    PROVE  IInv'
<1>1. /\ kv' = kv /\ up' = up /\ lastLog' = lastLog /\ commit' = commit
      /\ snap' = snap /\ granted' = granted /\ main' = Idle
      /\ torn' = (torn \/ main.pc = "conflict")
  BY DEF Refused
<1>2. TypeOK' /\ PcOK'
  BY <1>1 DEF IInv, TypeOK, PcOK, Get
<1>3. VotesRecorded'
  BY <1>1, VotesKept DEF IInv, Idle
<1>4. CASE main.pc = "conflict"
  <2>1. Bounded'
    BY <1>1, <1>4 DEF IInv, Bounded, Idle
  <2>2. LogIsWindow'
    BY <1>1, <1>4 DEF LogIsWindow
  <2> QED BY <1>2, <1>3, <2>1, <2>2 DEF IInv
<1>5. CASE main.pc # "conflict"
  <2>1. torn' = torn
    BY <1>1, <1>5 DEF IInv, TypeOK
  <2>2. Bounded' /\ LogIsWindow'
    BY <1>1, <1>5, <2>1, LogKept DEF IInv, Idle
  <2> QED BY <1>2, <1>3, <2>2 DEF IInv
<1> QED BY <1>4, <1>5

LEMMA CommitInv ==
    ASSUME IInv, NEW i \in 1 .. MaxIndex, Commit(i)
    PROVE  IInv'
<1>0. MaxIndex \in Nat /\ lastLog \in 0 .. MaxIndex /\ commit \in 0 .. MaxIndex
  BY RaftStoreAssumption DEF IInv, TypeOK
<1>1. TypeOK' /\ PcOK'
  BY <1>0 DEF IInv, TypeOK, PcOK, Commit, Get
<1>2. Bounded' /\ LogIsWindow'
  <2>1. /\ main.pc = "idle" /\ commit < i /\ main' = main /\ commit' = i
        /\ kv' = kv /\ up' = up /\ lastLog' = lastLog /\ snap' = snap /\ torn' = torn
    BY DEF Commit, Idle
  <2>2. snap.pc = "delete" => snap.max \in Int
    BY <1>0 DEF IInv, PcOK, Idle
  <2>3. Bounded'
    BY <1>0, <2>1, <2>2 DEF IInv, Bounded
  <2>4. CASE torn
    BY <2>1, <2>3, <2>4 DEF LogIsWindow
  <2>5. CASE ~torn
    <3>1. PICK lo \in 1 .. (MaxIndex + 1) : LogFrom(lo)
      BY <2>5 DEF IInv, LogIsWindow
    <3>2. LogFrom(lo)'
      BY <1>0, <2>1, <3>1 DEF LogFrom
    <3> QED BY <2>3, <3>2 DEF LogIsWindow
  <2> QED BY <2>4, <2>5
<1>3. VotesRecorded'
  BY VotesKept DEF IInv, Commit
<1> QED BY <1>1, <1>2, <1>3 DEF IInv

\* Setting a stable key changes neither the log nor another key.
LEMMA StableEffect ==
    ASSUME DOMAIN kv = AllKeys, NEW name \in StableNames, NEW v,
           kv' = SetStable(kv, name, v)
    PROVE  /\ DOMAIN kv' = AllKeys
           /\ \A k \in LogKeys \cup Others : kv'[k] = kv[k]
           /\ \A i \in Indices : GetLog(kv', i) = GetLog(kv, i)
           /\ Stored(kv') = Stored(kv)
           /\ Get(kv', name) = v
           /\ \A m \in StableNames \ {name} : Get(kv', m) = Get(kv, m)
<1>1. stableKey(name) \in StableKeys /\ stableKey(name) \in AllKeys
  BY KeyKinds
<1>2. \A k \in StableKeys : k[1] = PrefixS
  BY DEF StableKeys, stableKey, StableNames
<1>3. stableKey(name) \notin LogKeys \cup Others
  BY <1>1, <1>2, KeyKinds DEF PrefixS, PrefixL
<1>4. kv' = [kv EXCEPT ![stableKey(name)] = v]
  BY DEF SetStable
<1>5. DOMAIN kv' = AllKeys /\ Get(kv', name) = v
      /\ \A k \in LogKeys \cup Others : kv'[k] = kv[k]
  BY <1>1, <1>3, <1>4, KeyKinds DEF Get
<1>6. \A m \in StableNames \ {name} : Get(kv', m) = Get(kv, m)
  BY <1>1, <1>4, KeyKinds DEF Get
<1>7. \A k \in LogKeys : kv'[k] = kv[k]
  BY <1>5
<1>8. /\ \A i \in Indices : GetLog(kv', i) = GetLog(kv, i)
      /\ Stored(kv') = Stored(kv)
  BY <1>7, OtherEffect
<1> QED BY <1>5, <1>6, <1>8

\* Setting a stable key to a value of its type keeps the types.
LEMMA StableTyped ==
    ASSUME TypeOK, NEW name \in StableNames, NEW v,
           v \in IF name = "LastVoteCand" THEN Candidates ELSE Terms,
           kv' = SetStable(kv, name, v),
           up' = up, lastLog' = lastLog, commit' = commit, torn' = torn,
           granted' \subseteq Terms \X Candidates
    PROVE  TypeOK'
<1>1. DOMAIN kv = AllKeys
  BY DEF TypeOK
<1>2. /\ DOMAIN kv' = AllKeys
      /\ \A k \in LogKeys \cup Others : kv'[k] = kv[k]
      /\ \A i \in Indices : GetLog(kv', i) = GetLog(kv, i)
      /\ Get(kv', name) = v
      /\ \A m \in StableNames \ {name} : Get(kv', m) = Get(kv, m)
  BY <1>1, StableEffect
<1>3. \A k \in Others : kv'[k] \in {Nil, Data}
  BY <1>2 DEF TypeOK
<1>4. \A m \in StableNames : Get(kv', m) \in
         {Nil} \cup IF m = "LastVoteCand" THEN Candidates ELSE Terms
  BY <1>2 DEF TypeOK
<1>5. up' \in BOOLEAN /\ lastLog' \in 0 .. MaxIndex /\ commit' \in 0 .. MaxIndex
      /\ torn' \in BOOLEAN
  BY DEF TypeOK
<1> QED BY <1>2, <1>3, <1>4, <1>5, TypeByParts

LEMMA RequestVoteInv ==
    ASSUME IInv, NEW t \in Terms, NEW c \in Candidates, RequestVote(t, c)
    PROVE  IInv'
<1>0. DOMAIN kv = AllKeys /\ TypeOK /\ "CurrentTerm" \in StableNames
      /\ "LastVoteTerm" \in StableNames /\ "LastVoteCand" \in StableNames
  BY DEF IInv, TypeOK, StableNames
<1>1. kv' = SetStable(kv, "CurrentTerm", t) /\ main = Idle
      /\ up /\ t > GetUint64(kv, "CurrentTerm")
      /\ main' = [pc |-> "voteTerm", term |-> t, cand |-> c]
      /\ up' = up /\ lastLog' = lastLog /\ commit' = commit /\ snap' = snap
      /\ torn' = torn
      /\ granted' = granted
  BY DEF RequestVote
<1>2. /\ Stored(kv') = Stored(kv)
      /\ Get(kv', "CurrentTerm") = t
      /\ Get(kv', "LastVoteTerm") = Get(kv, "LastVoteTerm")
      /\ Get(kv', "LastVoteCand") = Get(kv, "LastVoteCand")
  BY <1>0, <1>1, StableEffect
<1>3. TypeOK'
  BY <1>0, <1>1, StableTyped DEF TypeOK
<1>4. PcOK'
  BY <1>1 DEF IInv, PcOK
<1>5. Bounded' /\ LogIsWindow'
  BY <1>1, <1>2, LogKept DEF IInv, Idle
<1>6. VotesRecorded'
  <2>1. t # Nil /\ t \in Int
    BY RaftStoreAssumption DEF Terms
  <2>2. /\ GetUint64(kv', "CurrentTerm") = t
        /\ GetUint64(kv', "LastVoteTerm") = GetUint64(kv, "LastVoteTerm")
    BY <1>2, <2>1 DEF GetUint64
  <2>3. GetUint64(kv, "LastVoteTerm") \in Int /\ GetUint64(kv, "CurrentTerm") \in Int
        /\ \A v \in granted : v[1] \in Int
    BY <1>0, RaftStoreAssumption DEF TypeOK, GetUint64, Terms
  <2>4. VotesRecorded
    BY DEF IInv
  <2> QED BY <1>1, <1>2, <2>1, <2>2, <2>3, <2>4 DEF VotesRecorded
<1> QED BY <1>3, <1>4, <1>5, <1>6 DEF IInv

LEMMA RequestVoteAgainInv ==
    ASSUME IInv, NEW c \in Candidates, RequestVoteAgain(c)
    PROVE  IInv'
<1> DEFINE t == GetUint64(kv, "CurrentTerm")
           w == GetUint64(kv, "LastVoteTerm")
<1>0. TypeOK /\ PcOK /\ VotesRecorded /\ "CurrentTerm" \in StableNames
      /\ "LastVoteTerm" \in StableNames /\ "LastVoteCand" \in StableNames
  BY DEF IInv, StableNames
<1>1. /\ main = Idle /\ up /\ t > 0
      /\ kv' = kv /\ up' = up /\ lastLog' = lastLog /\ commit' = commit /\ snap' = snap
      /\ torn' = torn
  BY DEF RequestVoteAgain
<1>2. t \in Terms /\ t \in Int /\ w \in Int /\ \A v \in granted : v[1] \in Int
  BY <1>0, <1>1, RaftStoreAssumption DEF TypeOK, GetUint64, Terms
<1>3. \/ /\ w = t /\ Get(kv, "LastVoteCand") = c /\ main' = main
         /\ granted' = granted \cup {<<t, c>>}
      \/ /\ ~(w = t /\ Get(kv, "LastVoteCand") # Nil)
         /\ main' = [pc |-> "voteTerm", term |-> t, cand |-> c] /\ granted' = granted
  BY DEF RequestVoteAgain
<1>4. TypeOK'
  <2>1. granted' \subseteq Terms \X Candidates
    BY <1>0, <1>2, <1>3 DEF TypeOK
  <2> QED BY <1>0, <1>1, <2>1 DEF TypeOK, Get
<1>5. PcOK'
  BY <1>0, <1>1, <1>2, <1>3 DEF PcOK
<1>6. Bounded' /\ LogIsWindow'
  BY <1>1, <1>3, LogKept DEF IInv, Idle
<1>7. VotesRecorded'
  <2>1. /\ GetUint64(kv', "CurrentTerm") = t /\ GetUint64(kv', "LastVoteTerm") = w
        /\ Get(kv', "LastVoteCand") = Get(kv, "LastVoteCand")
    BY <1>1
  <2>2. /\ w <= t
        /\ \A v \in granted : v[1] <= w /\ (v[1] = w => Get(kv, "LastVoteCand") = v[2])
    BY <1>0 DEF VotesRecorded
  <2>3. \A v \in granted : v[2] # Nil
    BY <1>0, RaftStoreAssumption DEF TypeOK
  <2> HIDE DEF t, w
  <2>4. CASE /\ w = t /\ Get(kv, "LastVoteCand") = c /\ main' = main
             /\ granted' = granted \cup {<<t, c>>}
    BY <2>1, <2>2, <2>4, <1>1, <1>2 DEF VotesRecorded, Idle
  <2>5. CASE /\ ~(w = t /\ Get(kv, "LastVoteCand") # Nil)
             /\ main' = [pc |-> "voteTerm", term |-> t, cand |-> c] /\ granted' = granted
    <3>1. \A v \in granted : v[1] # t
      BY <2>2, <2>3, <2>5, <1>2
    <3> QED BY <2>1, <2>2, <2>5, <3>1, <1>2 DEF VotesRecorded
  <2> QED BY <1>3, <2>4, <2>5
<1> QED BY <1>4, <1>5, <1>6, <1>7 DEF IInv

LEMMA PersistVoteTermInv ==
    ASSUME IInv, PersistVoteTerm
    PROVE  IInv'
<1>0. DOMAIN kv = AllKeys /\ TypeOK /\ PcOK /\ VotesRecorded
      /\ "CurrentTerm" \in StableNames
      /\ "LastVoteTerm" \in StableNames /\ "LastVoteCand" \in StableNames
  BY DEF IInv, TypeOK, StableNames
<1>1. /\ main.pc = "voteTerm" /\ kv' = SetStable(kv, "LastVoteTerm", main.term)
      /\ main' = [main EXCEPT !.pc = "voteCand"]
      /\ up' = up /\ lastLog' = lastLog /\ commit' = commit /\ snap' = snap
      /\ torn' = torn
      /\ granted' = granted
  BY DEF PersistVoteTerm
<1>2. /\ up /\ main.term \in Terms
      /\ main \in [pc : {"voteTerm", "voteCand"}, term : Terms, cand : Candidates]
  BY <1>0, <1>1 DEF PcOK, Idle
<1>2a. main'.term = main.term /\ main'.cand = main.cand /\ main'.pc = "voteCand"
       /\ main' \in [pc : {"voteTerm", "voteCand"}, term : Terms, cand : Candidates]
  BY <1>1, <1>2
<1>3. /\ Stored(kv') = Stored(kv)
      /\ Get(kv', "LastVoteTerm") = main.term
      /\ Get(kv', "CurrentTerm") = Get(kv, "CurrentTerm")
      /\ Get(kv', "LastVoteCand") = Get(kv, "LastVoteCand")
  BY <1>0, <1>1, StableEffect
<1>4. TypeOK'
  BY <1>0, <1>1, <1>2, StableTyped DEF TypeOK
<1>5. PcOK'
  BY <1>0, <1>1, <1>2, <1>2a DEF PcOK
<1>6. Bounded' /\ LogIsWindow'
  BY <1>1, <1>2a, <1>3, LogKept DEF IInv
<1>7. VotesRecorded'
  <2>1. main.term # Nil /\ main.term \in Int
    BY <1>2, RaftStoreAssumption DEF Terms
  <2>2. /\ GetUint64(kv', "LastVoteTerm") = main.term
        /\ GetUint64(kv', "CurrentTerm") = GetUint64(kv, "CurrentTerm")
    BY <1>3, <2>1 DEF GetUint64
  <2>3. GetUint64(kv, "LastVoteTerm") \in Int /\ GetUint64(kv, "CurrentTerm") \in Int
        /\ \A v \in granted : v[1] \in Int
    BY <1>0, RaftStoreAssumption DEF TypeOK, GetUint64, Terms
  <2> QED BY <1>0, <1>1, <1>2a, <1>3, <2>1, <2>2, <2>3 DEF VotesRecorded
<1> QED BY <1>4, <1>5, <1>6, <1>7 DEF IInv

LEMMA PersistVoteCandInv ==
    ASSUME IInv, PersistVoteCand
    PROVE  IInv'
<1>0. DOMAIN kv = AllKeys /\ TypeOK /\ PcOK /\ VotesRecorded
      /\ "CurrentTerm" \in StableNames
      /\ "LastVoteTerm" \in StableNames /\ "LastVoteCand" \in StableNames
  BY DEF IInv, TypeOK, StableNames
<1>1. /\ main.pc = "voteCand" /\ kv' = SetStable(kv, "LastVoteCand", main.cand)
      /\ main' = Idle /\ granted' = granted \cup {<<main.term, main.cand>>}
      /\ up' = up /\ lastLog' = lastLog /\ commit' = commit /\ snap' = snap
      /\ torn' = torn
  BY DEF PersistVoteCand
<1>2. main.term \in Terms /\ main.cand \in Candidates
  BY <1>0, <1>1 DEF PcOK, Idle
<1>3. /\ Stored(kv') = Stored(kv)
      /\ Get(kv', "LastVoteCand") = main.cand
      /\ Get(kv', "CurrentTerm") = Get(kv, "CurrentTerm")
      /\ Get(kv', "LastVoteTerm") = Get(kv, "LastVoteTerm")
  BY <1>0, <1>1, StableEffect
<1>4. TypeOK'
  <2>1. granted' \subseteq Terms \X Candidates
    BY <1>0, <1>1, <1>2 DEF TypeOK
  <2> QED BY <1>0, <1>1, <1>2, <2>1, StableTyped
<1>5. PcOK'
  BY <1>0, <1>1 DEF PcOK
<1>6. Bounded' /\ LogIsWindow'
  BY <1>1, <1>3, LogKept DEF IInv, Idle
<1>7. VotesRecorded'
  <2>1. /\ GetUint64(kv', "LastVoteTerm") = GetUint64(kv, "LastVoteTerm")
        /\ GetUint64(kv', "CurrentTerm") = GetUint64(kv, "CurrentTerm")
    BY <1>3 DEF GetUint64
  <2>2. /\ GetUint64(kv, "LastVoteTerm") = main.term
        /\ GetUint64(kv, "LastVoteTerm") <= GetUint64(kv, "CurrentTerm")
        /\ \A v \in granted : v[1] <= main.term /\ v[1] # main.term
    BY <1>0, <1>1 DEF VotesRecorded
  <2>3. main.term \in Int
    BY <1>2, RaftStoreAssumption DEF Terms
  <2> QED BY <1>1, <1>3, <2>1, <2>2, <2>3 DEF VotesRecorded, Idle
<1> QED BY <1>4, <1>5, <1>6, <1>7 DEF IInv

\* The window of a state without a refused store.
LEMMA WindowOf ==
    ASSUME IInv, NEW lo \in 1 .. (MaxIndex + 1), LogFrom(lo)
    PROVE  \E hi \in 0 .. MaxIndex :
              /\ Stored(kv) = lo .. hi
              /\ up /\ main.pc # "conflict" => hi = lastLog
              /\ main.pc = "conflict" => hi = main.at - 1
<1>0. MaxIndex \in Nat /\ lastLog \in 0 .. MaxIndex /\ commit \in 0 .. MaxIndex
  BY RaftStoreAssumption DEF IInv, TypeOK
<1>1. CASE main.pc = "conflict"
  <2>1. up /\ main.at \in 1 .. MaxIndex
    BY <1>1 DEF IInv, PcOK, Idle
  <2>2. Stored(kv) = lo .. (main.at - 1) /\ main.at - 1 \in 0 .. MaxIndex
    BY <1>0, <1>1, <2>1 DEF LogFrom
  <2> QED BY <1>1, <2>1, <2>2
<1>2. CASE main.pc # "conflict" /\ up
  BY <1>0, <1>2 DEF LogFrom
<1>3. CASE main.pc # "conflict" /\ ~up
  BY <1>0, <1>3 DEF LogFrom
<1> QED BY <1>1, <1>2, <1>3

LEMMA CompactBeginInv ==
    ASSUME IInv, CompactBegin
    PROVE  IInv'
<1>0. /\ MaxIndex \in Nat /\ MaxIndex < Byte * Byte /\ Byte \in Nat
      /\ lastLog \in 0 .. MaxIndex /\ commit \in 0 .. MaxIndex
      /\ TrailingLogs \in Nat /\ TrailingLogs > 0
  BY RaftStoreAssumption DEF IInv, TypeOK
<1>1. Stored(kv) \subseteq 1 .. MaxIndex
  BY DEF IInv, Bounded
<1>2. FirstIndex(kv) \in 0 .. MaxIndex /\ \A i \in Stored(kv) : FirstIndex(kv) <= i
  BY <1>0, <1>1, Ends
<1>3. PICK max \in FirstIndex(kv) .. commit :
         /\ max <= lastLog - TrailingLogs /\ max > 0
         /\ snap' = [pc |-> "delete", min |-> FirstIndex(kv), max |-> max]
  BY DEF CompactBegin
<1>4. /\ up /\ kv' = kv /\ up' = up /\ lastLog' = lastLog /\ commit' = commit
      /\ main' = main /\ granted' = granted /\ torn' = torn
  BY DEF CompactBegin
<1>5. /\ max \in 1 .. MaxIndex /\ max <= commit /\ max < lastLog
      /\ FirstIndex(kv) <= max /\ FirstIndex(kv) \in Indices
  BY <1>0, <1>2, <1>3 DEF Indices
<1>6. TypeOK' /\ VotesRecorded'
  BY <1>4 DEF IInv, TypeOK, VotesRecorded, Get, GetUint64
<1>7. PcOK'
  BY <1>3, <1>4, <1>5 DEF IInv, PcOK
<1>8. Bounded'
  BY <1>2, <1>3, <1>4, <1>5 DEF IInv, Bounded
<1>9. LogIsWindow'
  BY <1>4 DEF IInv, LogIsWindow, LogFrom
<1> QED BY <1>6, <1>7, <1>8, <1>9 DEF IInv

\* What the snapshot goroutine deletes is the head of the log.
LEMMA CompactEndEffect ==
    ASSUME IInv, snap.pc = "delete", kv' = DeleteRange(kv, snap.min, snap.max)
    PROVE  /\ DOMAIN kv' = AllKeys
           /\ \A k \in AllKeys \ LogKeys : kv'[k] = kv[k]
           /\ \A j \in Indices : GetLog(kv', j) = Nil \/ GetLog(kv', j) = GetLog(kv, j)
           /\ snap.max \in 1 .. MaxIndex
           /\ Stored(kv') = {j \in Stored(kv) : j > snap.max}
           /\ \A j \in Stored(kv') : GetLog(kv', j) = GetLog(kv, j)
<1>0. /\ MaxIndex \in Nat /\ MaxIndex < Byte * Byte /\ Byte \in Nat
      /\ snap.min \in Indices /\ snap.max \in 1 .. MaxIndex
      /\ Stored(kv) \subseteq 1 .. MaxIndex /\ \A j \in Stored(kv) : snap.min <= j
  BY RaftStoreAssumption DEF IInv, PcOK, Idle, Bounded
<1>1. snap.min .. snap.max \subseteq Indices /\ snap.min \in Int /\ snap.max \in Int
  BY <1>0 DEF Indices
<1>3. /\ DOMAIN kv' = AllKeys
      /\ \A k \in AllKeys \ LogKeys : kv'[k] = kv[k]
      /\ \A j \in Indices : GetLog(kv', j) =
            IF j \in snap.min .. snap.max THEN Nil ELSE GetLog(kv, j)
      /\ Stored(kv') = Stored(kv) \ (snap.min .. snap.max)
  BY <1>1, DeleteEffect
<1>5. Stored(kv') = {j \in Stored(kv) : j > snap.max}
  BY <1>0, <1>1, <1>3
<1>6. \A j \in Stored(kv') : j \in Indices /\ GetLog(kv', j) # Nil
  BY DEF Stored
<1> QED BY <1>0, <1>3, <1>5, <1>6

LEMMA CompactEndInv ==
    ASSUME IInv, CompactEnd
    PROVE  IInv'
<1>0. /\ MaxIndex \in Nat /\ lastLog \in 0 .. MaxIndex /\ commit \in 0 .. MaxIndex
      /\ snap.pc = "delete" /\ snap' = Idle /\ up /\ up' = up /\ torn' = torn
      /\ lastLog' = lastLog /\ commit' = commit /\ main' = main /\ granted' = granted
  BY RaftStoreAssumption DEF IInv, TypeOK, PcOK, CompactEnd, Idle
<1>1. PcOK'
  BY <1>0 DEF IInv, PcOK
<1>2. CASE kv' = kv
  <2>1. TypeOK' /\ VotesRecorded'
    BY <1>0, <1>2 DEF IInv, TypeOK, VotesRecorded, Get, GetUint64
  <2>2. Bounded' /\ LogIsWindow'
    BY <1>0, <1>2 DEF IInv, Bounded, LogIsWindow, LogFrom, Idle
  <2> QED BY <1>1, <2>1, <2>2 DEF IInv
<1>3. CASE kv' = DeleteRange(kv, snap.min, snap.max)
  <2>0. snap.max <= commit /\ snap.max < lastLog
    BY <1>0 DEF IInv, Bounded
  <2>1. /\ DOMAIN kv' = AllKeys
        /\ \A k \in AllKeys \ LogKeys : kv'[k] = kv[k]
        /\ \A j \in Indices : GetLog(kv', j) = Nil \/ GetLog(kv', j) = GetLog(kv, j)
        /\ snap.max \in 1 .. MaxIndex
        /\ Stored(kv') = {j \in Stored(kv) : j > snap.max}
    BY <1>0, <1>3, CompactEndEffect
  <2>2. \A name \in StableNames : Get(kv', name) = Get(kv, name)
    BY <2>1, StableApart
  <2>3. TypeOK'
    <3>1. \A k \in Others : kv'[k] \in {Nil, Data}
      BY <2>1, KeyKinds DEF IInv, TypeOK
    <3>2. \A name \in StableNames : Get(kv', name) \in
             {Nil} \cup IF name = "LastVoteCand" THEN Candidates ELSE Terms
      BY <2>2 DEF IInv, TypeOK
    <3>3. TypeOK /\ up' \in BOOLEAN /\ granted' \subseteq Terms \X Candidates
          /\ torn' \in BOOLEAN
      BY <1>0 DEF IInv, TypeOK
    <3> QED BY <1>0, <2>1, <3>1, <3>2, <3>3, TypeByParts
  <2>4. VotesRecorded'
    BY <1>0, <2>2, VotesKept DEF IInv
  <2>5. Bounded'
    BY <1>0, <2>1 DEF IInv, Bounded, Idle
  <2>6. LogIsWindow'
    <3> SUFFICES ASSUME ~torn PROVE LogIsWindow'
      BY <1>0 DEF LogIsWindow
    <3>1. PICK lo \in 1 .. (MaxIndex + 1) : LogFrom(lo)
      BY DEF IInv, LogIsWindow
    <3>2. PICK hi \in 0 .. MaxIndex :
             /\ Stored(kv) = lo .. hi
             /\ main.pc # "conflict" => hi = lastLog
             /\ main.pc = "conflict" => hi = main.at - 1
      BY <1>0, <3>1, WindowOf
    <3>3. PICK lo2 \in 1 .. (MaxIndex + 1) :
             lo2 = IF lo <= snap.max THEN snap.max + 1 ELSE lo
      BY <1>0, <2>1
    <3>4. Stored(kv') = lo2 .. hi
      BY <1>0, <2>1, <3>2, <3>3
    <3>5. lo2 <= commit + 1
      BY <1>0, <2>0, <2>1, <3>1, <3>3 DEF LogFrom
    <3>6. main.pc # "conflict" => lo2 <= lastLog \/ (lo2 = 1 /\ lastLog = 0)
      BY <1>0, <2>0, <2>1, <3>1, <3>3 DEF LogFrom
    <3>7. LogFrom(lo2)'
      BY <1>0, <3>2, <3>4, <3>5, <3>6 DEF LogFrom
    <3> QED BY <3>7 DEF LogIsWindow
  <2> QED BY <1>1, <2>3, <2>4, <2>5, <2>6 DEF IInv
<1> QED BY <1>2, <1>3 DEF CompactEnd

LEMMA ApplyDataInv ==
    ASSUME IInv, NEW k \in Others, ApplyData(k)
    PROVE  IInv'
<1>1. /\ kv' = [kv EXCEPT ![k] = IF kv[k] = Nil THEN Data ELSE Nil]
      /\ UNCHANGED <<up, lastLog, commit, main, snap, granted, torn>>
  BY DEF ApplyData
<1>2. DOMAIN kv = AllKeys /\ k \in AllKeys /\ k \notin LogKeys
  BY KeyKinds DEF IInv, TypeOK
<1>3. /\ DOMAIN kv' = AllKeys
      /\ \A j \in AllKeys \ Others : kv'[j] = kv[j]
      /\ \A j \in LogKeys : kv'[j] = kv[j]
      /\ \A j \in Others : kv'[j] = kv[j] \/ kv'[j] \in {Nil, Data}
  BY <1>1, <1>2, KeyKinds
<1>4. \A name \in StableNames : Get(kv', name) = Get(kv, name)
  BY <1>3, StableApart
<1>5. /\ \A i \in Indices : GetLog(kv', i) = GetLog(kv, i)
      /\ Stored(kv') = Stored(kv)
  BY <1>3, OtherEffect
<1>6. TypeOK'
  <2>1. \A j \in Others : kv'[j] \in {Nil, Data}
    BY <1>3 DEF IInv, TypeOK
  <2>2. \A name \in StableNames : Get(kv', name) \in
           {Nil} \cup IF name = "LastVoteCand" THEN Candidates ELSE Terms
    BY <1>4 DEF IInv, TypeOK
  <2>3. /\ TypeOK /\ up' \in BOOLEAN /\ lastLog' \in 0 .. MaxIndex
        /\ commit' \in 0 .. MaxIndex /\ granted' \subseteq Terms \X Candidates
        /\ torn' \in BOOLEAN
    BY <1>1 DEF IInv, TypeOK
  <2> QED BY <1>3, <1>5, <2>1, <2>2, <2>3, TypeByParts
<1>7. PcOK'
  BY <1>1 DEF IInv, PcOK
<1>8. Bounded' /\ LogIsWindow' /\ VotesRecorded'
  BY <1>1, <1>4, <1>5, LogKept, VotesKept DEF IInv
<1> QED BY <1>6, <1>7, <1>8 DEF IInv

LEMMA CrashInv ==
    ASSUME IInv, Crash
    PROVE  IInv'
<1>1. /\ up /\ up' = FALSE /\ main' = Idle /\ snap' = Idle /\ torn' = torn
      /\ kv' = kv /\ lastLog' = lastLog /\ commit' = commit /\ granted' = granted
  BY DEF Crash
<1>2. TypeOK' /\ PcOK' /\ Bounded'
  BY <1>1 DEF IInv, TypeOK, PcOK, Bounded, Get, Idle
<1>3. VotesRecorded'
  BY <1>1, VotesKept DEF IInv, Idle
<1>4. LogIsWindow'
  <2> SUFFICES ASSUME ~torn PROVE LogIsWindow'
    BY <1>1 DEF LogIsWindow
  <2>1. PICK lo \in 1 .. (MaxIndex + 1) : LogFrom(lo)
    BY DEF IInv, LogIsWindow
  <2>2. \E hi \in 0 .. MaxIndex : Stored(kv) = lo .. hi
    BY <2>1, WindowOf
  <2>3. LogFrom(lo)'
    BY <1>1, <2>1, <2>2 DEF LogFrom, Idle
  <2> QED BY <2>3 DEF LogIsWindow
<1> QED BY <1>2, <1>3, <1>4 DEF IInv

\* NewRaft only comes up on a log that is whole from index 1.
LEMMA ReadableLog ==
    ASSUME IInv, Readable
    PROVE  LastIndex(kv) \in 0 .. MaxIndex /\ Stored(kv) = 1 .. LastIndex(kv)
<1>0. /\ MaxIndex \in Nat /\ MaxIndex < Byte * Byte /\ Byte \in Nat
      /\ Stored(kv) \subseteq 1 .. MaxIndex
  BY RaftStoreAssumption DEF IInv, Bounded
<1>1. LastIndex(kv) \in 0 .. MaxIndex /\ Stored(kv) \subseteq 1 .. LastIndex(kv)
  BY <1>0, Ends
<1>2. 1 .. LastIndex(kv) \subseteq Stored(kv)
  BY <1>0, <1>1 DEF Readable, Stored, Indices
<1> QED BY <1>1, <1>2

LEMMA RestartInv ==
    ASSUME IInv, Restart
    PROVE  IInv'
<1>0. MaxIndex \in Nat /\ lastLog \in 0 .. MaxIndex /\ commit \in 0 .. MaxIndex
  BY RaftStoreAssumption DEF IInv, TypeOK
<1>1. /\ ~up /\ up' = TRUE /\ lastLog' = LastIndex(kv) /\ torn' = FALSE
      /\ kv' = kv /\ commit' = commit /\ main' = main /\ snap' = snap
      /\ granted' = granted /\ main = Idle /\ snap = Idle
  BY DEF Restart, IInv, PcOK
<1>2. LastIndex(kv) \in 0 .. MaxIndex /\ Stored(kv) = 1 .. LastIndex(kv)
  BY ReadableLog DEF Restart
<1>3. TypeOK' /\ PcOK'
  BY <1>0, <1>1, <1>2 DEF IInv, TypeOK, PcOK, Get
<1>4. VotesRecorded'
  BY <1>1, VotesKept DEF IInv
<1>5. Bounded'
  BY <1>0, <1>1, <1>2 DEF Bounded, Idle
<1>6. LogFrom(1)'
  BY <1>0, <1>1, <1>2 DEF LogFrom, Idle
<1> QED BY <1>0, <1>3, <1>4, <1>5, <1>6 DEF IInv, LogIsWindow

\* The invariant holds in every state.
THEOREM Invariant == Spec => []IInv
<1>1. Init => IInv
  BY InitInv
<1>2. IInv /\ [Next]_vars => IInv'
  <2> SUFFICES ASSUME IInv, [Next]_vars PROVE IInv'
    OBVIOUS
  <2>1. ASSUME NEW n \in 1 .. MaxIndex, NEW t \in Terms,
               AppendEntries(n, t) \/ Overwrite(n, t)
        PROVE  IInv'
    BY <2>1, AppendInv, OverwriteInv
  <2>2. ASSUME NEW i \in 1 .. MaxIndex, Truncate(i) \/ Commit(i) PROVE IInv'
    BY <2>2, TruncateInv, CommitInv
  <2>3. ASSUME NEW t \in Terms, NEW c \in Candidates, RequestVote(t, c) PROVE IInv'
    BY <2>3, RequestVoteInv
  <2>4. ASSUME NEW c \in Candidates, RequestVoteAgain(c) PROVE IInv'
    BY <2>4, RequestVoteAgainInv
  <2>5. CASE PersistVoteTerm \/ PersistVoteCand \/ Refused
    BY <2>5, PersistVoteTermInv, PersistVoteCandInv, RefusedInv
  <2>6. CASE CompactBegin \/ CompactEnd
    BY <2>6, CompactBeginInv, CompactEndInv
  <2>7. ASSUME NEW k \in Others, ApplyData(k) PROVE IInv'
    BY <2>7, ApplyDataInv
  <2>8. CASE Crash \/ Restart
    BY <2>8, CrashInv, RestartInv
  <2>9. CASE UNCHANGED vars
    BY <2>9 DEF vars, IInv, TypeOK, PcOK, Bounded, LogIsWindow, LogFrom, VotesRecorded,
                Get, GetUint64
  <2> QED BY <2>1, <2>2, <2>3, <2>4, <2>5, <2>6, <2>7, <2>8, <2>9 DEF Next
<1> QED BY <1>1, <1>2, PTL DEF Spec

\* Every entry of the database has its type, and a log entry carries the index
\* of its key.
THEOREM TypeCorrect == Spec => []TypeOK
<1>1. IInv => TypeOK
  BY DEF IInv
<1> QED BY <1>1, Invariant, PTL

\* The last index in Raft's memory is never behind the stored log, and is the
\* one a restart would read unless the entries behind a cut were refused.
THEOREM MemoryMatches == Spec => []MemoryMatchesStore
<1>1. IInv => MemoryMatchesStore
  <2> SUFFICES ASSUME IInv, up, main.pc # "conflict"
               PROVE  LastIndex(kv) <= lastLog /\ (~torn => LastIndex(kv) = lastLog)
    BY DEF MemoryMatchesStore
  <2>0. /\ MaxIndex \in Nat /\ lastLog \in 0 .. MaxIndex
        /\ Stored(kv) \subseteq 1 .. MaxIndex /\ Stored(kv) \subseteq 1 .. lastLog
    BY RaftStoreAssumption DEF IInv, TypeOK, Bounded
  <2>1. LastIndex(kv) <= lastLog
    BY <2>0, Ends
  <2>2. ASSUME ~torn PROVE LastIndex(kv) = lastLog
    <3>1. PICK lo \in 1 .. (MaxIndex + 1) : LogFrom(lo)
      BY <2>2 DEF IInv, LogIsWindow
    <3>2. Stored(kv) = lo .. lastLog /\ (lo <= lastLog \/ lastLog = 0)
      BY <3>1 DEF LogFrom
    <3> QED BY <2>0, <3>2, WindowEnds
  <2> QED BY <2>1, <2>2
<1> QED BY <1>1, Invariant, PTL

\* A node answers at most one candidate of a term with its vote.
THEOREM VotesAreUnique == Spec => []VotesOnce
<1>0. Init => VotesOnce
  BY DEF Init, VotesOnce
<1>1. IInv /\ VotesOnce /\ [Next]_vars => VotesOnce'
  <2> SUFFICES ASSUME IInv, VotesOnce, [Next]_vars PROVE VotesOnce'
    OBVIOUS
  <2>1. CASE granted' = granted
    BY <2>1 DEF VotesOnce
  <2>2. ASSUME NEW c \in Candidates, RequestVoteAgain(c) PROVE VotesOnce'
    <3>1. CASE granted' = granted
      BY <3>1 DEF VotesOnce
    <3>2. CASE granted' # granted
      <4>1. /\ granted' = granted \cup {<<GetUint64(kv, "CurrentTerm"), c>>}
            /\ GetUint64(kv, "LastVoteTerm") = GetUint64(kv, "CurrentTerm")
            /\ Get(kv, "LastVoteCand") = c
        BY <2>2, <3>2 DEF RequestVoteAgain
      <4>2. \A v \in granted : v[1] = GetUint64(kv, "LastVoteTerm")
               => Get(kv, "LastVoteCand") = v[2]
        BY DEF IInv, VotesRecorded
      <4> QED BY <4>1, <4>2 DEF VotesOnce
    <3> QED BY <3>1, <3>2
  <2>3. CASE PersistVoteCand
    <3>1. granted' = granted \cup {<<main.term, main.cand>>}
      BY <2>3 DEF PersistVoteCand
    <3>2. \A v \in granted : v[1] # main.term
      BY <2>3 DEF PersistVoteCand, IInv, VotesRecorded
    <3> QED BY <3>1, <3>2 DEF VotesOnce
  <2> QED BY <2>1, <2>2, <2>3 DEF Next, vars, AppendEntries, Overwrite, Truncate,
          Refused, Commit, RequestVote, PersistVoteTerm, CompactBegin, CompactEnd,
          ApplyData, Crash, Restart
<1> QED BY <1>0, <1>1, Invariant, PTL DEF Spec

(***************************************************************************)
(* The refinement of LogStore.                                             *)
(***************************************************************************)
\* The log gains entries of one term behind its last one, next to it unless
\* entries were refused after a cut.
LEMMA ExtendStep ==
    ASSUME NEW lo \in 1 .. MaxIndex, NEW hi \in 1 .. MaxIndex, lo <= hi, NEW t \in Terms,
           Stored(kv) \subseteq 1 .. (lo - 1),
           torn \/ Stored(kv) = {} \/ lo - 1 \in Stored(kv),
           Stored(kv') = Stored(kv) \cup (lo .. hi),
           \A i \in Stored(kv) : GetLog(kv', i) = GetLog(kv, i),
           \A i \in lo .. hi : GetLog(kv', i) = [index |-> i, term |-> t],
           \A name \in StableNames : Get(kv', name) = Get(kv, name), torn' = torn
    PROVE  Contract!Extend
<1>0. /\ MaxIndex \in Nat
      /\ Stored(kv) \subseteq 1 .. MaxIndex /\ Stored(kv') \subseteq 1 .. MaxIndex
  BY RaftStoreAssumption
<1>1. /\ lo \in Stored(kv') \ Stored(kv) /\ hi \in Stored(kv') \ Stored(kv)
      /\ \A i \in Stored(kv) : i \notin lo .. hi
  BY <1>0
<1>2. /\ LastIndex(kv) < lo
      /\ FirstIndex(kv) = 0 \/ lo = LastIndex(kv) + 1 \/ torn
  BY <1>0, Ends
<1>3. Contract!Bounds(Stored(kv'), FirstIndex(kv'), LastIndex(kv'))
  BY <1>0, Ends DEF Contract!Bounds
<1> DEFINE log  == [i \in Stored(kv) |-> GetLog(kv, i)]
           log2 == [i \in Stored(kv') |-> GetLog(kv', i)]
           l    == [i \in DOMAIN log \cup (lo .. hi) |->
                       IF i \in DOMAIN log THEN log[i] ELSE Contract!Entry(i, t)]
<1>4. log2 = l
  <2>1. DOMAIN log2 = DOMAIN l
    OBVIOUS
  <2>2. ASSUME NEW i \in Stored(kv') PROVE log2[i] = l[i]
    BY DEF Contract!Entry
  <2> QED BY <2>1, <2>2
<1>5. [m \in StableNames |-> Get(kv', m)] = [m \in StableNames |-> Get(kv, m)]
  OBVIOUS
<1>6. Contract!Becomes(l)
  BY <1>3, <1>4, <1>5 DEF Contract!Becomes
<1> QED BY <1>1, <1>2, <1>6 DEF Contract!Extend

\* The log loses its end.
LEMMA CutBackStep ==
    ASSUME Stored(kv) \subseteq 1 .. MaxIndex, Stored(kv') \subseteq Stored(kv),
           \A i \in Stored(kv) \ Stored(kv') : \A j \in Stored(kv') : j < i,
           \A i \in Stored(kv') : GetLog(kv', i) = GetLog(kv, i),
           \A name \in StableNames : Get(kv', name) = Get(kv, name), torn' = torn
    PROVE  Contract!CutBack
<1>0. MaxIndex \in Nat /\ Stored(kv') \subseteq 1 .. MaxIndex
  BY RaftStoreAssumption
<1>1. Contract!Bounds(Stored(kv'), FirstIndex(kv'), LastIndex(kv'))
  BY <1>0, Ends DEF Contract!Bounds
<1>2. Stored(kv') = {j \in Stored(kv) : j <= LastIndex(kv')}
  BY <1>0, Ends
<1> DEFINE log  == [i \in Stored(kv) |-> GetLog(kv, i)]
           log2 == [i \in Stored(kv') |-> GetLog(kv', i)]
           l    == [i \in {j \in DOMAIN log : j <= LastIndex(kv')} |-> log[i]]
<1>3. DOMAIN l = Stored(kv') /\ log2 = l
  BY <1>2
<1>4. [m \in StableNames |-> Get(kv', m)] = [m \in StableNames |-> Get(kv, m)]
  OBVIOUS
<1>5. Contract!Becomes(l)
  BY <1>1, <1>3, <1>4 DEF Contract!Becomes
<1> QED BY <1>5 DEF Contract!CutBack

\* The log loses its head, not all of it.
LEMMA DropHeadStep ==
    ASSUME Stored(kv) \subseteq 1 .. MaxIndex, Stored(kv') \subseteq Stored(kv),
           Stored(kv') # {},
           \A i \in Stored(kv) \ Stored(kv') : \A j \in Stored(kv') : i < j,
           \A i \in Stored(kv') : GetLog(kv', i) = GetLog(kv, i),
           \A name \in StableNames : Get(kv', name) = Get(kv, name), torn' = torn
    PROVE  Contract!DropHead
<1>0. MaxIndex \in Nat /\ Stored(kv') \subseteq 1 .. MaxIndex
  BY RaftStoreAssumption
<1>1. Contract!Bounds(Stored(kv'), FirstIndex(kv'), LastIndex(kv'))
  BY <1>0, Ends DEF Contract!Bounds
<1>2. Stored(kv') = {j \in Stored(kv) : j >= FirstIndex(kv')}
  BY <1>0, Ends
<1> DEFINE log  == [i \in Stored(kv) |-> GetLog(kv, i)]
           log2 == [i \in Stored(kv') |-> GetLog(kv', i)]
           l    == [i \in {j \in DOMAIN log : j >= FirstIndex(kv')} |-> log[i]]
<1>3. DOMAIN l = Stored(kv') /\ log2 = l
  BY <1>2
<1>4. [m \in StableNames |-> Get(kv', m)] = [m \in StableNames |-> Get(kv, m)]
  OBVIOUS
<1>5. Contract!Becomes(l)
  BY <1>1, <1>3, <1>4 DEF Contract!Becomes
<1> QED BY <1>5 DEF Contract!DropHead

\* A step that leaves the stored entries alone leaves the bounds alone.
LEMMA LogStutters ==
    ASSUME IInv, Stored(kv') = Stored(kv),
           \A i \in Stored(kv) : GetLog(kv', i) = GetLog(kv, i)
    PROVE  /\ [i \in Stored(kv') |-> GetLog(kv', i)] = [i \in Stored(kv) |-> GetLog(kv, i)]
           /\ FirstIndex(kv') = FirstIndex(kv)
           /\ LastIndex(kv') = LastIndex(kv)
<1>1. MaxIndex \in Nat /\ Stored(kv) \subseteq 1 .. MaxIndex
  BY RaftStoreAssumption DEF IInv, Bounded
<1>2. /\ FirstIndex(kv) = FirstIndex(kv')
      /\ LastIndex(kv) = LastIndex(kv')
  BY <1>1, Ends
<1> QED BY <1>2

LEMMA SetStableStep ==
    ASSUME IInv, NEW name \in StableNames, NEW v \in StableValues,
           kv' = SetStable(kv, name, v), torn' = torn
    PROVE  Contract!SetStable
<1>1. DOMAIN kv = AllKeys
  BY DEF IInv, TypeOK
<1>2. /\ \A i \in Indices : GetLog(kv', i) = GetLog(kv, i)
      /\ Stored(kv') = Stored(kv)
      /\ Get(kv', name) = v
      /\ \A m \in StableNames \ {name} : Get(kv', m) = Get(kv, m)
  BY <1>1, StableEffect
<1>3. \A i \in Stored(kv) : GetLog(kv', i) = GetLog(kv, i)
  BY <1>2 DEF Stored
<1>4. [m \in StableNames |-> Get(kv', m)]
         = [[m \in StableNames |-> Get(kv, m)] EXCEPT ![name] = v]
  BY <1>2
<1> QED BY <1>2, <1>3, <1>4, LogStutters DEF Contract!SetStable

\* A step that writes neither the log nor a stable key leaves LogStore's view
\* of the database as it is.
LEMMA ViewKept ==
    ASSUME IInv, \A k \in AllKeys \ Others : kv'[k] = kv[k]
    PROVE  /\ [i \in Stored(kv') |-> GetLog(kv', i)] = [i \in Stored(kv) |-> GetLog(kv, i)]
           /\ FirstIndex(kv') = FirstIndex(kv)
           /\ LastIndex(kv') = LastIndex(kv)
           /\ [m \in StableNames |-> Get(kv', m)] = [m \in StableNames |-> Get(kv, m)]
<1>1. \A k \in LogKeys : kv'[k] = kv[k]
  BY KeyKinds
<1>2. /\ \A i \in Indices : GetLog(kv', i) = GetLog(kv, i)
      /\ Stored(kv') = Stored(kv)
  BY <1>1, OtherEffect
<1>3. \A i \in Stored(kv) : GetLog(kv', i) = GetLog(kv, i)
  BY <1>2 DEF Stored
<1>4. \A name \in StableNames : Get(kv', name) = Get(kv, name)
  BY StableApart
<1> QED BY <1>2, <1>3, <1>4, LogStutters

\* Such a step is none for LogStore.
LEMMA Stutters ==
    ASSUME IInv, \A k \in AllKeys \ Others : kv'[k] = kv[k], torn' = torn
    PROVE  UNCHANGED Contract!vars
BY ViewKept DEF Contract!vars

LEMMA AppendStep ==
    ASSUME IInv, NEW n \in 1 .. MaxIndex, NEW t \in Terms, AppendEntries(n, t)
    PROVE  Contract!Extend
<1>0. /\ MaxIndex \in Nat /\ MaxIndex < Byte * Byte /\ Byte \in Nat
      /\ lastLog \in 0 .. MaxIndex /\ lastLog + n <= MaxIndex
      /\ n \in Nat /\ n > 0 /\ up /\ main.pc = "idle" /\ torn' = torn
      /\ kv' = StoreLogs(kv, lastLog + 1, lastLog + n, t)
  BY RaftStoreAssumption DEF IInv, TypeOK, AppendEntries, Idle
<1>1. PICK lo \in 1 .. MaxIndex, hi \in 1 .. MaxIndex :
         lo = lastLog + 1 /\ hi = lastLog + n /\ lo <= hi
  BY <1>0
<1>2. lo .. hi \subseteq Indices
  BY <1>0 DEF Indices
<1>3. Stored(kv) \subseteq 1 .. (lo - 1)
  BY <1>0, <1>1 DEF IInv, Bounded
<1>4. torn \/ Stored(kv) = {} \/ lo - 1 \in Stored(kv)
  <2> SUFFICES ASSUME ~torn PROVE Stored(kv) = {} \/ lo - 1 \in Stored(kv)
    OBVIOUS
  <2>1. PICK b \in 1 .. (MaxIndex + 1) : LogFrom(b)
    BY DEF IInv, LogIsWindow
  <2>2. Stored(kv) = b .. lastLog /\ (b <= lastLog \/ (b = 1 /\ lastLog = 0))
    BY <1>0, <2>1 DEF LogFrom
  <2> QED BY <1>0, <1>1, <2>2
<1>5. /\ \A k \in AllKeys \ LogKeys : kv'[k] = kv[k]
      /\ \A i \in Indices : GetLog(kv', i) =
            IF i \in lo .. hi THEN [index |-> i, term |-> t] ELSE GetLog(kv, i)
      /\ Stored(kv') = Stored(kv) \cup (lo .. hi)
  BY <1>0, <1>1, <1>2, StoreEffect
<1>6. \A i \in Stored(kv) : i \in Indices /\ i \notin lo .. hi
  BY <1>1, <1>3 DEF Stored
<1>7. /\ \A i \in Stored(kv) : GetLog(kv', i) = GetLog(kv, i)
      /\ \A i \in lo .. hi : GetLog(kv', i) = [index |-> i, term |-> t]
  BY <1>2, <1>5, <1>6
<1>8. \A name \in StableNames : Get(kv', name) = Get(kv, name)
  BY <1>5, StableApart
<1> QED BY <1>0, <1>1, <1>3, <1>4, <1>5, <1>7, <1>8, ExtendStep

LEMMA OverwriteStep ==
    ASSUME IInv, NEW n \in 1 .. MaxIndex, NEW t \in Terms, Overwrite(n, t)
    PROVE  Contract!Extend
<1>0. /\ MaxIndex \in Nat /\ MaxIndex < Byte * Byte /\ Byte \in Nat
      /\ main.pc = "conflict" /\ main.at \in 1 .. MaxIndex /\ main.at + n - 1 <= MaxIndex
      /\ n \in Nat /\ n > 0 /\ torn' = torn
      /\ kv' = StoreLogs(kv, main.at, main.at + n - 1, t)
  BY RaftStoreAssumption DEF IInv, TypeOK, Overwrite, PcOK, Idle
<1>1. PICK lo \in 1 .. MaxIndex, hi \in 1 .. MaxIndex :
         lo = main.at /\ hi = main.at + n - 1 /\ lo <= hi
  BY <1>0
<1>2. lo .. hi \subseteq Indices
  BY <1>0 DEF Indices
<1>3. Stored(kv) \subseteq 1 .. (lo - 1)
  BY <1>0, <1>1 DEF IInv, Bounded
<1>4. torn \/ Stored(kv) = {} \/ lo - 1 \in Stored(kv)
  <2> SUFFICES ASSUME ~torn PROVE Stored(kv) = {} \/ lo - 1 \in Stored(kv)
    OBVIOUS
  <2>1. PICK b \in 1 .. (MaxIndex + 1) : LogFrom(b)
    BY DEF IInv, LogIsWindow
  <2>2. Stored(kv) = b .. (lo - 1)
    BY <1>0, <1>1, <2>1 DEF LogFrom
  <2> QED BY <1>0, <1>1, <2>2
<1>5. /\ \A k \in AllKeys \ LogKeys : kv'[k] = kv[k]
      /\ \A i \in Indices : GetLog(kv', i) =
            IF i \in lo .. hi THEN [index |-> i, term |-> t] ELSE GetLog(kv, i)
      /\ Stored(kv') = Stored(kv) \cup (lo .. hi)
  BY <1>0, <1>1, <1>2, StoreEffect
<1>6. \A i \in Stored(kv) : i \in Indices /\ i \notin lo .. hi
  BY <1>1, <1>3 DEF Stored
<1>7. /\ \A i \in Stored(kv) : GetLog(kv', i) = GetLog(kv, i)
      /\ \A i \in lo .. hi : GetLog(kv', i) = [index |-> i, term |-> t]
  BY <1>2, <1>5, <1>6
<1>8. \A name \in StableNames : Get(kv', name) = Get(kv, name)
  BY <1>5, StableApart
<1> QED BY <1>0, <1>1, <1>3, <1>4, <1>5, <1>7, <1>8, ExtendStep

LEMMA TruncateStep ==
    ASSUME IInv, NEW i \in 1 .. MaxIndex, Truncate(i)
    PROVE  Contract!CutBack
<1>0. /\ MaxIndex \in Nat /\ MaxIndex < Byte * Byte /\ Byte \in Nat
      /\ lastLog \in 0 .. MaxIndex /\ up /\ torn' = torn
      /\ kv' = DeleteRange(kv, i, lastLog)
  BY RaftStoreAssumption DEF IInv, TypeOK, Truncate
<1>1. i .. lastLog \subseteq Indices
  BY <1>0 DEF Indices
<1>2. Stored(kv) \subseteq 1 .. lastLog /\ Stored(kv) \subseteq 1 .. MaxIndex
  BY <1>0 DEF IInv, Bounded
<1>3. /\ \A k \in AllKeys \ LogKeys : kv'[k] = kv[k]
      /\ \A j \in Indices : GetLog(kv', j) =
            IF j \in i .. lastLog THEN Nil ELSE GetLog(kv, j)
      /\ Stored(kv') = Stored(kv) \ (i .. lastLog)
  BY <1>0, <1>1, DeleteEffect
<1>4. \A j \in Stored(kv) \ Stored(kv') : \A m \in Stored(kv') : m < j
  BY <1>0, <1>2, <1>3
<1>5. \A j \in Stored(kv') : GetLog(kv', j) = GetLog(kv, j)
  BY <1>3 DEF Stored
<1>6. \A name \in StableNames : Get(kv', name) = Get(kv, name)
  BY <1>3, StableApart
<1> QED BY <1>0, <1>2, <1>3, <1>4, <1>5, <1>6, CutBackStep

LEMMA CompactEndStep ==
    ASSUME IInv, CompactEnd
    PROVE  Contract!CutBack \/ Contract!DropHead \/ UNCHANGED Contract!vars
<1>0. /\ MaxIndex \in Nat /\ Stored(kv) \subseteq 1 .. MaxIndex
      /\ snap.pc = "delete" /\ torn' = torn
  BY RaftStoreAssumption DEF IInv, Bounded, CompactEnd
<1>1. CASE kv' = kv
  BY <1>0, <1>1, Stutters
<1>2. CASE kv' = DeleteRange(kv, snap.min, snap.max)
  <2>1. /\ \A k \in AllKeys \ LogKeys : kv'[k] = kv[k]
        /\ snap.max \in 1 .. MaxIndex
        /\ Stored(kv') = {j \in Stored(kv) : j > snap.max}
        /\ \A j \in Stored(kv') : GetLog(kv', j) = GetLog(kv, j)
    BY <1>0, <1>2, CompactEndEffect
  <2>2. \A name \in StableNames : Get(kv', name) = Get(kv, name)
    BY <2>1, StableApart
  <2>3. \A i \in Stored(kv) \ Stored(kv') : \A j \in Stored(kv') : i < j
    BY <1>0, <2>1
  <2>4. CASE Stored(kv') = {}
    BY <1>0, <2>1, <2>2, <2>4, CutBackStep
  <2>5. CASE Stored(kv') # {}
    BY <1>0, <2>1, <2>2, <2>3, <2>5, DropHeadStep
  <2> QED BY <2>4, <2>5
<1> QED BY <1>1, <1>2 DEF CompactEnd

LEMMA RefusedStep ==
    ASSUME IInv, Refused
    PROVE  Contract!Refuse \/ UNCHANGED Contract!vars
<1>1. kv' = kv /\ torn' \in BOOLEAN /\ (torn' = TRUE \/ torn' = torn)
  BY DEF Refused, IInv, TypeOK
<1>2. CASE torn' = torn
  BY <1>1, <1>2, Stutters
<1>3. CASE torn' = TRUE
  BY <1>1, <1>3, ViewKept DEF Contract!Refuse
<1> QED BY <1>1, <1>2, <1>3

LEMMA RestartStep ==
    ASSUME IInv, Restart
    PROVE  Contract!Reload
<1>1. kv' = kv /\ torn' = FALSE /\ Stored(kv) = 1 .. LastIndex(kv)
  BY ReadableLog DEF Restart
<1>2. DOMAIN [i \in Stored(kv) |-> GetLog(kv, i)] = 1 .. LastIndex(kv)
  BY <1>1
<1> QED BY <1>1, <1>2, ViewKept DEF Contract!Reload

\* The store in Badger implements the log and stable store that Raft expects,
\* for any number of entries, with whatever data and scripts beside the log,
\* any interleaving of Raft's goroutines, crashes between transactions and
\* failed ones; its entries are consecutive unless those behind a cut were
\* refused since the start.
THEOREM Refinement == Spec => ImplementsLogStore
<1>1. Init => Contract!Init
  <2> SUFFICES ASSUME Init PROVE Contract!Init
    OBVIOUS
  <2>0. MaxIndex \in Nat
    BY RaftStoreAssumption
  <2>1. \A k \in AllKeys : kv[k] = Nil
    BY DEF Init
  <2>2. Stored(kv) = {}
    BY <2>1, Coding, KeyKinds DEF Stored, GetLog
  <2>3. FirstIndex(kv) = 0 /\ LastIndex(kv) = 0 /\ torn = FALSE
    BY <2>2, Ends DEF Init
  <2>4. \A name \in StableNames : Get(kv, name) = Nil
    BY <2>1, KeyKinds DEF Get
  <2> QED BY <2>2, <2>3, <2>4 DEF Contract!Init
<1>2. IInv /\ [Next]_vars => [Contract!Next]_(Contract!vars)
  <2> SUFFICES ASSUME IInv, [Next]_vars
               PROVE  Contract!Next \/ UNCHANGED Contract!vars
    OBVIOUS
  <2>1. ASSUME NEW n \in 1 .. MaxIndex, NEW t \in Terms,
               AppendEntries(n, t) \/ Overwrite(n, t)
        PROVE  Contract!Next
    BY <2>1, AppendStep, OverwriteStep DEF Contract!Next
  <2>2. ASSUME NEW i \in 1 .. MaxIndex, Truncate(i) PROVE Contract!Next
    BY <2>2, TruncateStep DEF Contract!Next
  <2>3. ASSUME NEW t \in Terms, NEW c \in Candidates, RequestVote(t, c)
        PROVE  Contract!Next
    <3>1. "CurrentTerm" \in StableNames /\ t \in StableValues
          /\ kv' = SetStable(kv, "CurrentTerm", t) /\ torn' = torn
      BY <2>3 DEF RequestVote, StableNames, StableValues
    <3> QED BY <3>1, SetStableStep DEF Contract!Next
  <2>4. CASE PersistVoteTerm
    <3>1. "LastVoteTerm" \in StableNames /\ main.term \in StableValues
          /\ kv' = SetStable(kv, "LastVoteTerm", main.term) /\ torn' = torn
      BY <2>4 DEF PersistVoteTerm, StableNames, StableValues, IInv, PcOK, Idle
    <3> QED BY <3>1, SetStableStep DEF Contract!Next
  <2>5. CASE PersistVoteCand
    <3>1. "LastVoteCand" \in StableNames /\ main.cand \in StableValues
          /\ kv' = SetStable(kv, "LastVoteCand", main.cand) /\ torn' = torn
      BY <2>5 DEF PersistVoteCand, StableNames, StableValues, IInv, PcOK, Idle
    <3> QED BY <3>1, SetStableStep DEF Contract!Next
  <2>6. CASE CompactEnd
    BY <2>6, CompactEndStep DEF Contract!Next
  <2>7. ASSUME NEW k \in Others, ApplyData(k) PROVE UNCHANGED Contract!vars
    <3>1. torn' = torn /\ \A j \in AllKeys \ Others : kv'[j] = kv[j]
      BY <2>7 DEF ApplyData, IInv, TypeOK
    <3> QED BY <3>1, Stutters
  <2>8. CASE kv' = kv /\ torn' = torn
    BY <2>8, Stutters
  <2>9. CASE Refused
    BY <2>9, RefusedStep DEF Contract!Next
  <2>10. CASE Restart
    BY <2>10, RestartStep DEF Contract!Next
  <2> QED BY <2>1, <2>2, <2>3, <2>4, <2>5, <2>6, <2>7, <2>8, <2>9, <2>10
          DEF Next, vars, Commit, RequestVoteAgain, CompactBegin, Crash
<1> QED BY <1>1, <1>2, Invariant, PTL DEF Spec, ImplementsLogStore, Contract!Spec
=============================================================================
