--------------------------- MODULE CommandsProofs ---------------------------
(***************************************************************************)
(* What every command does to a database, whatever it holds: the lemmas    *)
(* about Store, Commands and Queries that the proofs of FSM and Replicas   *)
(* share.                                                                  *)
(***************************************************************************)
EXTENDS Queries, TLAPS, FiniteSetTheorems, NaturalsInduction,
        WellFoundedInduction, SequenceTheorems

(***************************************************************************)
(* Numbers.                                                                *)
(***************************************************************************)
\* Division of a natural number by a positive one gives a natural number.
LEMMA DivNat ==
    ASSUME NEW x \in Nat, NEW y \in Nat \ {0}
    PROVE  x \div y \in Nat
OBVIOUS

\* The product of two natural numbers is one.
LEMMA TimesNat ==
    ASSUME NEW x \in Nat, NEW y \in Nat
    PROVE  x * y \in Nat
OBVIOUS

\* A second has a positive number of ticks.
LEMMA TicksPerSecType == TicksPerSec \in Nat \ {0}
BY ClockAssumption DEF TicksPerSec

\* Division rounds down.
LEMMA DivBounds ==
    ASSUME NEW x \in Nat, NEW s \in Nat \ {0}
    PROVE  /\ x \div s \in Nat /\ s * (x \div s) \in Nat
           /\ s * (x \div s) <= x /\ x < s * (x \div s) + s
<1> DEFINE p == x \div s
<1>1. p \in Nat
  BY DivNat
<1>2. x = s * p + (x % s) /\ x % s \in 0 .. s - 1
  OBVIOUS
<1> HIDE DEF p
<1>3. s * p \in Nat
  BY <1>1, TimesNat
<1>4. s * p <= x /\ x < s * p + s
  BY <1>2, <1>3
<1> QED BY <1>1, <1>3, <1>4 DEF p

\* A number between two multiples of s has a quotient between theirs.
LEMMA DivBetween ==
    ASSUME NEW x \in Nat, NEW s \in Nat \ {0}, NEW a \in Nat, NEW b \in Nat
    PROVE  /\ s * a <= x => a <= x \div s
           /\ x < s * b + s => x \div s <= b
<1> DEFINE p == x \div s
<1>1. p \in Nat /\ s * p \in Nat /\ s * p <= x /\ x < s * p + s
  BY DivBounds
<1> HIDE DEF p
<1>2. s * a \in Nat /\ s * b \in Nat
  BY TimesNat
<1>3. ASSUME NEW m \in Nat, NEW n \in Nat, n >= m + 1
      PROVE  s * n >= s * m + s /\ s * n \in Nat /\ s * m \in Nat
  <2>1. s * (m + 1) = s * m + s
    OBVIOUS
  <2>2. s * n >= s * (m + 1)
    BY <1>3
  <2> QED BY <2>1, <2>2, TimesNat
<1>4. ASSUME s * a <= x PROVE a <= p
  <2> SUFFICES ASSUME a >= p + 1 PROVE FALSE
    BY <1>1
  <2>1. s * a >= s * p + s
    BY <1>1, <1>3
  <2> QED BY <1>1, <1>2, <1>4, <2>1
<1>5. ASSUME x < s * b + s PROVE p <= b
  <2> SUFFICES ASSUME p >= b + 1 PROVE FALSE
    BY <1>1
  <2>1. s * p >= s * b + s
    BY <1>1, <1>3
  <2> QED BY <1>1, <1>2, <1>5, <2>1
<1> QED BY <1>4, <1>5 DEF p

\* Division is monotone.
LEMMA DivMonotone ==
    ASSUME NEW x \in Nat, NEW y \in Nat, x <= y, NEW s \in Nat \ {0}
    PROVE  x \div s <= y \div s
<1> DEFINE p == x \div s
<1>1. p \in Nat /\ s * p \in Nat /\ s * p <= x
  BY DivBounds
<1> HIDE DEF p
<1>2. s * p <= y
  BY <1>1
<1>3. p <= y \div s
  BY <1>1, <1>2, DivBetween
<1> QED BY <1>3 DEF p

\* An entry that Badger shows was shown before, since it was written.
LEMMA LiveBefore ==
    ASSUME NEW e \in ValueEntries \cup {None}, NEW t \in Nat, NEW u \in Nat, t <= u,
           Live(e, u)
    PROVE  Live(e, t)
<1>1. t \div TicksPerSec <= u \div TicksPerSec
  BY DivMonotone, TicksPerSecType
<1>2. t \div TicksPerSec \in Nat /\ u \div TicksPerSec \in Nat
  BY DivNat, TicksPerSecType
<1>3. e # None /\ e.exp \in Nat
  BY DEF Live, ValueEntries
<1> QED BY <1>1, <1>2, <1>3 DEF Live

\* The expiry WithTTL computes from a positive lifetime is a number of
\* seconds.
LEMMA WithTTLType ==
    ASSUME NEW t \in Nat, NEW ttl \in Int, t + ttl * TicksPerMs >= 0
    PROVE  WithTTL(t, ttl) \in Nat
<1>1. ttl * TicksPerMs \in Int
  BY ClockAssumption
<1>2. t + ttl * TicksPerMs \in Nat
  BY <1>1
<1> QED
  BY <1>2, DivNat, TicksPerSecType DEF WithTTL

\* The lifetime left to an entry is a number of milliseconds.
LEMMA RemainingType ==
    ASSUME NEW e, e.exp \in Nat, NEW t \in Nat
    PROVE  remainingTTLMs(e, t) \in Nat
<1>1. e.exp * TicksPerSec - t \in Int
  BY TicksPerSecType
<1>2. (e.exp * TicksPerSec - t) \div TicksPerMs \in Int
  BY <1>1, ClockAssumption
<1> QED
  BY <1>2 DEF remainingTTLMs

\* int64 arithmetic stays within 64 bits.
LEMMA Wrap64Type ==
    ASSUME NEW n \in Int
    PROVE  Wrap64(n) \in Int64
<1> DEFINE m == 2 * (MaxInt + 1)
<1>1. m \in Nat \ {0}
  BY ClockAssumption
<1>2. (n + MaxInt + 1) % m \in 0 .. m - 1
  BY <1>1, ClockAssumption
<1> QED
  BY <1>2, ClockAssumption DEF Wrap64, Int64

(***************************************************************************)
(* Least and greatest elements, and the n-th element of a set of positions *)
(***************************************************************************)
\* A non-empty set of natural numbers has a least element.
LEMMA LeastElement ==
    ASSUME NEW S \in SUBSET Nat, S # {}
    PROVE  \E m \in S : \A j \in S : m <= j
<1>1. PICK m \in S : \A j \in S : ~ (<<j, m>> \in OpToRel(<, Nat))
  BY WFMin, NatLessThanWellFounded
<1>2. \A j \in S : ~ (j < m)
  BY <1>1 DEF OpToRel
<1> QED
  BY <1>2

\* A non-empty set of positions has a greatest element.
LEMMA GreatestElement ==
    ASSUME NEW n \in Nat, NEW S \in SUBSET (1 .. n), S # {}
    PROVE  \E m \in S : \A j \in S : j <= m
<1> DEFINE R == {n - i : i \in S}
<1>1. \A i \in S : n - i \in Nat
  OBVIOUS
<1>2. R \subseteq Nat /\ R # {}
  BY <1>1
<1>3. PICK r \in R : \A j \in R : r <= j
  BY <1>2, LeastElement
<1>4. PICK m \in S : r = n - m
  OBVIOUS
<1>5. \A j \in S : n - m <= n - j
  BY <1>3, <1>4
<1> QED
  BY <1>5

\* Every rank up to the size of a set of positions is taken by one of them.
LEMMA NthElement ==
    ASSUME NEW len \in Nat, NEW S \in SUBSET (1 .. len),
           NEW n \in 1 .. Cardinality(S)
    PROVE  \E i \in S : Cardinality({j \in S : j <= i}) = n
<1> DEFINE below(i) == {j \in S : j <= i}
<1> DEFINE R == {i \in 0 .. len : Cardinality(below(i)) >= n}
<1>1. IsFiniteSet(S)
  <2>1. IsFiniteSet(1 .. len)
    BY FS_Interval
  <2> QED
    BY <2>1, FS_Subset
<1>2. \A i \in Nat : IsFiniteSet(below(i)) /\ Cardinality(below(i)) \in Nat
  <2> TAKE i \in Nat
  <2>1. below(i) \in SUBSET S
    OBVIOUS
  <2>2. IsFiniteSet(below(i))
    BY <1>1, <2>1, FS_Subset
  <2> QED
    BY <2>2, FS_CardinalityType
<1>3. Cardinality(S) \in Nat
  BY <1>1, FS_CardinalityType
<1>4. below(len) = S
  <2>1. \A j \in S : j <= len
    OBVIOUS
  <2> QED
    BY <2>1
<1>5. below(0) = {}
  <2>1. \A j \in S : ~(j <= 0)
    OBVIOUS
  <2> QED
    BY <2>1
<1>6. len \in R /\ 0 \notin R
  <2>1. Cardinality(below(0)) = 0
    BY <1>5, FS_EmptySet
  <2> QED
    BY <2>1, <1>3, <1>4
<1>7. R \subseteq Nat
  OBVIOUS
<1>8. PICK m \in R : \A j \in R : m <= j
  BY <1>6, <1>7, LeastElement
<1>9. m \in 1 .. len /\ Cardinality(below(m)) >= n
  BY <1>6, <1>8
<1>10. m \in Nat /\ m - 1 \in 0 .. len
  BY <1>9
<1>11. m - 1 \notin R
  <2>1. ~(m <= m - 1)
    BY <1>10
  <2> QED
    BY <2>1, <1>8
<1>12. IsFiniteSet(below(m - 1)) /\ Cardinality(below(m - 1)) \in Nat
  <2> m - 1 \in Nat
    BY <1>10
  <2> HIDE DEF below
  <2> QED
    BY <1>2
<1>13. Cardinality(below(m - 1)) < n
  <2>1. Cardinality(below(m - 1)) \in Nat
    BY <1>12
  <2>2. ~(Cardinality(below(m - 1)) >= n)
    BY <1>10, <1>11
  <2>3. n \in Nat
    BY <1>3
  <2> HIDE DEF below
  <2> QED
    BY <2>1, <2>2, <2>3
<1> HIDE DEF R
<1>14. \A j \in S : j <= m <=> j <= m - 1 \/ j = m
  BY <1>10
<1>15. below(m) = IF m \in S THEN below(m - 1) \cup {m} ELSE below(m - 1)
  BY <1>14
<1>16. m \notin below(m - 1)
  BY <1>10
<1> HIDE DEF below
<1>17. Cardinality(below(m - 1) \cup {m}) = Cardinality(below(m - 1)) + 1
  BY <1>12, <1>16, FS_AddElement
<1>18. Cardinality(below(m)) \in Nat
  BY <1>2, <1>10
<1>19. m \in S /\ Cardinality(below(m)) = n
  BY <1>9, <1>12, <1>13, <1>15, <1>17, <1>18, <1>3
<1> QED
  BY <1>19 DEF below

(***************************************************************************)
(* Databases.  The inductive invariant is that of a good database: well    *)
(* typed, with sound type entries and without empty collections.           *)
(***************************************************************************)
Good(d) == d \in Databases /\ SoundTags(d) /\ AllFilled(d)

\* The fields of a typed database.
LEMMA DatabaseFields ==
    ASSUME NEW d \in Databases, NEW k \in Keys
    PROVE  /\ d.K[k] # None => d.K[k] \in ValueEntries
           /\ d.T[k] # None => d.T[k] \in TypeEntries
           /\ d.K[k] \in ValueEntries \cup {None}
           /\ d.T[k] \in TypeEntries \cup {None}
BY DEF Databases

\* A database made of two typed tables is typed.
LEMMA MakeDatabase ==
    ASSUME NEW K \in [Keys -> ValueEntries \cup {None}],
           NEW T \in [Keys -> TypeEntries \cup {None}]
    PROVE  /\ [K |-> K, T |-> T] \in Databases
           /\ [K |-> K, T |-> T].K = K
           /\ [K |-> K, T |-> T].T = T
BY DEF Databases

\* A stored value of a typed database is a value, of one of the four kinds.
LEMMA StoredValue ==
    ASSUME NEW d \in Databases, NEW k \in Keys, d.K[k] # None
    PROVE  /\ d.K[k].val \in Values /\ d.K[k].exp \in Nat
           /\ d.K[k].val.kind \in Kinds
<1>1. d.K[k] \in ValueEntries
  BY DatabaseFields
<1>2. d.K[k].val \in Values /\ d.K[k].exp \in Nat
  BY <1>1 DEF ValueEntries
<1> QED
  BY <1>2 DEF Values, Kinds

\* setValue keeps a database good when it is given a filled value under its
\* own kind, or under the type string.
LEMMA SetValueGood ==
    ASSUME NEW d, Good(d), NEW t \in Nat, NEW k \in Keys,
           NEW v \in Values, Filled(v),
           NEW typ \in Kinds, typ = "string" \/ v.kind = typ,
           NEW ttl \in Int
    PROVE  Good(setValue(d, t, k, v, typ, ttl))
<1> DEFINE exp == IF ttl > 0 THEN WithTTL(t, ttl) ELSE 0
<1> DEFINE nK == [d.K EXCEPT ![k] = [val |-> v, exp |-> exp]]
<1> DEFINE nT == [d.T EXCEPT ![k] = [val |-> typ, exp |-> exp]]
<1>1. exp \in Nat
  <2>1. CASE ttl > 0
    <3>1. ttl * TicksPerMs \in Nat
      BY <2>1, TimesNat, ClockAssumption
    <3>2. t + ttl * TicksPerMs >= 0
      BY <3>1
    <3> QED
      BY <2>1, <3>2, WithTTLType
  <2> QED
    BY <2>1
<1> HIDE DEF exp
<1>2. [val |-> v, exp |-> exp] \in ValueEntries
  BY <1>1 DEF ValueEntries
<1>3. [val |-> typ, exp |-> exp] \in TypeEntries
  BY <1>1 DEF TypeEntries
<1>4. /\ d.K \in [Keys -> ValueEntries \cup {None}]
      /\ d.T \in [Keys -> TypeEntries \cup {None}]
  BY DEF Good, Databases
<1>5. /\ nK \in [Keys -> ValueEntries \cup {None}]
      /\ nT \in [Keys -> TypeEntries \cup {None}]
  BY <1>2, <1>3, <1>4
<1>6. /\ setValue(d, t, k, v, typ, ttl) \in Databases
      /\ setValue(d, t, k, v, typ, ttl).K = nK
      /\ setValue(d, t, k, v, typ, ttl).T = nT
  BY <1>5, MakeDatabase DEF setValue, exp
<1>7. \A j \in Keys : /\ nK[j] = IF j = k THEN [val |-> v, exp |-> exp]
                                          ELSE d.K[j]
                      /\ nT[j] = IF j = k THEN [val |-> typ, exp |-> exp]
                                          ELSE d.T[j]
  BY <1>4
<1> HIDE DEF nK, nT
<1>8. SoundTags(setValue(d, t, k, v, typ, ttl))
  BY <1>6, <1>7 DEF Good, SoundTags
<1>9. AllFilled(setValue(d, t, k, v, typ, ttl))
  BY <1>6, <1>7 DEF Good, AllFilled
<1> QED
  BY <1>6, <1>8, <1>9 DEF Good

\* Taking entries away, of either table, keeps a database good.
LEMMA DropGood ==
    ASSUME NEW d, Good(d), NEW A, NEW B
    PROVE  Good([K |-> [k \in Keys |-> IF k \in A THEN None ELSE d.K[k]],
                 T |-> [k \in Keys |-> IF k \in B THEN None ELSE d.T[k]]])
<1> DEFINE nK == [k \in Keys |-> IF k \in A THEN None ELSE d.K[k]]
<1> DEFINE nT == [k \in Keys |-> IF k \in B THEN None ELSE d.T[k]]
<1> DEFINE n == [K |-> nK, T |-> nT]
<1>1. /\ nK \in [Keys -> ValueEntries \cup {None}]
      /\ nT \in [Keys -> TypeEntries \cup {None}]
  BY DatabaseFields DEF Good
<1>2. n \in Databases /\ n.K = nK /\ n.T = nT
  BY <1>1, MakeDatabase
<1>3. \A k \in Keys : /\ nK[k] # None => nK[k] = d.K[k]
                      /\ nT[k] # None => nT[k] = d.T[k]
  OBVIOUS
<1> HIDE DEF nK, nT
<1>4. SoundTags(n)
  BY <1>2, <1>3 DEF Good, SoundTags
<1>5. AllFilled(n)
  BY <1>2, <1>3 DEF Good, AllFilled
<1> QED
  BY <1>2, <1>4, <1>5 DEF Good, nK, nT

\* Deleting keys keeps a database good.
LEMMA DeleteGood ==
    ASSUME NEW d, Good(d), NEW ks
    PROVE  Good(Delete(d, ks))
BY DropGood DEF Delete

\* The lifetime a mutation passes on is a number of milliseconds.
LEMMA OldTTLType ==
    ASSUME NEW d \in Databases, NEW t \in Nat, NEW k \in Keys
    PROVE  oldTTLMs(d, t, k) \in Nat
BY StoredValue, RemainingType DEF oldTTLMs, Exists, Live

\* Storing a filled value under its own kind keeps a database good.
LEMMA ReplaceGood ==
    ASSUME NEW d, Good(d), NEW t \in Nat, NEW k \in Keys,
           NEW v \in Values, Filled(v)
    PROVE  Good(Replace(d, t, k, v))
<1>1. v.kind \in Kinds
  BY DEF Values, Kinds
<1>2. oldTTLMs(d, t, k) \in Int
  BY OldTTLType DEF Good
<1> QED
  BY <1>1, <1>2, SetValueGood DEF Replace

\* So does deleting a key whose collection has become empty.
LEMMA ReplaceOrDeleteGood ==
    ASSUME NEW d, Good(d), NEW t \in Nat, NEW k \in Keys,
           NEW v \in Values, NEW empty, ~empty => Filled(v)
    PROVE  Good(ReplaceOrDelete(d, t, k, v, empty))
BY ReplaceGood, DeleteGood DEF ReplaceOrDelete

\* The type check in front of a command either fails, and keeps the database,
\* or leaves the outcome to the command.
LEMMA TypedGood ==
    ASSUME NEW d, Good(d), NEW t, NEW k, NEW want, NEW o, Good(o.db)
    PROVE  Good(Typed(d, t, k, want, o).db)
BY DEF Typed, Fail, Outcome

(***************************************************************************)
(* The values that commands build.                                         *)
(***************************************************************************)
\* A sequence of chunks makes a string.
LEMMA StrValue ==
    ASSUME NEW s \in Seq(Chunks)
    PROVE  Str(s) \in Values /\ Filled(Str(s)) /\ Str(s).kind = "string"
BY DEF Str, Values, Filled

\* A function from fields to words makes a hash, filled if it has fields.
LEMMA HashValue ==
    ASSUME NEW F \in SUBSET Words, NEW h \in [F -> Words]
    PROVE  Hash(h) \in Values /\ (F # {} => Filled(Hash(h)))
BY DEF Hash, Values, Filled, Hashes

\* A sequence of words makes a list, filled unless it is empty.
LEMMA ListValue ==
    ASSUME NEW s \in Seq(Words)
    PROVE  List(s) \in Values /\ (s # << >> => Filled(List(s)))
BY DEF List, Values, Filled

\* A set of words makes a set, filled unless it is empty.
LEMMA SetValue ==
    ASSUME NEW m \in SUBSET Words
    PROVE  SetOf(m) \in Values /\ (m # {} => Filled(SetOf(m)))
BY DEF SetOf, Values, Filled

\* What a command decodes from a live key has the type of its content.
LEMMA ContentTypes ==
    ASSUME NEW d \in Databases, NEW t, NEW k \in Keys
    PROVE  /\ StringOf(d, t, k) \in Seq(Chunks)
           /\ HashOf(d, t, k) \in Hashes
           /\ ListOf(d, t, k) \in Seq(Words)
           /\ MembersOf(d, t, k) \in SUBSET Words
<1>1. ASSUME Exists(d, t, k) PROVE d.K[k].val \in Values
  BY <1>1, StoredValue DEF Exists, Live
<1>2. StringOf(d, t, k) \in Seq(Chunks)
  <2>1. <<Raw>> \in Seq(Chunks) /\ << >> \in Seq(Chunks)
    BY DEF Chunks
  <2> QED
    BY <1>1, <2>1 DEF StringOf, AsString, Values
<1>3. HashOf(d, t, k) \in Hashes
  <2>1. [f \in {} |-> f] \in [{} -> Words] /\ {} \in SUBSET Words
    OBVIOUS
  <2>2. [f \in {} |-> f] \in Hashes
    BY <2>1 DEF Hashes
  <2>3. CASE Holds(d, t, k, "hash")
    <3>1. d.K[k].val \in Values /\ d.K[k].val.kind = "hash"
      BY <1>1, <2>3 DEF Holds
    <3>2. d.K[k].val.map \in Hashes
      BY <3>1 DEF Values
    <3> QED
      BY <2>3, <3>2 DEF HashOf
  <2> QED
    BY <2>2, <2>3 DEF HashOf
<1>4. ListOf(d, t, k) \in Seq(Words)
  BY <1>1 DEF ListOf, Holds, Values
<1>5. MembersOf(d, t, k) \in SUBSET Words
  BY <1>1 DEF MembersOf, Holds, Values
<1> QED
  BY <1>2, <1>3, <1>4, <1>5

\* A hash is a function from a set of fields to words.
LEMMA HashDomain ==
    ASSUME NEW h \in Hashes
    PROVE  DOMAIN h \in SUBSET Words /\ h \in [DOMAIN h -> Words]
BY DEF Hashes

(***************************************************************************)
(* Every command keeps a database good.                                    *)
(***************************************************************************)
\* What a client sends is a string.
LEMMA TextType == \A s \in Texts : s \in Seq(Chunks)
BY DEF Texts, Chunks

\* SET keeps a database good.
LEMMA SETGood ==
    ASSUME NEW d, Good(d), NEW t \in Nat, NEW c \in SetCommands
    PROVE  Good(SET(d, t, c).db)
<1>1. c.key \in Keys /\ c.val \in Texts /\ c.ttl \in Int
  BY DEF SetCommands
<1>2. Good(setValue(d, t, c.key, Str(c.val), "string", c.ttl))
  BY <1>1, TextType, StrValue, SetValueGood DEF Kinds
<1> QED
  BY <1>2, TypedGood DEF SET, Outcome

\* GETSET keeps a database good.
LEMMA GETSETGood ==
    ASSUME NEW d, Good(d), NEW t \in Nat, NEW c \in TextCommands
    PROVE  Good(GETSET(d, t, c).db)
<1>1. c.key \in Keys /\ c.val \in Texts
  BY DEF TextCommands
<1>2. Good(setValue(d, t, c.key, Str(c.val), "string", 0))
  BY <1>1, TextType, StrValue, SetValueGood DEF Kinds
<1> QED
  BY <1>2, TypedGood DEF GETSET, Outcome

\* APPEND keeps a database good.
LEMMA APPENDGood ==
    ASSUME NEW d, Good(d), NEW t \in Nat, NEW c \in TextCommands
    PROVE  Good(APPEND(d, t, c).db)
<1> DEFINE new == StringOf(d, t, c.key) \o c.val
<1>1. c.key \in Keys /\ c.val \in Texts
  BY DEF TextCommands
<1>2. StringOf(d, t, c.key) \in Seq(Chunks) /\ c.val \in Seq(Chunks)
  BY <1>1, TextType, ContentTypes DEF Good
<1>3. new \in Seq(Chunks)
  BY <1>2
<1>4. Good(Replace(d, t, c.key, Str(new)))
  BY <1>1, <1>3, StrValue, ReplaceGood
<1> QED
  BY <1>4, TypedGood DEF APPEND, Outcome

\* MSET keeps a database good.
LEMMA MSETGood ==
    ASSUME NEW d, Good(d), NEW t \in Nat, NEW c \in MSetCommands
    PROVE  Good(MSET(d, t, c).db)
<1> DEFINE at(k)  == {i \in DOMAIN c.pairs : c.pairs[i][1] = k}
<1> DEFINE val(k) == c.pairs[CHOOSE i \in at(k) : \A j \in at(k) : j <= i][2]
<1> DEFINE nK == [k \in Keys |-> IF at(k) = {} THEN d.K[k]
                                 ELSE [val |-> Str(val(k)), exp |-> 0]]
<1> DEFINE nT == [k \in Keys |-> IF at(k) = {} THEN d.T[k]
                                 ELSE [val |-> "string", exp |-> 0]]
<1> DEFINE n == [K |-> nK, T |-> nT]
<1>1. c.pairs \in Seq(Keys \X Texts)
  BY DEF MSetCommands
<1>2. ASSUME NEW k \in Keys, at(k) # {}
      PROVE  val(k) \in Seq(Chunks)
  <2>1. at(k) \in SUBSET (1 .. Len(c.pairs)) /\ Len(c.pairs) \in Nat
    BY <1>1
  <2>2. \E i \in at(k) : \A j \in at(k) : j <= i
    BY <1>2, <2>1, GreatestElement
  <2>3. PICK i \in at(k) : val(k) = c.pairs[i][2]
    BY <2>2
  <2>4. c.pairs[i] \in Keys \X Texts
    BY <1>1
  <2>5. val(k) \in Texts
    BY <2>3, <2>4
  <2> QED
    BY <2>5, TextType
<1> HIDE DEF val
<1>3. ASSUME NEW k \in Keys, at(k) # {}
      PROVE  /\ [val |-> Str(val(k)), exp |-> 0] \in ValueEntries
             /\ [val |-> "string", exp |-> 0] \in TypeEntries
             /\ Filled(Str(val(k)))
  BY <1>2, <1>3, StrValue DEF ValueEntries, TypeEntries, Kinds
<1> HIDE DEF at
<1>4. /\ nK \in [Keys -> ValueEntries \cup {None}]
      /\ nT \in [Keys -> TypeEntries \cup {None}]
  BY <1>3, DatabaseFields DEF Good
<1>5. n \in Databases /\ n.K = nK /\ n.T = nT
  BY <1>4, MakeDatabase
<1>6. SoundTags(n)
  BY <1>5 DEF Good, SoundTags
<1>7. AllFilled(n)
  BY <1>3, <1>5 DEF Good, AllFilled
<1>8. MSET(d, t, c).db = n
  BY DEF MSET, Outcome, at, val
<1> HIDE DEF n
<1> QED
  BY <1>5, <1>6, <1>7, <1>8 DEF Good

\* DEL keeps a database good.
LEMMA DELGood ==
    ASSUME NEW d, Good(d), NEW t \in Nat, NEW c \in DelCommands
    PROVE  Good(DEL(d, t, c).db)
<1>1. c.key = None
  BY DEF DelCommands
<1> QED
  BY <1>1, DeleteGood DEF DEL, Outcome

\* FLUSHDB keeps a database good.
LEMMA FLUSHDBGood ==
    ASSUME NEW d, Good(d), NEW t \in Nat, NEW c
    PROVE  Good(FLUSHDB(d, t, c).db)
<1> DEFINE A == {k \in Keys : Live(d.K[k], t)}
<1> DEFINE B == {k \in Keys : Live(d.T[k], t)}
<1>1. /\ [k \in Keys |-> IF Live(d.K[k], t) THEN None ELSE d.K[k]]
         = [k \in Keys |-> IF k \in A THEN None ELSE d.K[k]]
      /\ [k \in Keys |-> IF Live(d.T[k], t) THEN None ELSE d.T[k]]
         = [k \in Keys |-> IF k \in B THEN None ELSE d.T[k]]
  OBVIOUS
<1>2. Good([K |-> [k \in Keys |-> IF k \in A THEN None ELSE d.K[k]],
            T |-> [k \in Keys |-> IF k \in B THEN None ELSE d.T[k]]])
  BY DropGood
<1> HIDE DEF A, B
<1> QED
  BY <1>1, <1>2 DEF FLUSHDB, Outcome

\* INCR, DECR, INCRBY and DECRBY keep a database good.
LEMMA INCRGood ==
    ASSUME NEW d, Good(d), NEW t \in Nat, NEW c \in IncrCommands
    PROVE  Good(INCR(d, t, c).db)
<1> DEFINE old == IF Exists(d, t, c.key) THEN StringOf(d, t, c.key) ELSE <<0>>
<1> DEFINE new == Wrap64(IF c.op \in {"INCR", "INCRBY"} THEN old[1] + c.by[1]
                                                        ELSE old[1] - c.by[1])
<1> DEFINE o == IF IsInteger(old) /\ IsInteger(c.by)
                THEN Outcome(Replace(d, t, c.key, Str(<<new>>)), IntReply(new))
                ELSE Fail(d, "NOTINTEGER")
<1>1. c.key \in Keys
  BY DEF IncrCommands
<1>2. Good(o.db)
  <2>1. CASE IsInteger(old) /\ IsInteger(c.by)
    <3>1. old[1] \in Int /\ c.by[1] \in Int
      BY <2>1, ClockAssumption DEF IsInteger, Int64
    <3>2. new \in Int64
      BY <3>1, Wrap64Type
    <3>3. <<new>> \in Seq(Chunks)
      BY <3>2 DEF Chunks
    <3> HIDE DEF new
    <3>4. Good(Replace(d, t, c.key, Str(<<new>>)))
      BY <1>1, <3>3, StrValue, ReplaceGood
    <3> QED
      BY <2>1, <3>4 DEF Outcome
  <2> QED
    BY <2>1 DEF Fail, Outcome
<1> QED
  BY <1>2, TypedGood DEF INCR

\* EXPIRE keeps a database good, when no lifetime leads back to the epoch.
LEMMA EXPIREGood ==
    ASSUME NEW d, Good(d), NEW t \in Nat, NEW c \in ExpireCommands,
           t + c.ttl * TicksPerMs >= 0
    PROVE  Good(EXPIRE(d, t, c).db)
<1> DEFINE e  == [val |-> d.K[c.key].val, exp |-> WithTTL(t, c.ttl)]
<1> DEFINE nK == [d.K EXCEPT ![c.key] = e]
<1> DEFINE n  == [d EXCEPT !.K = nK]
<1>1. c.key \in Keys /\ c.ttl \in Int
  BY DEF ExpireCommands
<1>2. CASE Exists(d, t, c.key)
  <2>1. d.K[c.key] # None
    BY <1>2 DEF Exists, Live
  <2>2. e \in ValueEntries
    BY <1>1, <2>1, StoredValue, WithTTLType DEF Good, ValueEntries
  <2>3. d.K \in [Keys -> ValueEntries \cup {None}]
    BY DEF Good, Databases
  <2>4. nK \in [Keys -> ValueEntries \cup {None}]
    BY <2>2, <2>3
  <2>5. n \in Databases /\ n.K = nK /\ n.T = d.T
    BY <2>4 DEF Good, Databases
  <2>6. \A k \in Keys : nK[k] # None =>
                           d.K[k] # None /\ nK[k].val = d.K[k].val
    BY <2>1, <2>3
  <2> HIDE DEF nK
  <2>7. SoundTags(n) /\ AllFilled(n)
    BY <2>5, <2>6 DEF Good, SoundTags, AllFilled
  <2>8. Good(n)
    BY <2>5, <2>7 DEF Good
  <2> HIDE DEF n
  <2> QED
    BY <1>2, <2>8 DEF EXPIRE, Outcome, n, nK
<1>3. CASE ~Exists(d, t, c.key)
  BY <1>3 DEF EXPIRE, Outcome
<1> QED
  BY <1>2, <1>3

\* PERSIST keeps a database good: the type it stores is the live one, or
\* string.
LEMMA PERSISTGood ==
    ASSUME NEW d, Good(d), NEW t \in Nat, NEW c \in PersistCommands
    PROVE  Good(PERSIST(d, t, c).db)
<1> DEFINE typ == getExistingType(d, t, c.key)
<1>1. c.key \in Keys
  BY DEF PersistCommands
<1>2. CASE Exists(d, t, c.key) /\ d.K[c.key].exp # 0
  <2>1. d.K[c.key] # None
    BY <1>2 DEF Exists, Live
  <2>2. typ \in Kinds
    BY <1>1, DatabaseFields
    DEF getExistingType, Live, Good, TypeEntries, Kinds
  <2>3. typ = "string" \/ d.K[c.key].val.kind = typ
    BY <1>1, <2>1 DEF getExistingType, Live, Good, SoundTags
  <2>4. d.K[c.key].val \in Values /\ Filled(d.K[c.key].val)
    BY <1>1, <2>1, StoredValue DEF Good, AllFilled
  <2>5. Good(setValue(d, t, c.key, d.K[c.key].val, typ, 0))
    BY <1>1, <2>2, <2>3, <2>4, SetValueGood
  <2> QED
    BY <1>2, <2>5 DEF PERSIST, Outcome
<1>3. CASE ~(Exists(d, t, c.key) /\ d.K[c.key].exp # 0)
  BY <1>3 DEF PERSIST, Outcome
<1> QED
  BY <1>2, <1>3

\* The fields that HSET and HSETNX name, and the hash they build.
FieldsOf(c) == {f \in Words : {i \in DOMAIN c.pairs : c.pairs[i][1] = f} # {}}

HashAfter(d, t, c) ==
    LET old    == HashOf(d, t, c.key)
        at(f)  == {i \in DOMAIN c.pairs : c.pairs[i][1] = f}
        nx     == c.op = "HSETNX"
        val(f) == c.pairs[CHOOSE i \in at(f) :
                            \A j \in at(f) : IF nx THEN i <= j ELSE j <= i][2]
    IN  [f \in DOMAIN old \cup FieldsOf(c) |->
            IF f \notin FieldsOf(c) \/ (nx /\ f \in DOMAIN old)
            THEN old[f] ELSE val(f)]

\* HSET and HSETNX in these terms.
LEMMA HSETOutcome ==
    ASSUME NEW d, NEW t, NEW c
    PROVE  HSET(d, t, c) =
             Typed(d, t, c.key, "hash",
                   Outcome(Replace(d, t, c.key, Hash(HashAfter(d, t, c))),
                           IntReply(Cardinality(FieldsOf(c) \ DOMAIN HashOf(d, t, c.key)))))
BY DEF HSET, HashAfter, FieldsOf

\* They build a hash with at least one field.
LEMMA HashAfterType ==
    ASSUME NEW d \in Databases, NEW t, NEW c \in HSetCommands
    PROVE  LET F == DOMAIN HashOf(d, t, c.key) \cup FieldsOf(c)
           IN  /\ F \in SUBSET Words /\ F # {} /\ FieldsOf(c) \in SUBSET Words
               /\ HashAfter(d, t, c) \in [F -> Words]
<1> DEFINE old    == HashOf(d, t, c.key)
<1> DEFINE at(f)  == {i \in DOMAIN c.pairs : c.pairs[i][1] = f}
<1> DEFINE fields == FieldsOf(c)
<1> DEFINE nx     == c.op = "HSETNX"
<1> DEFINE val(f) == c.pairs[CHOOSE i \in at(f) :
                         \A j \in at(f) : IF nx THEN i <= j ELSE j <= i][2]
<1> DEFINE F      == DOMAIN old \cup fields
<1> DEFINE new    == [f \in F |->
                         IF f \notin fields \/ (nx /\ f \in DOMAIN old)
                         THEN old[f] ELSE val(f)]
<1>1. c.key \in Keys /\ c.pairs \in Seq(Words \X Words) /\ c.pairs # << >>
  BY DEF HSetCommands
<1>2. DOMAIN old \in SUBSET Words /\ old \in [DOMAIN old -> Words]
  BY <1>1, ContentTypes, HashDomain
<1>3. ASSUME NEW f \in fields PROVE val(f) \in Words
  <2>1. at(f) \in SUBSET (1 .. Len(c.pairs)) /\ Len(c.pairs) \in Nat
    BY <1>1
  <2>2. at(f) # {} /\ at(f) \in SUBSET Nat
    BY <2>1 DEF FieldsOf
  <2> HIDE DEF at
  <2>3. \E i \in at(f) : \A j \in at(f) : IF nx THEN i <= j ELSE j <= i
    BY <2>1, <2>2, LeastElement, GreatestElement
  <2>4. PICK i \in at(f) : val(f) = c.pairs[i][2]
    BY <2>3
  <2>5. c.pairs[i] \in Words \X Words
    BY <1>1 DEF at
  <2> QED
    BY <2>4, <2>5
<1>4. fields # {} /\ fields \in SUBSET Words
  <2>1. 1 \in DOMAIN c.pairs /\ c.pairs[1] \in Words \X Words
    BY <1>1
  <2>2. c.pairs[1][1] \in Words /\ 1 \in at(c.pairs[1][1])
    BY <2>1
  <2> QED
    BY <2>2 DEF FieldsOf
<1>5. HashAfter(d, t, c) = new
  BY DEF HashAfter
<1> HIDE DEF old, val, at, fields
<1>6. new \in [F -> Words]
  BY <1>2, <1>3, <1>4
<1>7. F \in SUBSET Words /\ F # {}
  BY <1>2, <1>4
<1> QED
  BY <1>4, <1>5, <1>6, <1>7 DEF old, fields

\* HSET and HSETNX keep a database good.
LEMMA HSETGood ==
    ASSUME NEW d, Good(d), NEW t \in Nat, NEW c \in HSetCommands
    PROVE  Good(HSET(d, t, c).db)
<1> DEFINE F   == DOMAIN HashOf(d, t, c.key) \cup FieldsOf(c)
           new == HashAfter(d, t, c)
           n   == Cardinality(FieldsOf(c) \ DOMAIN HashOf(d, t, c.key))
           o   == Outcome(Replace(d, t, c.key, Hash(new)), IntReply(n))
<1>1. c.key \in Keys /\ d \in Databases
  BY DEF HSetCommands, Good
<1>2. F \in SUBSET Words /\ F # {} /\ new \in [F -> Words]
  BY <1>1, HashAfterType
<1>3. HSET(d, t, c) = Typed(d, t, c.key, "hash", o)
  BY HSETOutcome
<1> HIDE DEF F, new, n
<1>4. Hash(new) \in Values /\ Filled(Hash(new))
  BY <1>2, HashValue
<1>5. Good(Replace(d, t, c.key, Hash(new)))
  BY <1>1, <1>4, ReplaceGood
<1>6. Good(o.db)
  BY <1>5 DEF Outcome
<1> QED
  BY <1>3, <1>6, TypedGood

\* HDEL keeps a database good.
LEMMA HDELGood ==
    ASSUME NEW d, Good(d), NEW t \in Nat, NEW c \in RemoveCommands
    PROVE  Good(HDEL(d, t, c).db)
<1> DEFINE old  == HashOf(d, t, c.key)
<1> DEFINE gone == {f \in DOMAIN old : \E i \in DOMAIN c.words : c.words[i] = f}
<1> DEFINE F    == DOMAIN old \ gone
<1> DEFINE new  == [f \in F |-> old[f]]
<1> DEFINE w    == ReplaceOrDelete(d, t, c.key, Hash(new), DOMAIN new = {})
<1>1. c.key \in Keys
  BY DEF RemoveCommands
<1>2. DOMAIN old \in SUBSET Words /\ old \in [DOMAIN old -> Words]
  BY <1>1, ContentTypes, HashDomain DEF Good
<1> HIDE DEF old, gone
<1>3. F \in SUBSET Words /\ new \in [F -> Words] /\ DOMAIN new = F
  BY <1>2
<1>4. Hash(new) \in Values /\ (DOMAIN new # {} => Filled(Hash(new)))
  BY <1>3, HashValue
<1> HIDE DEF new
<1>5. Good(w)
  BY <1>1, <1>4, ReplaceOrDeleteGood
<1> HIDE DEF w
<1> DEFINE o == IF Exists(d, t, c.key)
                THEN Outcome(w, IntReply(Cardinality(gone)))
                ELSE Outcome(d, IntReply(0))
<1>6. Good(o.db)
  BY <1>5 DEF Outcome
<1>7. HDEL(d, t, c) = Typed(d, t, c.key, "hash", o)
  BY DEF HDEL, w, new, old, gone
<1> QED
  BY <1>6, <1>7, TypedGood

\* A list read backwards is a list of the same length.
LEMMA ReversedType ==
    ASSUME NEW s \in Seq(Words)
    PROVE  Reversed(s) \in Seq(Words) /\ Len(Reversed(s)) = Len(s)
<1>1. Len(s) \in Nat /\ \A i \in 1 .. Len(s) : s[Len(s) + 1 - i] \in Words
  BY ElementOfSeq, LenProperties
<1>2. Reversed(s) \in [1 .. Len(s) -> Words]
  BY <1>1 DEF Reversed
<1> QED
  BY <1>1, <1>2, IsASeq, LenProperties

\* The pushes keep a database good.
LEMMA PUSHGood ==
    ASSUME NEW d, Good(d), NEW t \in Nat, NEW c \in AddCommands
    PROVE  Good(PUSH(d, t, c).db)
<1> DEFINE old == ListOf(d, t, c.key)
<1> DEFINE new == IF c.op \in {"LPUSH", "LPUSHX"} THEN Reversed(c.words) \o old
                                                  ELSE old \o c.words
<1>1. c.key \in Keys /\ c.words \in Seq(Words) /\ c.words # << >>
  BY DEF AddCommands
<1>2. old \in Seq(Words)
  BY <1>1, ContentTypes DEF Good
<1>3. Reversed(c.words) \in Seq(Words) /\ Reversed(c.words) # << >>
  BY <1>1, ReversedType, EmptySeq
<1>4. new \in Seq(Words) /\ new # << >>
  BY <1>1, <1>2, <1>3
<1>5. List(new) \in Values /\ Filled(List(new))
  BY <1>4, ListValue
<1> HIDE DEF new
<1>6. Good(Replace(d, t, c.key, List(new)))
  BY <1>1, <1>5, ReplaceGood
<1> DEFINE o == IF c.op \in {"LPUSHX", "RPUSHX"} /\ ~Exists(d, t, c.key)
                THEN Outcome(d, IntReply(0))
                ELSE Outcome(Replace(d, t, c.key, List(new)), IntReply(Len(new)))
<1>7. Good(o.db)
  BY <1>6 DEF Outcome
<1>8. PUSH(d, t, c) = Typed(d, t, c.key, "list", o)
  BY DEF PUSH, new
<1> QED
  BY <1>7, <1>8, TypedGood

\* A stretch of a list is a list.
LEMMA SubSeqType ==
    ASSUME NEW s \in Seq(Words), NEW i \in Int, NEW j \in Int,
           1 <= i, j <= Len(s)
    PROVE  SubSeq(s, i, j) \in Seq(Words)
<1>1. Len(s) \in Nat /\ \A k \in 1 .. Len(s) : s[k] \in Words
  BY ElementOfSeq, LenProperties
<1>2. CASE i > j
  BY <1>2, <1>1, SubSeqEmpty, EmptySeq
<1>3. CASE i <= j
  <2>1. \A k \in i .. j : s[k] \in Words
    BY <1>1
  <2> QED
    BY <1>1, <1>3, <2>1, SubSeqProperties
<1> QED
  BY <1>2, <1>3

\* LPOP and RPOP keep a database good.
LEMMA POPGood ==
    ASSUME NEW d, Good(d), NEW t \in Nat, NEW c \in PopCommands
    PROVE  Good(POP(d, t, c).db)
<1> DEFINE old  == ListOf(d, t, c.key)
<1> DEFINE n    == IF c.count = << >> THEN 1
                   ELSE IF c.count[1] > Len(old) THEN Len(old) ELSE c.count[1]
<1> DEFINE left == c.op = "LPOP"
<1> DEFINE new  == IF left THEN SubSeq(old, n + 1, Len(old))
                           ELSE SubSeq(old, 1, Len(old) - n)
<1> DEFINE out  == IF left THEN SubSeq(old, 1, n)
                           ELSE SubSeq(Reversed(old), 1, n)
<1> DEFINE w    == ReplaceOrDelete(d, t, c.key, List(new), new = << >>)
<1> DEFINE bad  == c.count # << >> /\ ~(IsInteger(c.count) /\ c.count[1] >= 0)
<1> DEFINE o    == IF old = << >> THEN Outcome(d, NilReply)
                   ELSE IF bad THEN Fail(d, "NOTINTEGER")
                   ELSE Outcome(w, IF c.count = << >> THEN BulkReply(out)
                                                      ELSE ArrayReply(out))
<1>1. c.key \in Keys /\ c.count \in Seq(Int)
  BY DEF PopCommands
<1>2. old \in Seq(Words)
  BY <1>1, ContentTypes DEF Good
<1> HIDE DEF old
<1>3. ASSUME old # << >>, ~bad
      PROVE  Good(w)
  <2>1. Len(old) \in Nat /\ Len(old) >= 1
    BY <1>2, <1>3
  <2>2. n \in Nat
    <3>1. CASE c.count = << >>
      BY <3>1
    <3>2. CASE c.count # << >>
      <4>1. c.count[1] \in Int64 /\ c.count[1] >= 0
        BY <1>3, <3>2 DEF IsInteger
      <4>2. c.count[1] \in Nat
        BY <4>1, ClockAssumption DEF Int64
      <4> QED
        BY <2>1, <4>2
    <3> QED
      BY <3>1, <3>2
  <2> HIDE DEF n
  <2>3. new \in Seq(Words)
    BY <1>2, <2>1, <2>2, SubSeqType
  <2> HIDE DEF new
  <2> QED
    BY <1>1, <2>3, ListValue, ReplaceOrDeleteGood
<1> HIDE DEF w, bad, n, new, out
<1>4. Good(o.db)
  BY <1>3 DEF Outcome, Fail
<1>5. POP(d, t, c) = Typed(d, t, c.key, "list", o)
  BY DEF POP, w, bad, n, new, out, old
<1> QED
  BY <1>4, <1>5, TypedGood

\* A slice of a list is a list.
LEMMA SliceType ==
    ASSUME NEW s \in Seq(Words), NEW start \in Int, NEW stop \in Int
    PROVE  sliceList(s, start, stop) \in Seq(Words)
<1> DEFINE len  == Len(s)
<1> DEFINE fst  == IF start < 0 THEN len + start ELSE start
<1> DEFINE lst  == IF stop < 0 THEN len + stop ELSE stop
<1> DEFINE from == IF fst < 0 THEN 0 ELSE fst
<1> DEFINE to   == IF lst >= len THEN len - 1 ELSE lst
<1>1. len \in Nat
  OBVIOUS
<1>2. from + 1 \in Int /\ to + 1 \in Int /\ 1 <= from + 1 /\ to + 1 <= len
  BY <1>1
<1> HIDE DEF from, to
<1>3. SubSeq(s, from + 1, to + 1) \in Seq(Words)
  BY <1>2, SubSeqType
<1> QED
  BY <1>3, EmptySeq DEF sliceList, from, to

\* LTRIM keeps a database good.
LEMMA LTRIMGood ==
    ASSUME NEW d, Good(d), NEW t \in Nat, NEW c \in LTrimCommands
    PROVE  Good(LTRIM(d, t, c).db)
<1> DEFINE new == sliceList(ListOf(d, t, c.key), c.start, c.stop)
<1>1. c.key \in Keys /\ c.start \in Int /\ c.stop \in Int
  BY DEF LTrimCommands
<1>2. new \in Seq(Words)
  BY <1>1, ContentTypes, SliceType DEF Good
<1> HIDE DEF new
<1>3. Good(ReplaceOrDelete(d, t, c.key, List(new), new = << >>))
  BY <1>1, <1>2, ListValue, ReplaceOrDeleteGood
<1> QED
  BY <1>3, TypedGood DEF LTRIM, Outcome, new

\* Some positions of a list, in their order, make a list of as many elements.
LEMMA KeptList ==
    ASSUME NEW s \in Seq(Words), NEW kept \in SUBSET (1 .. Len(s))
    PROVE  LET rank(i) == Cardinality({j \in kept : j <= i})
               new     == [n \in 1 .. Cardinality(kept) |->
                              s[CHOOSE i \in kept : rank(i) = n]]
           IN  /\ new \in Seq(Words) /\ Len(new) = Cardinality(kept)
               /\ IsFiniteSet(kept) /\ Cardinality(kept) \in Nat
               /\ kept = {} <=> new = << >>
<1> DEFINE rank(i) == Cardinality({j \in kept : j <= i})
<1> DEFINE new  == [n \in 1 .. Cardinality(kept) |->
                       s[CHOOSE i \in kept : rank(i) = n]]
<1>1. Len(s) \in Nat
  OBVIOUS
<1>2. IsFiniteSet(kept) /\ Cardinality(kept) \in Nat
  <2>1. IsFiniteSet(1 .. Len(s))
    BY <1>1, FS_Interval
  <2> QED
    BY <2>1, FS_Subset, FS_CardinalityType
<1>3. \A n \in 1 .. Cardinality(kept) :
         s[CHOOSE i \in kept : rank(i) = n] \in Words
  <2> TAKE n \in 1 .. Cardinality(kept)
  <2>1. \E i \in kept : rank(i) = n
    BY <1>1, NthElement
  <2> HIDE DEF rank
  <2>2. (CHOOSE i \in kept : rank(i) = n) \in 1 .. Len(s)
    BY <2>1
  <2> QED
    BY <2>2, ElementOfSeq
<1> HIDE DEF rank
<1>4. new \in [1 .. Cardinality(kept) -> Words]
  BY <1>3
<1> HIDE DEF new
<1>5. new \in Seq(Words) /\ Len(new) = Cardinality(kept)
  <2>1. new \in Seq(Words) /\ DOMAIN new = 1 .. Cardinality(kept)
    BY <1>2, <1>4, IsASeq
  <2> QED
    BY <1>2, <2>1, LenProperties
<1>6. kept = {} <=> new = << >>
  BY <1>2, <1>5, FS_EmptySet, EmptySeq
<1> QED
  BY <1>2, <1>5, <1>6 DEF new, rank

\* LREM keeps a database good: what it keeps is a list, and an empty one is
\* deleted.
LEMMA LREMGood ==
    ASSUME NEW d, Good(d), NEW t \in Nat, NEW c \in LRemCommands
    PROVE  Good(LREM(d, t, c).db)
<1> DEFINE old  == ListOf(d, t, c.key)
<1> DEFINE hits == {i \in DOMAIN old : old[i] = c.val}
<1> DEFINE gone == {i \in hits :
               \/ c.limit = 0
               \/ c.limit > 0 /\ Cardinality({j \in hits : j < i}) < c.limit
               \/ c.limit < 0 /\ Cardinality({j \in hits : j > i}) < -c.limit}
<1> DEFINE kept == DOMAIN old \ gone
<1> DEFINE rank(i) == Cardinality({j \in kept : j <= i})
<1> DEFINE new  == [n \in 1 .. Cardinality(kept) |->
                       old[CHOOSE i \in kept : rank(i) = n]]
<1> DEFINE w == ReplaceOrDelete(d, t, c.key, List(new), kept = {})
<1> DEFINE o == Outcome(w, IntReply(Cardinality(gone)))
<1>1. c.key \in Keys
  BY DEF LRemCommands
<1>2. old \in Seq(Words)
  BY <1>1, ContentTypes DEF Good
<1> HIDE DEF old
<1>3. kept \in SUBSET (1 .. Len(old))
  BY <1>2, LenProperties
<1> HIDE DEF kept
<1>4. new \in Seq(Words) /\ (kept # {} => new # << >>)
  BY <1>2, <1>3, KeptList
<1> HIDE DEF rank, new
<1>5. Good(w)
  BY <1>1, <1>4, ListValue, ReplaceOrDeleteGood
<1> HIDE DEF w
<1>6. Good(o.db)
  BY <1>5 DEF Outcome
<1>7. LREM(d, t, c) = Typed(d, t, c.key, "list", o)
  BY DEF LREM, w, new, rank, kept, old
<1> QED
  BY <1>6, <1>7, TypedGood

\* SADD keeps a database good.
LEMMA SADDGood ==
    ASSUME NEW d, Good(d), NEW t \in Nat, NEW c \in AddCommands
    PROVE  Good(SADD(d, t, c).db)
<1> DEFINE old  == MembersOf(d, t, c.key)
<1> DEFINE args == {c.words[i] : i \in DOMAIN c.words}
<1>1. c.key \in Keys /\ c.words \in Seq(Words) /\ c.words # << >>
  BY DEF AddCommands
<1>2. old \in SUBSET Words
  BY <1>1, ContentTypes DEF Good
<1> HIDE DEF old
<1>3. args \in SUBSET Words
  BY <1>1
<1>4. 1 \in DOMAIN c.words
  BY <1>1
<1>5. args # {}
  BY <1>4
<1> HIDE DEF args
<1>6. SetOf(old \cup args) \in Values /\ Filled(SetOf(old \cup args))
  BY <1>2, <1>3, <1>5, SetValue
<1>7. Good(Replace(d, t, c.key, SetOf(old \cup args)))
  BY <1>1, <1>6, ReplaceGood
<1> QED
  BY <1>7, TypedGood DEF SADD, Outcome, old, args

\* Taking members away keeps a database good.
LEMMA RemovedGood ==
    ASSUME NEW d, Good(d), NEW t \in Nat, NEW c, c.key \in Keys,
           NEW gone, NEW reply
    PROVE  Good(Removed(d, t, c, gone, reply).db)
<1> DEFINE new == MembersOf(d, t, c.key) \ gone
<1>1. new \in SUBSET Words
  BY ContentTypes DEF Good
<1> HIDE DEF new
<1>2. Good(ReplaceOrDelete(d, t, c.key, SetOf(new), new = {}))
  BY <1>1, SetValue, ReplaceOrDeleteGood
<1> QED
  BY <1>2, TypedGood DEF Removed, Outcome, new

\* SREM keeps a database good.
LEMMA SREMGood ==
    ASSUME NEW d, Good(d), NEW t \in Nat, NEW c \in RemoveCommands
    PROVE  Good(SREM(d, t, c).db)
<1>1. c.key \in Keys
  BY DEF RemoveCommands
<1> QED
  BY <1>1, RemovedGood DEF SREM, Outcome

\* SPOP keeps a database good, whatever members it takes.
LEMMA SPOPGood ==
    ASSUME NEW d, Good(d), NEW t \in Nat, NEW c \in PopCommands,
           NEW o \in SPOP(d, t, c)
    PROVE  Good(o.db)
<1>1. c.key \in Keys
  BY DEF PopCommands
<1>2. CASE Exists(d, t, c.key)
  <2>1. PICK gone, reply : o = Removed(d, t, c, gone, reply)
    BY <1>2 DEF SPOP
  <2> QED
    BY <1>1, <2>1, RemovedGood
<1>3. CASE ~Exists(d, t, c.key)
  BY <1>3 DEF SPOP, Outcome
<1> QED
  BY <1>2, <1>3

\* FSM.Apply keeps the database good, whatever command is committed.
LEMMA ApplyGood ==
    ASSUME NEW d, Good(d), NEW t \in Nat, NEW c \in CommandSpace,
           c.op = "EXPIRE" => t + c.ttl * TicksPerMs >= 0,
           NEW o \in applyCmdInTxn(d, t, c)
    PROVE  Good(o.db)
<1> USE DEF applyCmdInTxn
<1>2. CASE c \in SetCommands
  BY <1>2, SETGood DEF SetCommands
<1>3. CASE c \in TextCommands
  BY <1>3, GETSETGood, APPENDGood DEF TextCommands
<1>4. CASE c \in MSetCommands
  BY <1>4, MSETGood DEF MSetCommands
<1>5. CASE c \in DelCommands
  BY <1>5, DELGood DEF DelCommands
<1>6. CASE c \in FlushCommands
  BY <1>6, FLUSHDBGood DEF FlushCommands
<1>7. CASE c \in IncrCommands
  BY <1>7, INCRGood DEF IncrCommands
<1>8. CASE c \in ExpireCommands
  BY <1>8, EXPIREGood DEF ExpireCommands
<1>9. CASE c \in PersistCommands
  BY <1>9, PERSISTGood DEF PersistCommands
<1>10. CASE c \in HSetCommands
  BY <1>10, HSETGood DEF HSetCommands
<1>11. CASE c \in AddCommands
  BY <1>11, PUSHGood, SADDGood DEF AddCommands
<1>12. CASE c \in RemoveCommands
  BY <1>12, HDELGood, SREMGood DEF RemoveCommands
<1>13. CASE c \in PopCommands
  BY <1>13, POPGood, SPOPGood DEF PopCommands
<1>14. CASE c \in LTrimCommands
  BY <1>14, LTRIMGood DEF LTrimCommands
<1>15. CASE c \in LRemCommands
  BY <1>15, LREMGood DEF LRemCommands
<1> QED
  BY <1>2, <1>3, <1>4, <1>5, <1>6, <1>7, <1>8, <1>9, <1>10, <1>11,
     <1>12, <1>13, <1>14, <1>15 DEF CommandSpace

(***************************************************************************)
(* A value that passes the type check decodes.                             *)
(***************************************************************************)
Decodes(reply) == reply # ErrorReply("DECODE")

\* No reply but the one for a failed decoding is the error DECODE.
LEMMA OtherReplies ==
    /\ Decodes(OKReply) /\ Decodes(NilReply)
    /\ \A x : /\ Decodes(IntReply(x)) /\ Decodes(BulkReply(x))
              /\ Decodes(ArrayReply(x)) /\ Decodes(SetReply(x))
    /\ Decodes(ErrorReply("WRONGTYPE")) /\ Decodes(ErrorReply("NOTINTEGER"))
<1>1. ErrorReply("DECODE").type = "error" /\ ErrorReply("DECODE").err = "DECODE"
  BY DEF ErrorReply
<1>2. OKReply.type = "ok" /\ NilReply.type = "nil"
  BY DEF OKReply, NilReply
<1>3. \A x : /\ IntReply(x).type = "int" /\ BulkReply(x).type = "bulk"
            /\ ArrayReply(x).type = "array" /\ SetReply(x).type = "set"
  BY DEF IntReply, BulkReply, ArrayReply, SetReply
<1>4. /\ ErrorReply("WRONGTYPE").err = "WRONGTYPE"
      /\ ErrorReply("NOTINTEGER").err = "NOTINTEGER"
  BY DEF ErrorReply
<1> QED
  BY <1>1, <1>2, <1>3, <1>4 DEF Decodes

\* With sound type entries, a live key of the wanted type decodes.
LEMMA CheckedDecodes ==
    ASSUME NEW d, SoundTags(d), NEW t, NEW k \in Keys, NEW want,
           ensureExistingType(d, t, k, want)
    PROVE  ~DecodeFails(d, t, k, want)
BY DEF DecodeFails, ensureExistingType, getExistingType, Exists, Live, SoundTags

\* So the guard of a command never replies DECODE.
LEMMA TypedDecodes ==
    ASSUME NEW d, SoundTags(d), NEW t, NEW k \in Keys, NEW want, NEW o,
           Decodes(o.reply)
    PROVE  Decodes(Typed(d, t, k, want, o).reply)
<1>1. Decodes(Fail(d, "WRONGTYPE").reply)
  BY OtherReplies DEF Fail, Outcome
<1>2. DecodeFails(d, t, k, want) => WrongType(d, t, k, want)
  BY CheckedDecodes DEF WrongType, DecodeFails
<1> QED
  BY <1>1, <1>2 DEF Typed

\* No command that replies DECODE.
LEMMA CommandsDecode ==
    ASSUME NEW d, SoundTags(d), NEW t, NEW c \in CommandSpace,
           NEW o \in applyCmdInTxn(d, t, c)
    PROVE  Decodes(o.reply)
<1> USE DEF applyCmdInTxn, Outcome
<1>2. CASE c \in SetCommands
  <2>1. c.op = "SET" /\ c.key \in Keys
    BY <1>2 DEF SetCommands
  <2>2. Decodes(SET(d, t, c).reply)
    BY <2>1, TypedDecodes, OtherReplies DEF SET, OldReply
  <2> QED
    BY <2>1, <2>2
<1>3. CASE c \in TextCommands
  <2>1. c.op \in {"GETSET", "APPEND"} /\ c.key \in Keys
    BY <1>3 DEF TextCommands
  <2>2. Decodes(GETSET(d, t, c).reply)
    BY <2>1, TypedDecodes, OtherReplies DEF GETSET, OldReply
  <2>3. Decodes(APPEND(d, t, c).reply)
    BY <2>1, TypedDecodes, OtherReplies DEF APPEND
  <2> QED
    BY <2>1, <2>2, <2>3
<1>4. CASE c \in MSetCommands
  BY <1>4, OtherReplies DEF MSetCommands, MSET
<1>5. CASE c \in DelCommands
  BY <1>5, OtherReplies DEF DelCommands, DEL
<1>6. CASE c \in FlushCommands
  BY <1>6, OtherReplies DEF FlushCommands, FLUSHDB
<1>7. CASE c \in IncrCommands
  <2>1. c.op \in {"INCR", "DECR", "INCRBY", "DECRBY"} /\ c.key \in Keys
    BY <1>7 DEF IncrCommands
  <2>2. Decodes(INCR(d, t, c).reply)
    BY <2>1, TypedDecodes, OtherReplies DEF INCR, Fail
  <2> QED
    BY <2>1, <2>2
<1>8. CASE c \in ExpireCommands
  BY <1>8, OtherReplies DEF ExpireCommands, EXPIRE
<1>9. CASE c \in PersistCommands
  BY <1>9, OtherReplies DEF PersistCommands, PERSIST
<1>10. CASE c \in HSetCommands
  <2>1. c.op \in {"HSET", "HSETNX"} /\ c.key \in Keys
    BY <1>10 DEF HSetCommands
  <2>2. Decodes(HSET(d, t, c).reply)
    BY <2>1, TypedDecodes, OtherReplies DEF HSET
  <2> QED
    BY <2>1, <2>2
<1>11. CASE c \in AddCommands
  <2>1. c.op \in {"LPUSH", "RPUSH", "LPUSHX", "RPUSHX", "SADD"} /\ c.key \in Keys
    BY <1>11 DEF AddCommands
  <2>2. Decodes(PUSH(d, t, c).reply)
    BY <2>1, TypedDecodes, OtherReplies DEF PUSH
  <2>3. Decodes(SADD(d, t, c).reply)
    BY <2>1, TypedDecodes, OtherReplies DEF SADD
  <2> QED
    BY <2>1, <2>2, <2>3
<1>12. CASE c \in RemoveCommands
  <2>1. c.op \in {"HDEL", "SREM"} /\ c.key \in Keys
    BY <1>12 DEF RemoveCommands
  <2>2. Decodes(HDEL(d, t, c).reply)
    BY <2>1, TypedDecodes, OtherReplies DEF HDEL
  <2>3. Decodes(SREM(d, t, c).reply)
    BY <2>1, TypedDecodes, OtherReplies DEF SREM, Removed
  <2> QED
    BY <2>1, <2>2, <2>3
<1>13. CASE c \in PopCommands
  <2>1. c.op \in {"LPOP", "RPOP", "SPOP"} /\ c.key \in Keys
    BY <1>13 DEF PopCommands
  <2>2. Decodes(POP(d, t, c).reply)
    BY <2>1, TypedDecodes, OtherReplies DEF POP, Fail
  <2>3. \A gone, reply : Decodes(reply) =>
                           Decodes(Removed(d, t, c, gone, reply).reply)
    BY <2>1, TypedDecodes DEF Removed
  <2>4. \A p \in SPOP(d, t, c) : Decodes(p.reply)
    <3> TAKE p \in SPOP(d, t, c)
    <3>1. CASE Exists(d, t, c.key)
      <4>1. PICK gone : p = Removed(d, t, c, gone,
                              IF c.count # << >> THEN SetReply(gone)
                              ELSE IF gone = {} THEN NilReply
                              ELSE BulkReply(<<CHOOSE m \in gone : TRUE>>))
        BY <3>1 DEF SPOP
      <4> QED
        BY <4>1, <2>3, OtherReplies
    <3>2. CASE ~Exists(d, t, c.key)
      BY <3>2, OtherReplies DEF SPOP
    <3> QED
      BY <3>1, <3>2
  <2> QED
    BY <2>1, <2>2, <2>4
<1>14. CASE c \in LTrimCommands
  <2>1. c.op = "LTRIM" /\ c.key \in Keys
    BY <1>14 DEF LTrimCommands
  <2>2. Decodes(LTRIM(d, t, c).reply)
    BY <2>1, TypedDecodes, OtherReplies DEF LTRIM
  <2> QED
    BY <2>1, <2>2
<1>15. CASE c \in LRemCommands
  <2>1. c.op = "LREM" /\ c.key \in Keys
    BY <1>15 DEF LRemCommands
  <2>2. Decodes(LREM(d, t, c).reply)
    BY <2>1, TypedDecodes, OtherReplies DEF LREM
  <2> QED
    BY <2>1, <2>2
<1> QED
  BY <1>2, <1>3, <1>4, <1>5, <1>6, <1>7, <1>8, <1>9, <1>10, <1>11,
     <1>12, <1>13, <1>14, <1>15 DEF CommandSpace

\* No reader replies DECODE.
LEMMA ReadersDecode ==
    ASSUME NEW d, SoundTags(d), NEW t, NEW k \in Keys
    PROVE  /\ Decodes(GetString(d, t, k)) /\ Decodes(HLen(d, t, k))
           /\ Decodes(LLen(d, t, k)) /\ Decodes(SCard(d, t, k))
<1>1. \A want, missing, answer :
        Decodes(missing) /\ Decodes(answer) =>
            Decodes(ReadTyped(d, t, k, want, missing, answer))
  BY CheckedDecodes, OtherReplies DEF ReadTyped
<1> QED
  BY <1>1, OtherReplies
  DEF GetString, ValueReply, HLen, HashReply, LLen, SCard, SetAnswer

(***************************************************************************)
(* Without lifetimes the clock does not matter.                            *)
(***************************************************************************)
\* No entry has an expiry.
Timeless(d) == \A k \in Keys : /\ d.K[k] # None => d.K[k].exp = 0
                               /\ d.T[k] # None => d.T[k].exp = 0

\* No type entry names a collection.
StringTags(d) == \A k \in Keys : d.T[k] # None => d.T[k].val = "string"

\* What setValue stores, and where.
LEMMA SetValueFields ==
    ASSUME NEW d \in Databases, NEW t, NEW k \in Keys, NEW v, NEW typ, NEW ttl
    PROVE  LET exp == IF ttl > 0 THEN WithTTL(t, ttl) ELSE 0
               n   == setValue(d, t, k, v, typ, ttl)
           IN  /\ n.K[k] = [val |-> v, exp |-> exp]
               /\ n.T[k] = [val |-> typ, exp |-> exp]
               /\ \A j \in Keys : j # k => n.K[j] = d.K[j] /\ n.T[j] = d.T[j]
<1> DEFINE exp == IF ttl > 0 THEN WithTTL(t, ttl) ELSE 0
<1>1. d.K \in [Keys -> ValueEntries \cup {None}] /\ d.T \in [Keys -> TypeEntries \cup {None}]
  BY DEF Databases
<1>2. /\ setValue(d, t, k, v, typ, ttl).K = [d.K EXCEPT ![k] = [val |-> v, exp |-> exp]]
      /\ setValue(d, t, k, v, typ, ttl).T = [d.T EXCEPT ![k] = [val |-> typ, exp |-> exp]]
  BY DEF setValue
<1> HIDE DEF exp
<1>3. /\ setValue(d, t, k, v, typ, ttl).K[k] = [val |-> v, exp |-> exp]
      /\ setValue(d, t, k, v, typ, ttl).T[k] = [val |-> typ, exp |-> exp]
      /\ \A j \in Keys : j # k => /\ setValue(d, t, k, v, typ, ttl).K[j] = d.K[j]
                                  /\ setValue(d, t, k, v, typ, ttl).T[j] = d.T[j]
  BY <1>1, <1>2
<1> QED BY <1>3 DEF exp

\* Without expiries a command sees the same at any two instants.
LEMMA SameView ==
    ASSUME NEW d, Timeless(d), NEW k \in Keys, NEW t, NEW u
    PROVE  /\ Exists(d, t, k) <=> Exists(d, u, k)
           /\ StringOf(d, t, k) = StringOf(d, u, k)
           /\ HashOf(d, t, k) = HashOf(d, u, k)
           /\ ListOf(d, t, k) = ListOf(d, u, k)
           /\ MembersOf(d, t, k) = MembersOf(d, u, k)
           /\ OldReply(d, t, k) = OldReply(d, u, k)
           /\ oldTTLMs(d, t, k) = 0
           /\ \A want, o : Typed(d, t, k, want, o) = Typed(d, u, k, want, o)
<1>1. /\ Exists(d, t, k) <=> d.K[k] # None
      /\ Exists(d, u, k) <=> d.K[k] # None
      /\ Live(d.T[k], t) <=> d.T[k] # None
      /\ Live(d.T[k], u) <=> d.T[k] # None
  BY DEF Timeless, Exists, Live
<1>2. getExistingType(d, t, k) = getExistingType(d, u, k)
  BY <1>1 DEF getExistingType
<1>3. /\ StringOf(d, t, k) = StringOf(d, u, k)
      /\ HashOf(d, t, k) = HashOf(d, u, k)
      /\ ListOf(d, t, k) = ListOf(d, u, k)
      /\ MembersOf(d, t, k) = MembersOf(d, u, k)
  BY <1>1 DEF StringOf, HashOf, ListOf, MembersOf, Holds
<1>4. oldTTLMs(d, t, k) = 0
  BY <1>1 DEF oldTTLMs, remainingTTLMs, Timeless
<1>5. \A want, o : Typed(d, t, k, want, o) = Typed(d, u, k, want, o)
  BY <1>1, <1>2 DEF Typed, WrongType, DecodeFails, ensureExistingType
<1>6. OldReply(d, t, k) = OldReply(d, u, k)
  BY <1>1, <1>3 DEF OldReply
<1> QED BY <1>1, <1>3, <1>4, <1>5, <1>6

\* And it stores the same.
LEMMA SameStore ==
    ASSUME NEW d, Timeless(d), NEW k \in Keys, NEW t, NEW u, NEW v, NEW typ
    PROVE  /\ setValue(d, t, k, v, typ, 0) = setValue(d, u, k, v, typ, 0)
           /\ Replace(d, t, k, v) = Replace(d, u, k, v)
           /\ \A e : ReplaceOrDelete(d, t, k, v, e) = ReplaceOrDelete(d, u, k, v, e)
<1>1. \A ty : setValue(d, t, k, v, ty, 0) = setValue(d, u, k, v, ty, 0)
  BY DEF setValue
<1>2. Replace(d, t, k, v) = Replace(d, u, k, v)
  BY <1>1, SameView DEF Replace
<1> QED BY <1>1, <1>2 DEF ReplaceOrDelete

\* What it stores has no expiry either.
LEMMA StoreTimeless ==
    ASSUME NEW d \in Databases, Timeless(d), NEW k \in Keys, NEW t, NEW v, NEW typ
    PROVE  /\ Timeless(setValue(d, t, k, v, typ, 0))
           /\ Timeless(Replace(d, t, k, v))
           /\ \A e : Timeless(ReplaceOrDelete(d, t, k, v, e))
<1>1. ASSUME NEW ty PROVE Timeless(setValue(d, t, k, v, ty, 0))
  <2> DEFINE n == setValue(d, t, k, v, ty, 0)
  <2>1. /\ n.K[k] = [val |-> v, exp |-> 0] /\ n.T[k] = [val |-> ty, exp |-> 0]
        /\ \A j \in Keys : j # k => n.K[j] = d.K[j] /\ n.T[j] = d.T[j]
    BY SetValueFields
  <2> HIDE DEF n
  <2>2. Timeless(n)
    BY <2>1 DEF Timeless
  <2> QED BY <2>2 DEF n
<1>2. Timeless(Replace(d, t, k, v))
  BY <1>1, SameView DEF Replace
<1>3. \A ks : Timeless(Delete(d, ks))
  BY DEF Timeless, Delete
<1> QED BY <1>1, <1>2, <1>3 DEF ReplaceOrDelete

\* A failed type check stores nothing.
LEMMA TypedTimeless ==
    ASSUME NEW d, Timeless(d), NEW t, NEW k, NEW want, NEW o, Timeless(o.db)
    PROVE  Timeless(Typed(d, t, k, want, o).db)
BY DEF Typed, Fail, Outcome

\* So a command that checks the type does the same at any two instants if it does
\* once the check has passed.
LEMMA TypedSame ==
    ASSUME NEW d, Timeless(d), NEW t, NEW u, NEW k \in Keys, NEW want,
           NEW o, NEW p, o = p, Timeless(o.db),
           NEW a, a = Typed(d, t, k, want, o), NEW b, b = Typed(d, u, k, want, p)
    PROVE  a = b /\ Timeless(a.db)
<1>1. \A w, q : Typed(d, t, k, w, q) = Typed(d, u, k, w, q)
  BY SameView
<1>2. Timeless(Typed(d, t, k, want, o).db)
  BY TypedTimeless
<1> QED BY <1>1, <1>2

\* The commands on strings, at any two instants.
LEMMA StringsTimeless ==
    ASSUME NEW d \in Databases, Timeless(d), NEW t, NEW u, NEW c
    PROVE  /\ c \in SetCommands /\ c.ttl = 0 =>
                SET(d, t, c) = SET(d, u, c) /\ Timeless(SET(d, t, c).db)
           /\ c \in TextCommands =>
                /\ GETSET(d, t, c) = GETSET(d, u, c) /\ Timeless(GETSET(d, t, c).db)
                /\ APPEND(d, t, c) = APPEND(d, u, c) /\ Timeless(APPEND(d, t, c).db)
           /\ c \in IncrCommands =>
                INCR(d, t, c) = INCR(d, u, c) /\ Timeless(INCR(d, t, c).db)
<1>1. ASSUME c \in SetCommands, c.ttl = 0
      PROVE  SET(d, t, c) = SET(d, u, c) /\ Timeless(SET(d, t, c).db)
  <2>1. c.key \in Keys
    BY <1>1 DEF SetCommands
  <2> DEFINE set(x) == setKey(c, Exists(d, x, c.key))
             o(x) == Outcome(IF set(x) THEN setValue(d, x, c.key, Str(c.val), "string", 0)
                             ELSE d,
                             IF c.get THEN OldReply(d, x, c.key)
                             ELSE IF set(x) THEN OKReply ELSE NilReply)
  <2>2. \A x : SET(d, x, c) = Typed(d, x, c.key, "string", o(x))
    BY <1>1 DEF SET
  <2>3. set(t) <=> set(u)
    BY <2>1, SameView DEF setKey
  <2> HIDE DEF set
  <2>4. o(t) = o(u)
    BY <2>1, <2>3, SameView, SameStore
  <2>5. Timeless(o(t).db)
    BY <2>1, StoreTimeless DEF Outcome
  <2> HIDE DEF o
  <2> QED BY <2>1, <2>2, <2>4, <2>5, TypedSame
<1>2. ASSUME c \in TextCommands
      PROVE  /\ GETSET(d, t, c) = GETSET(d, u, c) /\ Timeless(GETSET(d, t, c).db)
             /\ APPEND(d, t, c) = APPEND(d, u, c) /\ Timeless(APPEND(d, t, c).db)
  <2>1. c.key \in Keys
    BY <1>2 DEF TextCommands
  <2> DEFINE o(x) == Outcome(setValue(d, x, c.key, Str(c.val), "string", 0),
                             OldReply(d, x, c.key))
             s(x) == StringOf(d, x, c.key) \o c.val
             p(x) == Outcome(Replace(d, x, c.key, Str(s(x))), IntReply(Len(s(x))))
  <2>2. \A x : /\ GETSET(d, x, c) = Typed(d, x, c.key, "string", o(x))
               /\ APPEND(d, x, c) = Typed(d, x, c.key, "string", p(x))
    BY DEF GETSET, APPEND
  <2>3. o(t) = o(u)
    BY <2>1, SameView, SameStore
  <2>4. s(t) = s(u)
    BY <2>1, SameView
  <2> HIDE DEF s
  <2>5. p(t) = p(u)
    BY <2>1, <2>4, SameStore
  <2>6. Timeless(o(t).db) /\ Timeless(p(t).db)
    BY <2>1, StoreTimeless DEF Outcome
  <2> HIDE DEF o, p
  <2>7. GETSET(d, t, c) = GETSET(d, u, c) /\ Timeless(GETSET(d, t, c).db)
    BY <2>1, <2>2, <2>3, <2>6, TypedSame
  <2>8. APPEND(d, t, c) = APPEND(d, u, c) /\ Timeless(APPEND(d, t, c).db)
    BY <2>1, <2>2, <2>5, <2>6, TypedSame
  <2> QED BY <2>7, <2>8
<1>3. ASSUME c \in IncrCommands
      PROVE  INCR(d, t, c) = INCR(d, u, c) /\ Timeless(INCR(d, t, c).db)
  <2>1. c.key \in Keys
    BY <1>3 DEF IncrCommands
  <2> DEFINE old(x) == IF Exists(d, x, c.key) THEN StringOf(d, x, c.key) ELSE <<0>>
             new(s) == Wrap64(IF c.op \in {"INCR", "INCRBY"} THEN s[1] + c.by[1]
                                                             ELSE s[1] - c.by[1])
             ok(s)  == IsInteger(s) /\ IsInteger(c.by)
             o(x, s) == IF ok(s)
                        THEN Outcome(Replace(d, x, c.key, Str(<<new(s)>>)), IntReply(new(s)))
                        ELSE Fail(d, "NOTINTEGER")
  <2>2. \A x : INCR(d, x, c) = Typed(d, x, c.key, "string", o(x, old(x)))
    BY DEF INCR
  <2>3. old(t) = old(u)
    BY <2>1, SameView
  <2> HIDE DEF old, new, ok
  <2>4. ASSUME NEW s PROVE o(t, s) = o(u, s) /\ Timeless(o(t, s).db)
    BY <2>1, SameStore, StoreTimeless DEF Outcome, Fail
  <2> HIDE DEF o
  <2>5. o(t, old(t)) = o(u, old(u))
    BY <2>3, <2>4
  <2>6. Timeless(o(t, old(t)).db)
    BY <2>4
  <2> QED BY <2>1, <2>2, <2>5, <2>6, TypedSame
<1> QED BY <1>1, <1>2, <1>3

\* The commands on many keys, and PERSIST.
LEMMA KeysTimeless ==
    ASSUME NEW d \in Databases, Timeless(d), NEW t, NEW u, NEW c
    PROVE  /\ c \in MSetCommands =>
                MSET(d, t, c) = MSET(d, u, c) /\ Timeless(MSET(d, t, c).db)
           /\ c \in DelCommands =>
                DEL(d, t, c) = DEL(d, u, c) /\ Timeless(DEL(d, t, c).db)
           /\ FLUSHDB(d, t, c) = FLUSHDB(d, u, c) /\ Timeless(FLUSHDB(d, t, c).db)
           /\ c \in PersistCommands =>
                PERSIST(d, t, c) = PERSIST(d, u, c) /\ Timeless(PERSIST(d, t, c).db)
<1>1. \A k \in Keys : Exists(d, t, k) <=> Exists(d, u, k)
  BY SameView
<1>2. ASSUME c \in MSetCommands
      PROVE  MSET(d, t, c) = MSET(d, u, c) /\ Timeless(MSET(d, t, c).db)
  <2> DEFINE at(k)  == {i \in DOMAIN c.pairs : c.pairs[i][1] = k}
             val(k) == c.pairs[CHOOSE i \in at(k) : \A j \in at(k) : j <= i][2]
             n == [K |-> [k \in Keys |-> IF at(k) = {} THEN d.K[k]
                                         ELSE [val |-> Str(val(k)), exp |-> 0]],
                   T |-> [k \in Keys |-> IF at(k) = {} THEN d.T[k]
                                         ELSE [val |-> "string", exp |-> 0]]]
  <2>1. \A x : MSET(d, x, c) = Outcome(n, OKReply)
    BY DEF MSET
  <2> HIDE DEF at, val
  <2>2. Timeless(n)
    BY DEF Timeless
  <2> HIDE DEF n
  <2> QED BY <2>1, <2>2 DEF Outcome
<1>3. ASSUME c \in DelCommands
      PROVE  DEL(d, t, c) = DEL(d, u, c) /\ Timeless(DEL(d, t, c).db)
  <2> DEFINE gone(x) == {k \in Keys : (\E i \in DOMAIN c.keys : c.keys[i] = k)
                                      /\ Exists(d, x, k)}
  <2>1. c.key = None
    BY <1>3 DEF DelCommands
  <2>2. \A x : DEL(d, x, c) = Outcome(Delete(d, gone(x)), IntReply(Cardinality(gone(x))))
    BY <2>1 DEF DEL
  <2>3. gone(t) = gone(u)
    BY <1>1
  <2> HIDE DEF gone
  <2>4. Timeless(Delete(d, gone(t)))
    BY DEF Timeless, Delete
  <2> QED BY <2>2, <2>3, <2>4 DEF Outcome
<1>4. FLUSHDB(d, t, c) = FLUSHDB(d, u, c) /\ Timeless(FLUSHDB(d, t, c).db)
  <2> DEFINE nK(x) == [k \in Keys |-> IF Live(d.K[k], x) THEN None ELSE d.K[k]]
             nT(x) == [k \in Keys |-> IF Live(d.T[k], x) THEN None ELSE d.T[k]]
  <2>1. ASSUME NEW k \in Keys, NEW x
        PROVE  (Live(d.K[k], x) <=> d.K[k] # None) /\ (Live(d.T[k], x) <=> d.T[k] # None)
    BY DEF Live, Timeless
  <2>2. nK(t) = nK(u) /\ nT(t) = nT(u)
    BY <2>1
  <2>3. \A k \in Keys : nK(t)[k] = None /\ nT(t)[k] = None
    BY <2>1
  <2>4. \A x : FLUSHDB(d, x, c) = Outcome([K |-> nK(x), T |-> nT(x)], OKReply)
    BY DEF FLUSHDB
  <2> HIDE DEF nK, nT
  <2> QED BY <2>2, <2>3, <2>4 DEF Outcome, Timeless
<1>5. ASSUME c \in PersistCommands
      PROVE  PERSIST(d, t, c) = PERSIST(d, u, c) /\ Timeless(PERSIST(d, t, c).db)
  <2>1. c.key \in Keys
    BY <1>5 DEF PersistCommands
  <2>2. ASSUME NEW x PROVE PERSIST(d, x, c) = Outcome(d, IntReply(0))
    BY <2>1 DEF PERSIST, Timeless, Exists, Live
  <2> QED BY <2>2 DEF Outcome
<1> QED BY <1>2, <1>3, <1>4, <1>5

\* The commands on hashes.
LEMMA HashesTimeless ==
    ASSUME NEW d \in Databases, Timeless(d), NEW t, NEW u, NEW c, c.key \in Keys
    PROVE  /\ HSET(d, t, c) = HSET(d, u, c) /\ Timeless(HSET(d, t, c).db)
           /\ HDEL(d, t, c) = HDEL(d, u, c) /\ Timeless(HDEL(d, t, c).db)
<1>1. HashOf(d, t, c.key) = HashOf(d, u, c.key)
  BY SameView
<1>2. HSET(d, t, c) = HSET(d, u, c) /\ Timeless(HSET(d, t, c).db)
  <2> DEFINE at(f)  == {i \in DOMAIN c.pairs : c.pairs[i][1] = f}
             fields == {f \in Words : at(f) # {}}
             nx     == c.op = "HSETNX"
             val(f) == c.pairs[CHOOSE i \in at(f) :
                                 \A j \in at(f) : IF nx THEN i <= j ELSE j <= i][2]
             new(old) == [f \in DOMAIN old \cup fields |->
                             IF f \notin fields \/ (nx /\ f \in DOMAIN old)
                             THEN old[f] ELSE val(f)]
             count(old) == Cardinality(fields \ DOMAIN old)
             o(x, old) == Outcome(Replace(d, x, c.key, Hash(new(old))),
                                  IntReply(count(old)))
  <2>1. \A x : HSET(d, x, c) = Typed(d, x, c.key, "hash", o(x, HashOf(d, x, c.key)))
    BY DEF HSET
  <2> HIDE DEF new, count
  <2>2. ASSUME NEW old PROVE o(t, old) = o(u, old) /\ Timeless(o(t, old).db)
    BY SameStore, StoreTimeless DEF Outcome
  <2> HIDE DEF o
  <2>3. o(t, HashOf(d, t, c.key)) = o(u, HashOf(d, u, c.key))
    BY <1>1, <2>2
  <2> QED BY <2>1, <2>2, <2>3, TypedSame
<1>3. HDEL(d, t, c) = HDEL(d, u, c) /\ Timeless(HDEL(d, t, c).db)
  <2> DEFINE gone(old) == {f \in DOMAIN old : \E i \in DOMAIN c.words : c.words[i] = f}
             new(old) == [f \in DOMAIN old \ gone(old) |-> old[f]]
             empty(old) == DOMAIN new(old) = {}
             count(old) == Cardinality(gone(old))
             o(x, old) == IF Exists(d, x, c.key)
                          THEN Outcome(ReplaceOrDelete(d, x, c.key, Hash(new(old)), empty(old)),
                                       IntReply(count(old)))
                          ELSE Outcome(d, IntReply(0))
  <2>1. \A x : HDEL(d, x, c) = Typed(d, x, c.key, "hash", o(x, HashOf(d, x, c.key)))
    BY DEF HDEL
  <2> HIDE DEF gone, new, empty, count
  <2>2. ASSUME NEW old PROVE o(t, old) = o(u, old) /\ Timeless(o(t, old).db)
    <3>1. ReplaceOrDelete(d, t, c.key, Hash(new(old)), empty(old))
            = ReplaceOrDelete(d, u, c.key, Hash(new(old)), empty(old))
      BY SameStore
    <3>2. Timeless(ReplaceOrDelete(d, t, c.key, Hash(new(old)), empty(old)))
      BY StoreTimeless
    <3>3. Exists(d, t, c.key) <=> Exists(d, u, c.key)
      BY SameView
    <3> QED BY <3>1, <3>2, <3>3 DEF Outcome
  <2> HIDE DEF o
  <2>3. o(t, HashOf(d, t, c.key)) = o(u, HashOf(d, u, c.key))
    BY <1>1, <2>2
  <2> QED BY <2>1, <2>2, <2>3, TypedSame
<1> QED BY <1>2, <1>3

\* The commands on lists.
LEMMA ListsTimeless ==
    ASSUME NEW d \in Databases, Timeless(d), NEW t, NEW u, NEW c, c.key \in Keys
    PROVE  /\ PUSH(d, t, c) = PUSH(d, u, c) /\ Timeless(PUSH(d, t, c).db)
           /\ POP(d, t, c) = POP(d, u, c) /\ Timeless(POP(d, t, c).db)
           /\ LTRIM(d, t, c) = LTRIM(d, u, c) /\ Timeless(LTRIM(d, t, c).db)
           /\ LREM(d, t, c) = LREM(d, u, c) /\ Timeless(LREM(d, t, c).db)
<1>0. /\ ListOf(d, t, c.key) = ListOf(d, u, c.key)
      /\ Exists(d, t, c.key) <=> Exists(d, u, c.key)
  BY SameView
<1>1. \A v, e : /\ ReplaceOrDelete(d, t, c.key, v, e) = ReplaceOrDelete(d, u, c.key, v, e)
                /\ Timeless(ReplaceOrDelete(d, t, c.key, v, e))
  <2>1. \A v, e : ReplaceOrDelete(d, t, c.key, v, e) = ReplaceOrDelete(d, u, c.key, v, e)
    BY SameStore
  <2>2. \A v, e : Timeless(ReplaceOrDelete(d, t, c.key, v, e))
    BY StoreTimeless
  <2> QED BY <2>1, <2>2
<1>2. PUSH(d, t, c) = PUSH(d, u, c) /\ Timeless(PUSH(d, t, c).db)
  <2> DEFINE new(old) == IF c.op \in {"LPUSH", "LPUSHX"} THEN Reversed(c.words) \o old
                                                         ELSE old \o c.words
             o(x, old) == IF c.op \in {"LPUSHX", "RPUSHX"} /\ ~Exists(d, x, c.key)
                          THEN Outcome(d, IntReply(0))
                          ELSE Outcome(Replace(d, x, c.key, List(new(old))),
                                       IntReply(Len(new(old))))
  <2>1. \A x : PUSH(d, x, c) = Typed(d, x, c.key, "list", o(x, ListOf(d, x, c.key)))
    BY DEF PUSH
  <2> HIDE DEF new
  <2>2. ASSUME NEW old PROVE o(t, old) = o(u, old) /\ Timeless(o(t, old).db)
    BY <1>0, SameStore, StoreTimeless DEF Outcome
  <2> HIDE DEF o
  <2>3. o(t, ListOf(d, t, c.key)) = o(u, ListOf(d, u, c.key))
    BY <1>0, <2>2
  <2> QED BY <2>1, <2>2, <2>3, TypedSame
<1>3. POP(d, t, c) = POP(d, u, c) /\ Timeless(POP(d, t, c).db)
  <2> DEFINE n(old) == IF c.count = << >> THEN 1
                       ELSE IF c.count[1] > Len(old) THEN Len(old) ELSE c.count[1]
             left == c.op = "LPOP"
             new(old) == IF left THEN SubSeq(old, n(old) + 1, Len(old))
                                 ELSE SubSeq(old, 1, Len(old) - n(old))
             out(old) == IF left THEN SubSeq(old, 1, n(old))
                                 ELSE SubSeq(Reversed(old), 1, n(old))
             bad  == c.count # << >> /\ ~(IsInteger(c.count) /\ c.count[1] >= 0)
             empty(old) == new(old) = << >>
             r(old) == IF c.count = << >> THEN BulkReply(out(old))
                                          ELSE ArrayReply(out(old))
             o(x, old) == IF old = << >> THEN Outcome(d, NilReply)
                          ELSE IF bad THEN Fail(d, "NOTINTEGER")
                          ELSE Outcome(ReplaceOrDelete(d, x, c.key, List(new(old)), empty(old)),
                                       r(old))
  <2>1. \A x : POP(d, x, c) = Typed(d, x, c.key, "list", o(x, ListOf(d, x, c.key)))
    BY DEF POP
  <2> HIDE DEF new, empty, r, bad
  <2>2. ASSUME NEW old PROVE o(t, old) = o(u, old) /\ Timeless(o(t, old).db)
    BY <1>1 DEF Outcome, Fail
  <2> HIDE DEF o
  <2>3. o(t, ListOf(d, t, c.key)) = o(u, ListOf(d, u, c.key))
    BY <1>0, <2>2
  <2> QED BY <2>1, <2>2, <2>3, TypedSame
<1>4. LTRIM(d, t, c) = LTRIM(d, u, c) /\ Timeless(LTRIM(d, t, c).db)
  <2> DEFINE new(old) == sliceList(old, c.start, c.stop)
             empty(old) == new(old) = << >>
             o(x, old) == Outcome(ReplaceOrDelete(d, x, c.key, List(new(old)), empty(old)),
                                  OKReply)
  <2>1. \A x : LTRIM(d, x, c) = Typed(d, x, c.key, "list", o(x, ListOf(d, x, c.key)))
    BY DEF LTRIM
  <2> HIDE DEF new, empty
  <2>2. ASSUME NEW old PROVE o(t, old) = o(u, old) /\ Timeless(o(t, old).db)
    BY <1>1 DEF Outcome
  <2> HIDE DEF o
  <2>3. o(t, ListOf(d, t, c.key)) = o(u, ListOf(d, u, c.key))
    BY <1>0, <2>2
  <2> QED BY <2>1, <2>2, <2>3, TypedSame
<1>5. LREM(d, t, c) = LREM(d, u, c) /\ Timeless(LREM(d, t, c).db)
  <2> DEFINE hits(old) == {i \in DOMAIN old : old[i] = c.val}
             gone(old) == {i \in hits(old) :
               \/ c.limit = 0
               \/ c.limit > 0 /\ Cardinality({j \in hits(old) : j < i}) < c.limit
               \/ c.limit < 0 /\ Cardinality({j \in hits(old) : j > i}) < -c.limit}
             kept(old) == DOMAIN old \ gone(old)
             rank(old, i) == Cardinality({j \in kept(old) : j <= i})
             new(old) == [m \in 1 .. Cardinality(kept(old)) |->
                             old[CHOOSE i \in kept(old) : rank(old, i) = m]]
             empty(old) == kept(old) = {}
             count(old) == Cardinality(gone(old))
             o(x, old) == Outcome(ReplaceOrDelete(d, x, c.key, List(new(old)), empty(old)),
                                  IntReply(count(old)))
  <2>1. \A x : LREM(d, x, c) = Typed(d, x, c.key, "list", o(x, ListOf(d, x, c.key)))
    BY DEF LREM
  <2> HIDE DEF new, empty, count
  <2>2. ASSUME NEW old PROVE o(t, old) = o(u, old) /\ Timeless(o(t, old).db)
    BY <1>1 DEF Outcome
  <2> HIDE DEF o
  <2>3. o(t, ListOf(d, t, c.key)) = o(u, ListOf(d, u, c.key))
    BY <1>0, <2>2
  <2> QED BY <2>1, <2>2, <2>3, TypedSame
<1> QED BY <1>2, <1>3, <1>4, <1>5

\* The commands on sets, but SPOP.
LEMMA SetsTimeless ==
    ASSUME NEW d \in Databases, Timeless(d), NEW t, NEW u, NEW c, c.key \in Keys
    PROVE  /\ SADD(d, t, c) = SADD(d, u, c) /\ Timeless(SADD(d, t, c).db)
           /\ SREM(d, t, c) = SREM(d, u, c) /\ Timeless(SREM(d, t, c).db)
<1>0. /\ MembersOf(d, t, c.key) = MembersOf(d, u, c.key)
      /\ Exists(d, t, c.key) <=> Exists(d, u, c.key)
  BY SameView
<1>1. \A v, e : /\ ReplaceOrDelete(d, t, c.key, v, e) = ReplaceOrDelete(d, u, c.key, v, e)
                /\ Timeless(ReplaceOrDelete(d, t, c.key, v, e))
  <2>1. \A v, e : ReplaceOrDelete(d, t, c.key, v, e) = ReplaceOrDelete(d, u, c.key, v, e)
    BY SameStore
  <2>2. \A v, e : Timeless(ReplaceOrDelete(d, t, c.key, v, e))
    BY StoreTimeless
  <2> QED BY <2>1, <2>2
<1>2. SADD(d, t, c) = SADD(d, u, c) /\ Timeless(SADD(d, t, c).db)
  <2> DEFINE args == {c.words[i] : i \in DOMAIN c.words}
             o(x, old) == Outcome(Replace(d, x, c.key, SetOf(old \cup args)),
                                  IntReply(Cardinality(args \ old)))
  <2>1. \A x : SADD(d, x, c) = Typed(d, x, c.key, "set", o(x, MembersOf(d, x, c.key)))
    BY DEF SADD
  <2> HIDE DEF args
  <2>2. ASSUME NEW old PROVE o(t, old) = o(u, old) /\ Timeless(o(t, old).db)
    BY SameStore, StoreTimeless DEF Outcome
  <2> HIDE DEF o
  <2>3. o(t, MembersOf(d, t, c.key)) = o(u, MembersOf(d, u, c.key))
    BY <1>0, <2>2
  <2> QED BY <2>1, <2>2, <2>3, TypedSame
<1>3. SREM(d, t, c) = SREM(d, u, c) /\ Timeless(SREM(d, t, c).db)
  <2> DEFINE gone(old) == {m \in old : \E i \in DOMAIN c.words : c.words[i] = m}
             new(old) == old \ gone(old)
             empty(old) == new(old) = {}
             count(old) == Cardinality(gone(old))
             o(x, old) == Outcome(ReplaceOrDelete(d, x, c.key, SetOf(new(old)), empty(old)),
                                  IntReply(count(old)))
             r(x) == Typed(d, x, c.key, "set", o(x, MembersOf(d, x, c.key)))
  <2>1. \A x : SREM(d, x, c) = IF Exists(d, x, c.key) THEN r(x)
                               ELSE Outcome(d, IntReply(0))
    BY DEF SREM, Removed
  <2> HIDE DEF new, empty, count
  <2>2. ASSUME NEW old PROVE o(t, old) = o(u, old) /\ Timeless(o(t, old).db)
    BY <1>1 DEF Outcome
  <2> HIDE DEF o
  <2>3. o(t, MembersOf(d, t, c.key)) = o(u, MembersOf(d, u, c.key))
    BY <1>0, <2>2
  <2>4. r(t) = r(u) /\ Timeless(r(t).db)
    BY <2>2, <2>3, TypedSame
  <2> HIDE DEF r
  <2> QED BY <1>0, <2>1, <2>4 DEF Outcome
<1> QED BY <1>2, <1>3

\* On a database without lifetimes, a command that sets none and takes no random
\* member has one outcome, the same at any two instants, again without lifetimes.
LEMMA ApplyTimeless ==
    ASSUME NEW d \in Databases, Timeless(d), NEW t, NEW u, NEW c \in CommandSpace,
           c.op \notin {"EXPIRE", "SPOP"}, c.op = "SET" => c.ttl = 0
    PROVE  \E o : /\ applyCmdInTxn(d, t, c) = {o} /\ applyCmdInTxn(d, u, c) = {o}
                  /\ Timeless(o.db)
<1> USE DEF applyCmdInTxn
<1>1. CASE c \in SetCommands
  BY <1>1, StringsTimeless DEF SetCommands
<1>2. CASE c \in TextCommands
  BY <1>2, StringsTimeless DEF TextCommands
<1>3. CASE c \in MSetCommands
  BY <1>3, KeysTimeless DEF MSetCommands
<1>4. CASE c \in DelCommands
  BY <1>4, KeysTimeless DEF DelCommands
<1>5. CASE c \in FlushCommands
  BY <1>5, KeysTimeless DEF FlushCommands
<1>6. CASE c \in IncrCommands
  BY <1>6, StringsTimeless DEF IncrCommands
<1>7. CASE c \in ExpireCommands
  BY <1>7 DEF ExpireCommands
<1>8. CASE c \in PersistCommands
  BY <1>8, KeysTimeless DEF PersistCommands
<1>9. CASE c \in HSetCommands
  BY <1>9, HashesTimeless DEF HSetCommands
<1>10. CASE c \in AddCommands
  BY <1>10, ListsTimeless, SetsTimeless DEF AddCommands
<1>11. CASE c \in RemoveCommands
  BY <1>11, HashesTimeless, SetsTimeless DEF RemoveCommands
<1>12. CASE c \in PopCommands
  BY <1>12, ListsTimeless DEF PopCommands
<1>13. CASE c \in LTrimCommands
  BY <1>13, ListsTimeless DEF LTrimCommands
<1>14. CASE c \in LRemCommands
  BY <1>14, ListsTimeless DEF LRemCommands
<1> QED
  BY <1>1, <1>2, <1>3, <1>4, <1>5, <1>6, <1>7, <1>8, <1>9, <1>10, <1>11,
     <1>12, <1>13, <1>14 DEF CommandSpace
=============================================================================
