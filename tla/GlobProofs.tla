----------------------------- MODULE GlobProofs -----------------------------
(***************************************************************************)
(* KEYS and redisGlobMatch, for every pattern and every set of names.  The *)
(* matcher is followed on the places where the items of the pattern begin: *)
(* what it answers there depends on the item and on its answers at the     *)
(* next place, and that is how the reference proceeds, from the other end. *)
(***************************************************************************)
EXTENDS Glob, TLAPS, NaturalsInduction, WellFoundedInduction

(***************************************************************************)
(* Least elements.                                                         *)
(***************************************************************************)
\* A non-empty set of natural numbers has a least element.
LEMMA LeastElement ==
    ASSUME NEW S \in SUBSET Nat, S # {}
    PROVE  \E m \in S : \A j \in S : m <= j
<1>1. PICK m \in S : \A j \in S : ~ (<<j, m>> \in OpToRel(<, Nat))
  BY WFMin, NatLessThanWellFounded
<1>2. \A j \in S : ~ (j < m)
  BY <1>1 DEF OpToRel
<1> QED BY <1>2

\* First is that element.
LEMMA FirstIsLeast ==
    ASSUME NEW S \in SUBSET Nat, S # {}
    PROVE  First(S) \in S /\ \A j \in S : First(S) <= j
BY LeastElement DEF First

(***************************************************************************)
(* The recursion of redisGlobMatch.                                        *)
(***************************************************************************)
\* The first place behind a row of stars is behind the star it is asked at.
LEMMA RestIsLater ==
    ASSUME NEW p, Len(p) \in Nat, NEW pi \in 1 .. Len(p), p[pi] = Star
    PROVE  LET rest == AfterStars(p, pi)
           IN  /\ rest \in (pi + 1) .. (Len(p) + 1)
               /\ rest > Len(p) \/ p[rest] # Star
               /\ \A i \in pi .. (rest - 1) : p[i] = Star
<1> DEFINE n == Len(p)
           S == {i \in pi .. (n + 1) : i > n \/ p[i] # Star}
<1>1. S \in SUBSET Nat /\ n + 1 \in S
  OBVIOUS
<1>2. First(S) \in S /\ \A j \in S : First(S) <= j
  BY <1>1, FirstIsLeast
<1>3. First(S) # pi
  BY <1>2
<1>4. ASSUME NEW i \in pi .. (First(S) - 1) PROVE p[i] = Star
  <2>1. i \notin S /\ i \in pi .. (n + 1)
    BY <1>2
  <2> QED BY <2>1
<1> QED BY <1>2, <1>3, <1>4 DEF AfterStars

\* The end of a class is behind its beginning.
LEMMA ClassEndIsLater ==
    ASSUME NEW p, Len(p) \in Nat, NEW pi \in 1 .. Len(p)
    PROVE  \/ /\ ClassEnd(p, pi) = 0
              /\ \A i \in (pi + 1) .. Len(p) : p[i] # Close
           \/ /\ ClassEnd(p, pi) \in (pi + 1) .. Len(p)
              /\ p[ClassEnd(p, pi)] = Close
              /\ \A i \in (pi + 1) .. (ClassEnd(p, pi) - 1) : p[i] # Close
<1> DEFINE ends == {i \in (pi + 1) .. Len(p) : p[i] = Close}
<1>1. CASE ends = {}
  BY <1>1 DEF ClassEnd
<1>2. CASE ends # {}
  <2>1. ends \in SUBSET Nat
    OBVIOUS
  <2>2. First(ends) \in ends /\ \A j \in ends : First(ends) <= j
    BY <1>2, <2>1, FirstIsLeast
  <2>3. ClassEnd(p, pi) = First(ends)
    BY <1>2 DEF ClassEnd
  <2>4. ASSUME NEW i \in (pi + 1) .. (First(ends) - 1) PROVE p[i] # Close
    <3>1. i \notin ends /\ i \in (pi + 1) .. Len(p)
      BY <2>2
    <3> QED BY <3>1
  <2> QED BY <2>2, <2>3, <2>4
<1> QED BY <1>1, <1>2

\* What the matcher answers at a place depends on later places only.
LEMMA LaterOnly ==
    ASSUME NEW p, Len(p) \in Nat, NEW t, Len(t) \in Nat, NEW g, NEW h,
           NEW pi \in 1 .. (Len(p) + 1), NEW ti \in 1 .. (Len(t) + 1),
           \A i \in (pi + 1) .. (Len(p) + 1) : g[i] = h[i]
    PROVE  MatchFrom(p, t, g, pi, ti) = MatchFrom(p, t, h, pi, ti)
<1> DEFINE n == Len(p)
<1>1. CASE pi > n
  BY <1>1 DEF MatchFrom
<1>2. CASE pi <= n /\ p[pi] = Star
  <2>1. g[AfterStars(p, pi)] = h[AfterStars(p, pi)]
    BY <1>2, RestIsLater
  <2> DEFINE star(f) == LET rest == AfterStars(p, pi)
                            hits == Hits(f[rest], Len(t), ti)
                        IN  IF rest > Len(p) THEN "yes"
                            ELSE IF hits = {} THEN "no" ELSE f[rest][First(hits)]
  <2>2. MatchFrom(p, t, g, pi, ti) = star(g)
    BY <1>2 DEF MatchFrom, Star, Quest, Open, Escape
  <2>3. MatchFrom(p, t, h, pi, ti) = star(h)
    BY <1>2 DEF MatchFrom, Star, Quest, Open, Escape
  <2>4. star(g) = star(h)
    BY <2>1
  <2> QED BY <2>2, <2>3, <2>4
<1>3. CASE pi <= n /\ p[pi] = Open
  <2>1. CASE ClassEnd(p, pi) = 0
    BY <1>3, <2>1 DEF MatchFrom, Open, Star, Quest
  <2>2. CASE ClassEnd(p, pi) # 0
    <3>1. pi + (ClassEnd(p, pi) + 1 - pi) \in (pi + 1) .. (n + 1)
      BY <1>3, <2>2, ClassEndIsLater
    <3>2. g[pi + (ClassEnd(p, pi) + 1 - pi)] = h[pi + (ClassEnd(p, pi) + 1 - pi)]
      BY <3>1
    <3> QED BY <1>3, <2>2, <3>2 DEF MatchFrom, Open, Star, Quest
  <2> QED BY <2>1, <2>2
<1>4. CASE pi <= n /\ p[pi] \notin {Star, Open}
  <2>1. pi + 1 \in (pi + 1) .. (n + 1) /\ (pi # n => pi + 2 \in (pi + 1) .. (n + 1))
    BY <1>4
  <2>2. g[pi + 1] = h[pi + 1] /\ (pi # n => g[pi + 2] = h[pi + 2])
    BY <2>1
  <2> QED BY <1>4, <2>2 DEF MatchFrom
<1> QED BY <1>1, <1>2, <1>3, <1>4

\* The answers from a place on.
Row(g, p, t, pi) == [ti \in 1 .. (Len(t) + 1) |-> MatchFrom(p, t, g, pi, ti)]

\* The answers at the last k places, and at all of them.
Answers(g, p, t, k) ==
    g = [pi \in (Len(p) + 2 - k) .. (Len(p) + 1) |-> Row(g, p, t, pi)]

\* Rows depend on later rows only.
LEMMA RowsLaterOnly ==
    ASSUME NEW p, Len(p) \in Nat, NEW t, Len(t) \in Nat, NEW g, NEW h,
           NEW pi \in 1 .. (Len(p) + 1),
           \A i \in (pi + 1) .. (Len(p) + 1) : g[i] = h[i]
    PROVE  Row(g, p, t, pi) = Row(h, p, t, pi)
<1>1. \A ti \in 1 .. (Len(t) + 1) :
         MatchFrom(p, t, g, pi, ti) = MatchFrom(p, t, h, pi, ti)
  BY LaterOnly
<1> QED BY <1>1 DEF Row

\* There are such answers, for every pattern and text.
LEMMA AnswersExist ==
    ASSUME NEW p, Len(p) \in Nat, NEW t, Len(t) \in Nat
    PROVE  \E g : Answers(g, p, t, Len(p) + 1)
<1> DEFINE n == Len(p)
           S == {k \in 0 .. (n + 1) : ~ \E g : Answers(g, p, t, k)}
<1> SUFFICES ASSUME S # {} PROVE FALSE
  BY n + 1 \in 0 .. (n + 1)
<1>0. S \in SUBSET Nat
  OBVIOUS
<1>1. PICK k \in S : \A j \in S : k <= j
  BY <1>0, LeastElement
<1>2. k \in 0 .. (n + 1) /\ ~ \E g : Answers(g, p, t, k)
  OBVIOUS
<1>3. CASE k = 0
  <2> DEFINE f == [pi \in (n + 2 - k) .. (n + 1) |-> Row(p, p, t, pi)]
  <2>1. \A pi \in (n + 2 - k) .. (n + 1) : Row(p, p, t, pi) = Row(f, p, t, pi)
    BY <1>3
  <2>2. f = [pi \in (n + 2 - k) .. (n + 1) |-> Row(f, p, t, pi)]
    BY <2>1
  <2> QED BY <1>2, <2>2 DEF Answers
<1>4. CASE k # 0
  <2>1. k - 1 \in 0 .. (n + 1) /\ ~(k <= k - 1)
    BY <1>2, <1>4
  <2>2. \E g : Answers(g, p, t, k - 1)
    BY <1>1, <2>1
  <2>3. PICK g : g = [pi \in (n + 2 - (k - 1)) .. (n + 1) |-> Row(g, p, t, pi)]
    BY <2>2 DEF Answers
  <2> DEFINE f == [pi \in (n + 2 - k) .. (n + 1) |-> Row(g, p, t, pi)]
  <2>4. ASSUME NEW pi \in (n + 2 - (k - 1)) .. (n + 1) PROVE f[pi] = g[pi]
    <3>1. g[pi] = Row(g, p, t, pi)
      BY <2>3
    <3>2. pi \in (n + 2 - k) .. (n + 1)
      BY <1>2
    <3> QED BY <3>1, <3>2
  <2>5. ASSUME NEW pi \in (n + 2 - k) .. (n + 1) PROVE Row(g, p, t, pi) = Row(f, p, t, pi)
    <3>1. \A i \in (pi + 1) .. (n + 1) : i \in (n + 2 - (k - 1)) .. (n + 1)
      BY <1>2
    <3>2. \A i \in (pi + 1) .. (n + 1) : g[i] = f[i]
      BY <2>4, <3>1
    <3>3. pi \in 1 .. (n + 1)
      BY <1>2
    <3> HIDE DEF f
    <3> QED BY <3>2, <3>3, RowsLaterOnly
  <2>6. f = [pi \in (n + 2 - k) .. (n + 1) |-> Row(f, p, t, pi)]
    BY <2>5
  <2> QED BY <1>2, <2>6 DEF Answers
<1> QED BY <1>3, <1>4

\* redisGlobMatch is the first of them.
LEMMA MatchIsAnswer ==
    ASSUME NEW p, Len(p) \in Nat, NEW t, Len(t) \in Nat
    PROVE  \E g : /\ redisGlobMatch(p, t) = g[1][1]
                  /\ \A pi \in 1 .. (Len(p) + 1), ti \in 1 .. (Len(t) + 1) :
                       g[pi][ti] = MatchFrom(p, t, g, pi, ti)
<1> DEFINE F(h) == [pi \in 1 .. (Len(p) + 1) |->
                      [ti \in 1 .. (Len(t) + 1) |-> MatchFrom(p, t, h, pi, ti)]]
           g == CHOOSE h : h = F(h)
<1>1. PICK h : Answers(h, p, t, Len(p) + 1)
  BY AnswersExist
<1>2. h = F(h)
  <2>1. Len(p) + 2 - (Len(p) + 1) = 1
    OBVIOUS
  <2> QED BY <1>1, <2>1 DEF Answers, Row
<1>3. g = F(g)
  <2> HIDE DEF F
  <2> QED BY <1>2
<1>4. redisGlobMatch(p, t) = g[1][1]
  BY DEF redisGlobMatch
<1>5. \A pi \in 1 .. (Len(p) + 1), ti \in 1 .. (Len(t) + 1) :
         g[pi][ti] = MatchFrom(p, t, g, pi, ti)
  <2> HIDE DEF g
  <2>1. TAKE pi \in 1 .. (Len(p) + 1), ti \in 1 .. (Len(t) + 1)
  <2>2. g[pi] = [i \in 1 .. (Len(t) + 1) |-> MatchFrom(p, t, g, pi, i)]
    BY <1>3
  <2> QED BY <2>2
<1> HIDE DEF g
<1> QED BY <1>4, <1>5

(***************************************************************************)
(* The items in the bytes of the pattern.                                  *)
(***************************************************************************)
\* The spellings of the first n items, one behind the other.
Joined(f, s, n) == f = [i \in 1 .. n |-> IF i = 1 THEN s[i] ELSE f[i - 1] \o s[i]]

\* FlattenSeq has such a function, for every number of items.
LEMMA JoinedExists ==
    ASSUME NEW s, NEW n \in Nat
    PROVE  \E f : Joined(f, s, n)
<1> DEFINE S        == {k \in Nat : ~ \E f : Joined(f, s, k)}
           at(g, i) == IF i = 1 THEN s[i] ELSE g[i - 1] \o s[i]
<1> SUFFICES ASSUME S # {} PROVE FALSE
  OBVIOUS
<1>1. PICK k \in S : \A j \in S : k <= j
  BY LeastElement
<1>2. k \in Nat /\ ~ \E f : Joined(f, s, k)
  OBVIOUS
<1>3. \A g, h, i : (i # 1 => g[i - 1] = h[i - 1]) => at(g, i) = at(h, i)
  OBVIOUS
<1>4. \A j, f : Joined(f, s, j) <=> f = [i \in 1 .. j |-> at(f, i)]
  BY DEF Joined
<1> HIDE DEF at
<1>5. CASE k = 0
  <2> DEFINE f == [i \in 1 .. k |-> at(s, i)]
  <2>1. \A i \in 1 .. k : at(s, i) = at(f, i)
    BY <1>5
  <2>2. f = [i \in 1 .. k |-> at(f, i)]
    BY <2>1
  <2> QED BY <1>2, <1>4, <2>2
<1>6. CASE k # 0
  <2>1. k - 1 \in Nat /\ ~(k <= k - 1)
    BY <1>2, <1>6
  <2>2. \E g : Joined(g, s, k - 1)
    BY <1>1, <2>1
  <2>3. PICK g : g = [i \in 1 .. (k - 1) |-> at(g, i)]
    BY <1>4, <2>2
  <2> DEFINE f == [i \in 1 .. k |-> at(g, i)]
  <2>4. ASSUME NEW i \in 1 .. (k - 1) PROVE f[i] = g[i]
    <3>1. g[i] = at(g, i)
      BY <2>3
    <3>2. i \in 1 .. k
      BY <1>2
    <3> QED BY <3>1, <3>2
  <2>5. ASSUME NEW i \in 1 .. k PROVE at(g, i) = at(f, i)
    <3>1. i # 1 => i - 1 \in 1 .. (k - 1)
      BY <1>2
    <3>2. i # 1 => f[i - 1] = g[i - 1]
      BY <2>4, <3>1
    <3> HIDE DEF f
    <3> QED BY <1>3, <3>2
  <2>6. f = [i \in 1 .. k |-> at(f, i)]
    BY <2>5
  <2> QED BY <1>2, <1>4, <2>6
<1> QED BY <1>5, <1>6

\* The items its and the tail tl stand in the pattern p at the places off.
Placed(p, its, tl, off) ==
    LET N == Len(its)
    IN  /\ p \in Seq(Nat) /\ off \in [1 .. (N + 1) -> Nat \ {0}] /\ off[1] = 1
        /\ \A i \in 1 .. N :
             /\ off[i + 1] = off[i] + Len(its[i].spell)
             /\ \A j \in 1 .. Len(its[i].spell) : p[off[i] + j - 1] = its[i].spell[j]
        /\ Len(p) = off[N + 1] - 1 + Len(tl)
        /\ \A j \in 1 .. Len(tl) : p[off[N + 1] + j - 1] = tl[j]

\* One sequence behind another.
LEMMA Concatenation ==
    ASSUME NEW a \in Seq(Nat), NEW b \in Seq(Nat)
    PROVE  /\ a \o b \in Seq(Nat) /\ Len(a \o b) = Len(a) + Len(b)
           /\ \A j \in 1 .. Len(a) : (a \o b)[j] = a[j]
           /\ \A j \in 1 .. Len(b) : (a \o b)[Len(a) + j] = b[j]
OBVIOUS

\* What is joined is as long as its parts, which follow each other.
LEMMA JoinedParts ==
    ASSUME NEW N \in Nat, NEW s \in [1 .. N -> Seq(Nat)], NEW f, Joined(f, s, N)
    PROVE  /\ f \in [1 .. N -> Seq(Nat)]
           /\ \A i \in 1 .. N : f[i] = IF i = 1 THEN s[i] ELSE f[i - 1] \o s[i]
<1>1. \A i \in 1 .. N : f[i] = IF i = 1 THEN s[i] ELSE f[i - 1] \o s[i]
  BY DEF Joined
<1> DEFINE S == {i \in 1 .. N : f[i] \notin Seq(Nat)}
<1>2. ASSUME S # {} PROVE FALSE
  <2>1. S \in SUBSET Nat
    OBVIOUS
  <2>2. PICK i \in S : \A j \in S : i <= j
    BY <1>2, <2>1, LeastElement
  <2>3. CASE i = 1
    BY <1>1, <2>3
  <2>4. CASE i # 1
    <3>1. i - 1 \in 1 .. N /\ ~(i <= i - 1)
      BY <2>4
    <3>2. f[i - 1] \in Seq(Nat)
      BY <2>2, <3>1
    <3>3. f[i] = f[i - 1] \o s[i] /\ s[i] \in Seq(Nat)
      BY <1>1, <2>4
    <3>4. f[i] \in Seq(Nat)
      BY <3>2, <3>3, Concatenation
    <3> QED BY <3>4
  <2> QED BY <2>3, <2>4
<1>3. f = [i \in 1 .. N |-> f[i]]
  <2> DEFINE e(i) == IF i = 1 THEN s[i] ELSE f[i - 1] \o s[i]
  <2>1. f = [i \in 1 .. N |-> e(i)]
    BY DEF Joined
  <2> HIDE DEF e
  <2> QED BY <2>1
<1> QED BY <1>1, <1>2, <1>3

\* Each part is found in all that contains it.
LEMMA JoinedKeep ==
    ASSUME NEW N \in Nat, NEW s \in [1 .. N -> Seq(Nat)], NEW f, Joined(f, s, N),
           NEW i \in 1 .. N, NEW k \in i .. N
    PROVE  /\ Len(f[i]) <= Len(f[k])
           /\ \A j \in 1 .. Len(f[i]) : f[k][j] = f[i][j]
<1> DEFINE ok(q) == Len(f[i]) <= Len(f[q]) /\ \A j \in 1 .. Len(f[i]) : f[q][j] = f[i][j]
           S == {q \in i .. N : ~ok(q)}
<1>1. /\ f \in [1 .. N -> Seq(Nat)]
      /\ \A q \in 1 .. N : f[q] = IF q = 1 THEN s[q] ELSE f[q - 1] \o s[q]
  BY JoinedParts
<1>2. ASSUME S # {} PROVE FALSE
  <2>1. S \in SUBSET Nat
    OBVIOUS
  <2>2. PICK q \in S : \A j \in S : q <= j
    BY <1>2, <2>1, LeastElement
  <2>3. q \in i .. N /\ ~ok(q)
    OBVIOUS
  <2>4. q # i
    BY <1>1, <2>3
  <2>5. q - 1 \in i .. N /\ ~(q <= q - 1)
    BY <2>3, <2>4
  <2>6. ok(q - 1)
    BY <2>2, <2>5
  <2>7. f[q] = f[q - 1] \o s[q] /\ f[q - 1] \in Seq(Nat) /\ s[q] \in Seq(Nat) /\ f[i] \in Seq(Nat)
    <3>1. q \in 1 .. N /\ q # 1 /\ q - 1 \in 1 .. N
      BY <2>3, <2>4, <2>5
    <3> QED BY <1>1, <3>1
  <2>8. /\ Len(f[q]) = Len(f[q - 1]) + Len(s[q])
        /\ \A j \in 1 .. Len(f[q - 1]) : f[q][j] = f[q - 1][j]
    <3> DEFINE x == f[q - 1]
               y == s[q]
               z == f[q]
    <3>1. x \in Seq(Nat) /\ y \in Seq(Nat) /\ z = x \o y
      BY <2>7
    <3> HIDE DEF x, y, z
    <3>2. Len(z) = Len(x) + Len(y) /\ \A j \in 1 .. Len(x) : z[j] = x[j]
      BY <3>1, Concatenation
    <3> QED BY <3>2 DEF x, y, z
  <2>9. Len(f[q - 1]) \in Nat /\ Len(s[q]) \in Nat /\ Len(f[i]) \in Nat
    BY <2>7
  <2>10. ok(q)
    <3>1. Len(f[i]) <= Len(f[q - 1])
      BY <2>6
    <3>2. ASSUME NEW j \in 1 .. Len(f[i]) PROVE f[q][j] = f[i][j]
      <4>1. j \in 1 .. Len(f[q - 1])
        BY <2>9, <3>1
      <4> QED BY <2>6, <2>8, <4>1
    <3>3. Len(f[i]) <= Len(f[q])
      <4>1. \A a, b, c \in Nat : a <= b => a <= b + c
        OBVIOUS
      <4>2. Len(f[q]) = Len(f[q - 1]) + Len(s[q])
        BY <2>8
      <4> QED BY <2>9, <3>1, <4>1, <4>2
    <3> QED BY <3>2, <3>3
  <2> QED BY <2>3, <2>10
<1>3. ok(k)
  BY <1>2
<1> QED BY <1>3

\* The pattern a client puts together has its items in their places.
LEMMA PatternPlaced ==
    ASSUME items \in Seq(Items), tail \in {<< >>} \cup Tails
    PROVE  \E off : Placed(Pattern, items, tail, off)
<1> DEFINE N == Len(items)
           s == [i \in DOMAIN items |-> items[i].spell]
<1>1. N \in Nat /\ DOMAIN items = 1 .. N /\ \A i \in 1 .. N : items[i] \in Items
  OBVIOUS
<1>2. \A i \in 1 .. N : items[i].spell \in Seq(Nat)
  BY <1>1, GlobAssumption DEF IsItem
<1>3. s \in [1 .. N -> Seq(Nat)] /\ \A i \in 1 .. N : s[i] = items[i].spell
  BY <1>1, <1>2
<1>4. tail \in Seq(Nat)
  <2>1. CASE tail = << >>
    BY <2>1
  <2>2. CASE tail \in Tails
    BY <2>2, GlobAssumption DEF IsTail
  <2> QED BY <2>1, <2>2
<1> HIDE DEF s, N
<1> DEFINE F(h) == [i \in 1 .. Len(s) |-> IF i = 1 THEN s[i] ELSE h[i - 1] \o s[i]]
           f == CHOOSE h : h = F(h)
<1>5. Len(s) = N
  BY <1>1, <1>3
<1>6. Joined(f, s, N)
  <2>1. PICK h : Joined(h, s, N)
    BY <1>1, JoinedExists
  <2>2. h = F(h)
    BY <1>5, <2>1 DEF Joined
  <2>3. f = F(f)
    <3> HIDE DEF F
    <3> QED BY <2>2
  <2> HIDE DEF f
  <2> QED BY <1>5, <2>3 DEF Joined
<1> DEFINE flat == FlattenSeq(s)
<1>7. flat = IF N = 0 THEN s ELSE f[N]
  BY <1>5 DEF FlattenSeq
<1> HIDE DEF f
<1>8. /\ f \in [1 .. N -> Seq(Nat)]
      /\ \A i \in 1 .. N : f[i] = IF i = 1 THEN s[i] ELSE f[i - 1] \o s[i]
  <2>1. N \in Nat /\ s \in [1 .. N -> Seq(Nat)] /\ Joined(f, s, N)
    BY <1>1, <1>3, <1>6
  <2> QED BY <2>1, JoinedParts, Zenon
<1>9. flat \in Seq(Nat) /\ (N = 0 => Len(flat) = 0)
  <2>1. CASE N = 0
    <3>1. s \in Seq(Nat)
      BY <1>3, <2>1
    <3> QED BY <1>5, <1>7, <2>1, <3>1
  <2>2. CASE N # 0
    BY <1>1, <1>7, <1>8, <2>2
  <2> QED BY <2>1, <2>2
<1>10. Pattern = flat \o tail
  BY DEF Pattern, s
<1> HIDE DEF flat
<1> DEFINE off == [i \in 1 .. (N + 1) |-> IF i = 1 THEN 1 ELSE Len(f[i - 1]) + 1]
<1>11. ASSUME NEW i \in 2 .. (N + 1)
       PROVE  i - 1 \in 1 .. N /\ f[i - 1] \in Seq(Nat) /\ off[i] = Len(f[i - 1]) + 1
  <2>1. i - 1 \in 1 .. N /\ i \in 1 .. (N + 1) /\ i # 1
    BY <1>1
  <2>2. f[i - 1] \in Seq(Nat)
    BY <1>8, <2>1
  <2> QED BY <2>1, <2>2
<1>12. off \in [1 .. (N + 1) -> Nat \ {0}] /\ off[1] = 1
  <2>1. ASSUME NEW i \in 1 .. (N + 1) PROVE off[i] \in Nat \ {0}
    <3>1. CASE i = 1
      BY <3>1
    <3>2. CASE i # 1
      <4>1. i \in 2 .. (N + 1)
        BY <1>1, <3>2
      <4>2. Len(f[i - 1]) \in Nat /\ off[i] = Len(f[i - 1]) + 1
        BY <1>11, <4>1
      <4> HIDE DEF off
      <4> QED BY <4>2
    <3> QED BY <3>1, <3>2
  <2>2. 1 \in 1 .. (N + 1)
    BY <1>1
  <2> QED BY <2>1, <2>2
<1>13. off[N + 1] = Len(flat) + 1
  <2>1. CASE N = 0
    BY <1>9, <1>12, <2>1
  <2>2. CASE N # 0
    <3>1. N + 1 \in 2 .. (N + 1) /\ (N + 1) - 1 = N
      BY <1>1, <2>2
    <3>2. off[N + 1] = Len(f[N]) + 1
      BY <1>11, <3>1
    <3> HIDE DEF off
    <3> QED BY <1>7, <2>2, <3>2
  <2> QED BY <2>1, <2>2
<1>14. ASSUME NEW i \in 1 .. N
       PROVE  /\ off[i + 1] = Len(f[i]) + 1
              /\ Len(f[i]) = off[i] - 1 + Len(s[i])
              /\ \A j \in 1 .. Len(s[i]) : f[i][off[i] + j - 1] = s[i][j]
  <2>1. off[i + 1] = Len(f[i]) + 1
    <3>1. i + 1 \in 2 .. (N + 1) /\ (i + 1) - 1 = i
      BY <1>1
    <3> HIDE DEF off
    <3> QED BY <1>11, <3>1
  <2>2. CASE i = 1
    <3>1. f[i] = s[i] /\ off[i] = 1 /\ s[i] \in Seq(Nat)
      BY <1>3, <1>8, <1>12, <2>2
    <3> HIDE DEF off
    <3> QED BY <2>1, <3>1
  <2>3. CASE i # 1
    <3> DEFINE x == f[i - 1]
               y == s[i]
               z == f[i]
    <3>1. i \in 2 .. (N + 1)
      BY <1>1, <2>3
    <3>2. x \in Seq(Nat) /\ off[i] = Len(x) + 1
      BY <1>11, <3>1
    <3>3. z = x \o y /\ y \in Seq(Nat)
      BY <1>3, <1>8, <2>3
    <3> HIDE DEF x, y, z, off
    <3>4. /\ Len(z) = Len(x) + Len(y)
          /\ \A j \in 1 .. Len(y) : z[Len(x) + j] = y[j]
      BY <3>2, <3>3, Concatenation
    <3>5. ASSUME NEW j \in 1 .. Len(y) PROVE z[off[i] + j - 1] = y[j]
      <4>1. off[i] + j - 1 = Len(x) + j
        BY <3>2
      <4> QED BY <3>4, <4>1
    <3>6. Len(z) = off[i] - 1 + Len(y)
      BY <3>2, <3>3, <3>4
    <3> QED BY <2>1, <3>5, <3>6 DEF y, z
  <2> QED BY <2>2, <2>3
<1> HIDE DEF off
<1>15. /\ Pattern \in Seq(Nat) /\ Len(Pattern) = Len(flat) + Len(tail)
       /\ \A j \in 1 .. Len(flat) : Pattern[j] = flat[j]
       /\ \A j \in 1 .. Len(tail) : Pattern[Len(flat) + j] = tail[j]
  BY <1>4, <1>9, <1>10, Concatenation
<1>16. ASSUME NEW i \in 1 .. N
       PROVE  /\ off[i + 1] = off[i] + Len(items[i].spell)
              /\ \A j \in 1 .. Len(items[i].spell) :
                    Pattern[off[i] + j - 1] = items[i].spell[j]
  <2>1. s[i] = items[i].spell /\ s[i] \in Seq(Nat) /\ off[i] \in Nat \ {0}
    BY <1>1, <1>3, <1>12
  <2>0. /\ off[i + 1] = Len(f[i]) + 1
        /\ Len(f[i]) = off[i] - 1 + Len(s[i])
        /\ \A j \in 1 .. Len(s[i]) : f[i][off[i] + j - 1] = s[i][j]
    BY <1>14
  <2>2. off[i + 1] = off[i] + Len(s[i])
    <3>1. off[i + 1] = (off[i] - 1 + Len(s[i])) + 1 /\ Len(s[i]) \in Nat
      BY <2>0, <2>1
    <3>2. \A a, b \in Nat : (a - 1 + b) + 1 = a + b
      OBVIOUS
    <3> QED BY <2>1, <3>1, <3>2
  <2>3. flat = f[N] /\ N \in i .. N /\ Len(flat) \in Nat
    BY <1>1, <1>7, <1>9
  <2>4. Len(f[i]) <= Len(flat) /\ \A j \in 1 .. Len(f[i]) : flat[j] = f[i][j]
    <3>1. N \in Nat /\ s \in [1 .. N -> Seq(Nat)] /\ Joined(f, s, N) /\ N \in i .. N
      BY <1>1, <1>3, <1>6, <2>3
    <3>2. Len(f[i]) <= Len(f[N]) /\ \A j \in 1 .. Len(f[i]) : f[N][j] = f[i][j]
      BY <3>1, JoinedKeep, Zenon
    <3> QED BY <2>3, <3>2
  <2>5. ASSUME NEW j \in 1 .. Len(s[i]) PROVE Pattern[off[i] + j - 1] = s[i][j]
    <3>1. off[i] + j - 1 \in 1 .. Len(f[i])
      <4>1. off[i] + j - 1 \in 1 .. (off[i] - 1 + Len(s[i]))
        BY <2>1
      <4> QED BY <2>0, <4>1
    <3>2. off[i] + j - 1 \in 1 .. Len(flat)
      BY <1>8, <2>3, <2>4, <3>1
    <3>3. f[i][off[i] + j - 1] = s[i][j]
      BY <2>0
    <3> QED BY <1>15, <2>4, <3>1, <3>2, <3>3
  <2> QED BY <2>1, <2>2, <2>5
<1>17. ASSUME NEW j \in 1 .. Len(tail) PROVE Pattern[off[N + 1] + j - 1] = tail[j]
  <2>1. off[N + 1] + j - 1 = Len(flat) + j
    BY <1>9, <1>13
  <2> QED BY <1>15, <2>1
<1>18. Len(Pattern) = off[N + 1] - 1 + Len(tail)
  BY <1>4, <1>9, <1>13, <1>15
<1> QED BY <1>12, <1>15, <1>16, <1>17, <1>18 DEF Placed, N

(***************************************************************************)
(* Classes.                                                                *)
(***************************************************************************)
\* A dash between two bytes of the class that ends at end.
IsRange(p, end, i) == i + 2 < end /\ p[i + 1] = Dash

\* The loop over a class reads a byte at i, given where it reads before.
ReadAt(r, p, start, end, i) ==
    \/ i = start
    \/ i - 1 >= start /\ r[i - 1] /\ ~IsRange(p, end, i - 1)
    \/ i - 3 >= start /\ r[i - 3] /\ IsRange(p, end, i - 3)

\* Where it reads, among the first k places.
Reading(r, p, start, end, k) ==
    r = [i \in start .. (start + k - 1) |-> ReadAt(r, p, start, end, i)]

\* There is such a function for every class.
LEMMA ReadingExists ==
    ASSUME NEW p, NEW start \in Nat, NEW end \in Nat, NEW n \in Nat
    PROVE  \E r : Reading(r, p, start, end, n)
<1> DEFINE S == {k \in Nat : ~ \E r : Reading(r, p, start, end, k)}
           at(r, i) == ReadAt(r, p, start, end, i)
<1> SUFFICES ASSUME S # {} PROVE FALSE
  OBVIOUS
<1>1. PICK k \in S : \A j \in S : k <= j
  BY LeastElement
<1>2. k \in Nat /\ ~ \E r : Reading(r, p, start, end, k)
  OBVIOUS
<1>3. \A g, h, i : (/\ i - 1 >= start => g[i - 1] = h[i - 1]
                    /\ i - 3 >= start => g[i - 3] = h[i - 3]) => at(g, i) = at(h, i)
  BY DEF ReadAt
<1>4. \A j, r : Reading(r, p, start, end, j) <=> r = [i \in start .. (start + j - 1) |-> at(r, i)]
  BY DEF Reading
<1> HIDE DEF at
<1>5. CASE k = 0
  <2> DEFINE f == [i \in start .. (start + k - 1) |-> at(p, i)]
  <2>1. \A i \in start .. (start + k - 1) : at(p, i) = at(f, i)
    BY <1>5
  <2>2. f = [i \in start .. (start + k - 1) |-> at(f, i)]
    BY <2>1
  <2> QED BY <1>2, <1>4, <2>2
<1>6. CASE k # 0
  <2>1. k - 1 \in Nat /\ ~(k <= k - 1)
    BY <1>2, <1>6
  <2>2. \E g : Reading(g, p, start, end, k - 1)
    BY <1>1, <2>1
  <2>3. PICK g : g = [i \in start .. (start + (k - 1) - 1) |-> at(g, i)]
    BY <1>4, <2>2
  <2> DEFINE f == [i \in start .. (start + k - 1) |-> at(g, i)]
  <2>4. ASSUME NEW i \in start .. (start + (k - 1) - 1) PROVE f[i] = g[i]
    <3>1. g[i] = at(g, i)
      BY <2>3
    <3>2. i \in start .. (start + k - 1)
      BY <1>2
    <3> QED BY <3>1, <3>2
  <2>5. ASSUME NEW i \in start .. (start + k - 1) PROVE at(g, i) = at(f, i)
    <3>1. /\ i - 1 >= start => i - 1 \in start .. (start + (k - 1) - 1)
          /\ i - 3 >= start => i - 3 \in start .. (start + (k - 1) - 1)
      BY <1>2
    <3>2. /\ i - 1 >= start => g[i - 1] = f[i - 1]
          /\ i - 3 >= start => g[i - 3] = f[i - 3]
      BY <2>4, <3>1
    <3> HIDE DEF f
    <3> QED BY <1>3, <3>2
  <2>6. f = [i \in start .. (start + k - 1) |-> at(f, i)]
    BY <2>5
  <2> QED BY <1>2, <1>4, <2>6
<1> QED BY <1>5, <1>6

\* The bytes that are listed where the loop reads.
ListedAt(p, end, i) == IF IsRange(p, end, i) THEN p[i] .. p[i + 2] ELSE {p[i]}

\* Listed collects them over such a function.
ReadBy(r, p, start, end) ==
    /\ \A i \in start .. (end - 1) : r[i] = ReadAt(r, p, start, end, i)
    /\ Listed(p, start, end) =
         UNION {ListedAt(p, end, i) : i \in {j \in start .. (end - 1) : r[j]}}

\* Every class is read by one.
LEMMA ListedIsRead ==
    ASSUME NEW p, NEW start \in Nat, NEW end \in Nat, start <= end
    PROVE  \E r : ReadBy(r, p, start, end)
<1> DEFINE F(h) == [i \in start .. (end - 1) |-> ReadAt(h, p, start, end, i)]
           r == CHOOSE h : h = F(h)
<1>1. PICK h : Reading(h, p, start, end, end - start)
  BY ReadingExists
<1>2. h = F(h)
  <2>1. start + (end - start) - 1 = end - 1
    OBVIOUS
  <2> QED BY <1>1, <2>1 DEF Reading
<1>3. r = F(r)
  <2> HIDE DEF F
  <2> QED BY <1>2
<1>4. Listed(p, start, end) =
         UNION {ListedAt(p, end, i) : i \in {j \in start .. (end - 1) : r[j]}}
  BY DEF Listed, ListedAt, IsRange, ReadAt
<1>5. \A i \in start .. (end - 1) : r[i] = ReadAt(r, p, start, end, i)
  <2> HIDE DEF r
  <2> QED BY <1>3
<1> HIDE DEF r
<1> QED BY <1>4, <1>5 DEF ReadBy

\* What stands from start up to end in q stands in p as well, d places further on.
Moved(p, q, start, end, d) == \A i \in start .. (end - 1) : p[i + d] = q[i]

\* A class lists the same bytes wherever it stands.
LEMMA ListedMoves ==
    ASSUME NEW p, NEW q, NEW start \in Nat, NEW end \in Nat, start <= end, NEW d \in Nat,
           Moved(p, q, start, end, d)
    PROVE  Listed(p, start + d, end + d) = Listed(q, start, end)
<1> USE DEF Moved
<1>0. start + d \in Nat /\ end + d \in Nat /\ start + d <= end + d
  OBVIOUS
<1>1. PICK r : ReadBy(r, p, start + d, end + d)
  BY <1>0, ListedIsRead
<1>2. PICK z : ReadBy(z, q, start, end)
  BY ListedIsRead
<1>3. \A i \in start .. (end - 1) : IsRange(p, end + d, i + d) <=> IsRange(q, end, i)
  <2> SUFFICES ASSUME NEW i \in start .. (end - 1)
      PROVE  IsRange(p, end + d, i + d) <=> IsRange(q, end, i)
    OBVIOUS
  <2>1. (i + d) + 2 < end + d <=> i + 2 < end
    OBVIOUS
  <2>2. ASSUME i + 2 < end PROVE p[(i + d) + 1] = q[i + 1]
    <3>1. i + 1 \in start .. (end - 1) /\ (i + 1) + d = (i + d) + 1
      BY <2>2
    <3> QED BY <3>1
  <2> QED BY <2>1, <2>2 DEF IsRange
<1> DEFINE S == {i \in start .. (end - 1) : ~(r[i + d] <=> z[i])}
<1>4. ASSUME S # {} PROVE FALSE
  <2>1. S \in SUBSET Nat
    OBVIOUS
  <2>2. PICK i \in S : \A j \in S : i <= j
    BY <1>4, <2>1, LeastElement
  <2>3. i \in start .. (end - 1) /\ ~(r[i + d] <=> z[i])
    OBVIOUS
  <2>4. i + d \in (start + d) .. (end + d - 1)
    BY <2>3
  <2>5. r[i + d] = ReadAt(r, p, start + d, end + d, i + d) /\ z[i] = ReadAt(z, q, start, end, i)
    BY <1>1, <1>2, <2>3, <2>4 DEF ReadBy
  <2>6. ASSUME NEW j \in start .. (i - 1)
        PROVE  /\ r[j + d] <=> z[j]
               /\ IsRange(p, end + d, j + d) <=> IsRange(q, end, j)
    <3>1. j \in start .. (end - 1) /\ ~(i <= j)
      BY <2>3
    <3>2. j \notin S
      BY <2>2, <3>1
    <3> QED BY <1>3, <3>1, <3>2
  <2> HIDE DEF S
  <2>7. /\ (i + d) - 1 = (i - 1) + d /\ (i + d) - 3 = (i - 3) + d
        /\ (i + d) - 1 >= start + d <=> i - 1 >= start
        /\ (i + d) - 3 >= start + d <=> i - 3 >= start
        /\ i + d = start + d <=> i = start
    BY <2>3
  <2>8. /\ i - 1 >= start => i - 1 \in start .. (i - 1)
        /\ i - 3 >= start => i - 3 \in start .. (i - 1)
    BY <2>3
  <2>9. i - 1 >= start => /\ r[(i - 1) + d] <=> z[i - 1]
                          /\ IsRange(p, end + d, (i - 1) + d) <=> IsRange(q, end, i - 1)
    BY <2>6, <2>8
  <2>10. i - 3 >= start => /\ r[(i - 3) + d] <=> z[i - 3]
                           /\ IsRange(p, end + d, (i - 3) + d) <=> IsRange(q, end, i - 3)
    BY <2>6, <2>8
  <2>11. ReadAt(r, p, start + d, end + d, i + d) <=> ReadAt(z, q, start, end, i)
    BY <2>7, <2>9, <2>10 DEF ReadAt
  <2> QED BY <2>3, <2>5, <2>11
<1>5. \A i \in start .. (end - 1) : r[i + d] <=> z[i]
  BY <1>4
<1>6. ASSUME NEW i \in start .. (end - 1)
      PROVE  ListedAt(p, end + d, i + d) = ListedAt(q, end, i)
  <2>1. p[i + d] = q[i]
    OBVIOUS
  <2>2. ASSUME IsRange(q, end, i) PROVE p[(i + d) + 2] = q[i + 2]
    <3>1. i + 2 \in start .. (end - 1) /\ (i + 2) + d = (i + d) + 2
      BY <2>2 DEF IsRange
    <3> QED BY <3>1
  <2> QED BY <1>3, <2>1, <2>2 DEF ListedAt
<1>7. ASSUME NEW x \in Listed(q, start, end) PROVE x \in Listed(p, start + d, end + d)
  <2>1. PICK i \in start .. (end - 1) : z[i] /\ x \in ListedAt(q, end, i)
    BY <1>2 DEF ReadBy
  <2>2. i + d \in (start + d) .. (end + d - 1) /\ r[i + d] /\ x \in ListedAt(p, end + d, i + d)
    BY <1>5, <1>6, <2>1
  <2> QED BY <1>1, <2>2 DEF ReadBy
<1>8. ASSUME NEW x \in Listed(p, start + d, end + d) PROVE x \in Listed(q, start, end)
  <2>1. PICK j \in (start + d) .. (end + d - 1) : r[j] /\ x \in ListedAt(p, end + d, j)
    BY <1>1 DEF ReadBy
  <2> DEFINE i == j - d
  <2>2. i \in start .. (end - 1) /\ i + d = j
    BY <2>1
  <2> HIDE DEF i
  <2>3. z[i] /\ x \in ListedAt(q, end, i)
    BY <1>5, <1>6, <2>1, <2>2
  <2> QED BY <1>2, <2>2, <2>3 DEF ReadBy
<1> QED BY <1>7, <1>8

\* The places q split a class, from start up to end, into n members: single bytes,
\* none of which reads as the beginning of a range, and ranges.
Members(q, n, p, start, end) ==
    /\ q \in [1 .. (n + 1) -> start .. end] /\ q[1] = start /\ q[n + 1] = end
    /\ \A k \in 1 .. n : q[k + 1] = q[k] + (IF IsRange(p, end, q[k]) THEN 3 ELSE 1)

\* The loop over a class reads it member by member: it lists the bytes of the
\* members the client has put together and no others.
THEOREM ClassesListTheirMembers ==
    ASSUME NEW p, NEW start \in Nat, NEW end \in Nat, start <= end, NEW n \in Nat,
           NEW q, Members(q, n, p, start, end)
    PROVE  Listed(p, start, end) = UNION {ListedAt(p, end, q[k]) : k \in 1 .. n}
<1>1. PICK r : ReadBy(r, p, start, end)
  BY ListedIsRead
<1>2. \A k \in 1 .. (n + 1) : q[k] \in start .. end
  BY DEF Members
<1>3. q[1] = start /\ q[n + 1] = end
  BY DEF Members
<1>4. \A k \in 1 .. n : q[k + 1] = q[k] + (IF IsRange(p, end, q[k]) THEN 3 ELSE 1)
  BY DEF Members
<1>5. \A k \in 1 .. n : q[k] \in start .. (end - 1)
  <2> TAKE k \in 1 .. n
  <2>1. k \in 1 .. (n + 1) /\ k + 1 \in 1 .. (n + 1)
    OBVIOUS
  <2>2. q[k] \in start .. end /\ q[k + 1] \in start .. end
    BY <1>2, <2>1
  <2>3. q[k] < q[k + 1]
    BY <1>4, <2>2
  <2> QED BY <2>2, <2>3
<1> DEFINE member(i) == \E k \in 1 .. n : q[k] = i
           S == {i \in start .. (end - 1) : ~(r[i] <=> member(i))}
<1>6. ASSUME S # {} PROVE FALSE
  <2>1. S \in SUBSET Nat
    OBVIOUS
  <2>2. PICK i \in S : \A j \in S : i <= j
    BY <1>6, <2>1, LeastElement
  <2>3. i \in start .. (end - 1) /\ ~(r[i] <=> member(i))
    OBVIOUS
  <2>4. r[i] = ReadAt(r, p, start, end, i)
    BY <1>1, <2>3 DEF ReadBy
  <2>5. ASSUME NEW j \in start .. (i - 1) PROVE r[j] <=> member(j)
    <3>1. j \in start .. (end - 1) /\ ~(i <= j)
      BY <2>3
    <3> QED BY <2>2, <3>1
  <2> HIDE DEF S
  <2>6. ASSUME NEW j \in start .. (i - 1), r[j], i = j + (IF IsRange(p, end, j) THEN 3 ELSE 1)
        PROVE  member(i)
    <3>1. PICK k \in 1 .. n : q[k] = j
      BY <2>5, <2>6
    <3>2. q[k + 1] = i
      BY <1>4, <2>6, <3>1
    <3>3. k # n
      BY <1>3, <2>3, <3>2
    <3>4. k + 1 \in 1 .. n
      BY <3>3
    <3> QED BY <3>2, <3>4
  <2>7. ASSUME r[i] PROVE member(i)
    <3>1. CASE i = start
      <4>1. n # 0
        BY <1>3, <2>3
      <4>2. 1 \in 1 .. n
        BY <4>1
      <4> QED BY <1>3, <3>1, <4>2
    <3>2. CASE i - 1 >= start /\ r[i - 1] /\ ~IsRange(p, end, i - 1)
      <4>1. i - 1 \in start .. (i - 1) /\ i = (i - 1) + 1
        BY <2>3, <3>2
      <4> HIDE DEF member
      <4> QED BY <2>6, <3>2, <4>1
    <3>3. CASE i - 3 >= start /\ r[i - 3] /\ IsRange(p, end, i - 3)
      <4>1. i - 3 \in start .. (i - 1) /\ i = (i - 3) + 3
        BY <2>3, <3>3
      <4> HIDE DEF member
      <4> QED BY <2>6, <3>3, <4>1
    <3> QED BY <2>4, <2>7, <3>1, <3>2, <3>3 DEF ReadAt
  <2>8. ASSUME NEW k \in 1 .. n, q[k] = i PROVE r[i]
    <3>1. CASE k = 1
      BY <1>3, <2>4, <2>8, <3>1 DEF ReadAt
    <3>2. CASE k # 1
      <4> DEFINE j == q[k - 1]
      <4>1. k - 1 \in 1 .. n /\ (k - 1) + 1 = k
        BY <3>2
      <4>2. j \in start .. (end - 1) /\ i = j + (IF IsRange(p, end, j) THEN 3 ELSE 1)
        BY <1>4, <1>5, <2>8, <4>1
      <4>3. j \in start .. (i - 1) /\ member(j)
        BY <2>3, <4>1, <4>2
      <4>4. r[j]
        BY <2>5, <4>3
      <4> HIDE DEF j
      <4>5. CASE IsRange(p, end, j)
        <5>1. i - 3 = j /\ i - 3 >= start
          BY <4>2, <4>5
        <5> QED BY <2>4, <4>4, <4>5, <5>1 DEF ReadAt
      <4>6. CASE ~IsRange(p, end, j)
        <5>1. i - 1 = j /\ i - 1 >= start
          BY <4>2, <4>6
        <5> QED BY <2>4, <4>4, <4>6, <5>1 DEF ReadAt
      <4> QED BY <4>5, <4>6
    <3> QED BY <3>1, <3>2
  <2> QED BY <2>3, <2>7, <2>8
<1>7. \A i \in start .. (end - 1) : r[i] <=> \E k \in 1 .. n : q[k] = i
  BY <1>6
<1>8. ASSUME NEW x \in Listed(p, start, end)
      PROVE  x \in UNION {ListedAt(p, end, q[k]) : k \in 1 .. n}
  <2>1. PICK i \in start .. (end - 1) : r[i] /\ x \in ListedAt(p, end, i)
    BY <1>1 DEF ReadBy
  <2>2. PICK k \in 1 .. n : q[k] = i
    BY <1>7, <2>1
  <2> QED BY <2>1, <2>2
<1>9. ASSUME NEW x \in UNION {ListedAt(p, end, q[k]) : k \in 1 .. n}
      PROVE  x \in Listed(p, start, end)
  <2>1. PICK k \in 1 .. n : x \in ListedAt(p, end, q[k])
    BY <1>9
  <2>2. q[k] \in start .. (end - 1) /\ r[q[k]]
    BY <1>5, <1>7
  <2> QED BY <1>1, <2>1, <2>2 DEF ReadBy
<1> QED BY <1>8, <1>9

(***************************************************************************)
(* What the matcher answers where an item begins.                          *)
(***************************************************************************)
\* A pattern that a client may have put together.
Written(p, its, tl, off) ==
    its \in Seq(Items) /\ tl \in {<< >>} \cup Tails /\ Placed(p, its, tl, off)

\* Answers of the matcher at every place of a pattern and a name.
Sound(g, p, t) == \A pi \in 1 .. (Len(p) + 1), ti \in 1 .. (Len(t) + 1) :
    g[pi][ti] = MatchFrom(p, t, g, pi, ti)

\* An item is spelled in at least one byte.
LEMMA ItemSpelled ==
    ASSUME NEW it, IsItem(it)
    PROVE  it.spell \in Seq(Nat) /\ Len(it.spell) \in Nat \ {0}
BY DEF IsItem

\* The parts of a pattern that a client has put together.
LEMMA WrittenParts ==
    ASSUME NEW p, NEW its, NEW tl, NEW off, Written(p, its, tl, off)
    PROVE  /\ Len(its) \in Nat /\ Len(p) \in Nat /\ tl \in Seq(Nat)
           /\ \A i \in 1 .. Len(its) : /\ IsItem(its[i]) /\ its[i].spell \in Seq(Nat)
                                       /\ Len(its[i].spell) \in Nat \ {0}
           /\ \A i \in 1 .. (Len(its) + 1) : off[i] \in Nat \ {0}
<1>1. tl \in Seq(Nat)
  <2>1. CASE tl = << >>
    BY <2>1
  <2>2. CASE tl \in Tails
    BY <2>2, GlobAssumption DEF IsTail
  <2> QED BY <2>1, <2>2 DEF Written
<1>2. its \in Seq(Items) /\ p \in Seq(Nat) /\ off \in [1 .. (Len(its) + 1) -> Nat \ {0}]
  BY DEF Written, Placed
<1>3. \A i \in 1 .. Len(its) : its[i] \in Items
  BY <1>2
<1>4. \A i \in 1 .. Len(its) : IsItem(its[i])
  BY <1>3, GlobAssumption
<1>5. \A i \in 1 .. Len(its) :
         its[i].spell \in Seq(Nat) /\ Len(its[i].spell) \in Nat \ {0}
  BY <1>4, ItemSpelled
<1>6. Len(its) \in Nat /\ Len(p) \in Nat
  BY <1>2
<1>7. \A i \in 1 .. (Len(its) + 1) : off[i] \in Nat \ {0}
  BY <1>2
<1> QED BY <1>1, <1>4, <1>5, <1>6, <1>7

\* The spelling s of an item fills the pattern from one place to the next.
StandsAt(p, s, pi, next) ==
    /\ pi \in 1 .. Len(p) /\ next \in 1 .. (Len(p) + 1)
    /\ next = pi + Len(s) /\ Len(s) \in Nat \ {0}
    /\ \A j \in 1 .. Len(s) : p[pi + j - 1] = s[j]

\* Items stand one behind the other, and before the tail.
LEMMA PlacesGrow ==
    ASSUME NEW p, NEW its, NEW tl, NEW off, Written(p, its, tl, off),
           NEW i \in 1 .. Len(its)
    PROVE  StandsAt(p, its[i].spell, off[i], off[i + 1])
<1> DEFINE N == Len(its)
<1>1. /\ N \in Nat /\ Len(p) \in Nat /\ Len(tl) \in Nat
      /\ \A k \in 1 .. N : Len(its[k].spell) \in Nat \ {0}
      /\ \A k \in 1 .. (N + 1) : off[k] \in Nat \ {0}
  BY WrittenParts
<1>2. \A k \in 1 .. N : off[k + 1] = off[k] + Len(its[k].spell)
  BY DEF Written, Placed
<1>3. Len(p) = off[N + 1] - 1 + Len(tl)
  BY DEF Written, Placed
<1>4. \A j \in 1 .. Len(its[i].spell) : p[off[i] + j - 1] = its[i].spell[j]
  BY DEF Written, Placed
<1> HIDE DEF N
<1>5. i \in 1 .. N
  BY DEF N
<1> DEFINE S == {k \in (i + 1) .. (N + 1) : ~(off[i + 1] <= off[k])}
<1>6. ASSUME S # {} PROVE FALSE
  <2>1. S \in SUBSET Nat
    BY <1>1, <1>5
  <2>2. PICK k \in S : \A j \in S : k <= j
    BY <1>6, <2>1, LeastElement
  <2>3. k \in (i + 1) .. (N + 1) /\ ~(off[i + 1] <= off[k])
    OBVIOUS
  <2>4. i + 1 \in 1 .. (N + 1) /\ k # i + 1
    BY <1>1, <1>5, <2>3
  <2>5. k - 1 \in (i + 1) .. (N + 1) /\ ~(k <= k - 1) /\ k - 1 \in 1 .. N /\ (k - 1) + 1 = k
    BY <1>1, <1>5, <2>3, <2>4
  <2>6. off[i + 1] <= off[k - 1]
    BY <2>2, <2>5
  <2>7. off[k] = off[k - 1] + Len(its[k - 1].spell) /\ Len(its[k - 1].spell) \in Nat
        /\ off[k - 1] \in Nat /\ off[i + 1] \in Nat
    BY <1>1, <1>2, <2>4, <2>5
  <2>8. \A a, b, c \in Nat : a <= b => a <= b + c
    OBVIOUS
  <2> QED BY <2>3, <2>6, <2>7, <2>8
<1>7. off[i + 1] <= off[N + 1]
  <2>1. N + 1 \in (i + 1) .. (N + 1)
    BY <1>1, <1>5
  <2> QED BY <1>6, <2>1
<1>8. /\ off[i] \in Nat \ {0} /\ off[i + 1] \in Nat \ {0} /\ off[N + 1] \in Nat \ {0}
      /\ Len(its[i].spell) \in Nat \ {0} /\ off[i + 1] = off[i] + Len(its[i].spell)
  <2>1. i \in 1 .. (N + 1) /\ i + 1 \in 1 .. (N + 1) /\ N + 1 \in 1 .. (N + 1)
    BY <1>1, <1>5
  <2> QED BY <1>1, <1>2, <1>5, <2>1
<1>9. off[i] \in 1 .. Len(p) /\ off[i + 1] \in 1 .. (Len(p) + 1)
  <2>1. \A a, n, c \in Nat \ {0}, l, q \in Nat :
           a + n <= c /\ q = c - 1 + l => a \in 1 .. q /\ a + n \in 1 .. (q + 1)
    OBVIOUS
  <2>2. off[i] + Len(its[i].spell) <= off[N + 1]
    BY <1>7, <1>8
  <2>3. off[i] \in 1 .. Len(p) /\ off[i] + Len(its[i].spell) \in 1 .. (Len(p) + 1)
    BY <1>1, <1>3, <1>8, <2>1, <2>2
  <2> QED BY <1>8, <2>3
<1> QED BY <1>4, <1>8, <1>9 DEF StandsAt

\* A class ends with its item and lists what its spelling does.
LEMMA ClassInPlace ==
    ASSUME NEW p, Len(p) \in Nat, NEW s, NEW pi, NEW next, StandsAt(p, s, pi, next),
           Len(s) > 1, s[Len(s)] = Close, \A j \in 2 .. (Len(s) - 1) : s[j] # Close
    PROVE  /\ ClassEnd(p, pi) = next - 1
           /\ Listed(p, pi + 1, next - 1) = Listed(s, 2, Len(s))
           /\ s[2] = Caret => Listed(p, pi + 2, next - 1) = Listed(s, 3, Len(s))
<1> DEFINE n   == Len(s)
           end == ClassEnd(p, pi)
           d   == pi - 1
<1>1. pi \in Nat /\ n \in Nat /\ pi >= 1 /\ next = pi + n /\ pi + n <= Len(p) + 1 /\ n > 1
      /\ pi \in 1 .. Len(p)
  BY DEF StandsAt
<1>2. \A j \in 1 .. n : p[pi + j - 1] = s[j]
  BY DEF StandsAt
<1> HIDE DEF n
<1>3. s[n] = Close /\ \A j \in 2 .. (n - 1) : s[j] # Close
  BY DEF n
<1>4. d \in Nat /\ n + d = next - 1 /\ 2 + d = pi + 1 /\ 3 + d = pi + 2
  BY <1>1
<1>5. \A k \in 1 .. n : p[k + d] = s[k]
  <2> TAKE k \in 1 .. n
  <2>1. k + d = pi + k - 1
    BY <1>1
  <2> QED BY <1>2, <2>1
<1> HIDE DEF d
<1>6. end = n + d
  <2>1. n + d \in (pi + 1) .. Len(p) /\ p[n + d] = Close
    <3>1. n \in 1 .. n
      BY <1>1
    <3>2. n + d \in (pi + 1) .. Len(p)
      BY <1>1, <1>4
    <3> QED BY <1>3, <1>5, <3>1, <3>2
  <2>2. ASSUME NEW k \in (pi + 1) .. (n + d - 1) PROVE p[k] # Close
    <3>1. k - d \in 2 .. (n - 1) /\ (k - d) + d = k /\ k - d \in 1 .. n
      BY <1>1, <1>4
    <3>2. p[k] = s[k - d]
      BY <1>5, <3>1
    <3> QED BY <1>3, <3>1, <3>2
  <2>3. \/ /\ end = 0
           /\ \A k \in (pi + 1) .. Len(p) : p[k] # Close
        \/ /\ end \in (pi + 1) .. Len(p) /\ p[end] = Close
           /\ \A k \in (pi + 1) .. (end - 1) : p[k] # Close
    BY <1>1, ClassEndIsLater
  <2> HIDE DEF end
  <2>4. end \in (pi + 1) .. Len(p) /\ p[end] = Close /\ \A k \in (pi + 1) .. (end - 1) : p[k] # Close
    BY <2>1, <2>3
  <2>5. ~(n + d < end)
    <3>1. ASSUME n + d < end PROVE n + d \in (pi + 1) .. (end - 1)
      BY <1>1, <1>4, <2>1, <2>4, <3>1
    <3> QED BY <2>1, <2>4, <3>1
  <2>6. ~(end < n + d)
    <3>1. ASSUME end < n + d PROVE end \in (pi + 1) .. (n + d - 1)
      BY <1>1, <1>4, <2>4, <3>1
    <3> QED BY <2>2, <2>4, <3>1
  <2> QED BY <1>1, <1>4, <2>4, <2>5, <2>6
<1>7. ASSUME NEW st \in Nat, st > 0, st <= n PROVE Listed(p, st + d, n + d) = Listed(s, st, n)
  <2>1. Moved(p, s, st, n, d)
    BY <1>1, <1>5, <1>7 DEF Moved
  <2>2. st \in Nat /\ n \in Nat /\ st <= n /\ d \in Nat
    BY <1>1, <1>4, <1>7
  <2> QED BY <2>1, <2>2, ListedMoves
<1>8. Listed(p, 2 + d, n + d) = Listed(s, 2, n)
  BY <1>1, <1>7
<1>9. ASSUME s[2] = Caret PROVE Listed(p, 3 + d, n + d) = Listed(s, 3, n)
  <2>1. n # 2
    BY <1>3, <1>9 DEF Caret, Close
  <2> QED BY <1>1, <1>7, <2>1
<1> QED BY <1>4, <1>6, <1>8, <1>9 DEF n

\* An item that is no star takes one byte, if it stands for it, and leaves the
\* rest to the next one.
LEMMA ItemAnswer ==
    ASSUME NEW p, NEW its, NEW tl, NEW off, Written(p, its, tl, off),
           NEW t \in Seq(Bytes), NEW g, Sound(g, p, t),
           NEW i \in 1 .. Len(its), ~its[i].star, NEW ti \in 1 .. (Len(t) + 1)
    PROVE  g[off[i]][ti] = IF ti <= Len(t) /\ t[ti] \in its[i].bytes
                           THEN g[off[i + 1]][ti + 1] ELSE "no"
<1> DEFINE s  == its[i].spell
           n  == Len(s)
           pi == off[i]
           m  == Len(t)
           took == ti <= m /\ t[ti] \in its[i].bytes
<1>1. /\ pi \in 1 .. Len(p) /\ off[i + 1] = pi + n /\ n \in Nat \ {0}
      /\ pi + n \in 1 .. (Len(p) + 1)
      /\ \A j \in 1 .. n : p[pi + j - 1] = s[j]
  <2>1. StandsAt(p, its[i].spell, off[i], off[i + 1])
    BY PlacesGrow
  <2> QED BY <2>1 DEF StandsAt
<1>2. IsItem(its[i]) /\ s \in Seq(Nat) /\ Len(p) \in Nat /\ m \in Nat
  BY WrittenParts
<1>3. g[pi][ti] = MatchFrom(p, t, g, pi, ti)
  <2>1. pi \in 1 .. (Len(p) + 1)
    BY <1>1, <1>2
  <2> HIDE DEF pi
  <2> QED BY <2>1 DEF Sound
<1>4. ti <= m => t[ti] \in Bytes
  OBVIOUS
<1>5. p[pi] = s[1]
  <2>1. 1 \in 1 .. n /\ pi + 1 - 1 = pi
    BY <1>1
  <2> QED BY <1>1, <2>1
<1>6. s[1] # Star
  BY <1>2 DEF IsItem
<1>7. SUFFICES MatchFrom(p, t, g, pi, ti) = IF took THEN g[pi + n][ti + 1] ELSE "no"
  BY <1>1, <1>3
<1> HIDE DEF pi, n, s
<1>8. CASE s[1] = Quest
  <2>1. n = 1 /\ StandsFor(its[i], Bytes)
    BY <1>2, <1>8 DEF IsItem, s, n
  <2>2. took <=> ti <= m
    BY <1>4, <2>1 DEF StandsFor
  <2> HIDE DEF took
  <2> QED BY <1>1, <1>2, <1>5, <1>8, <2>1, <2>2 DEF MatchFrom, Star, Quest, Open, Escape
<1>9. CASE s[1] = Escape
  <2>1. n = 2 /\ StandsFor(its[i], {s[2]})
    BY <1>2, <1>9 DEF IsItem, s, n
  <2>2. p[pi + 1] = s[2] /\ pi # Len(p)
    <3>1. 2 \in 1 .. n /\ pi + 2 - 1 = pi + 1
      BY <1>1, <2>1
    <3> QED BY <1>1, <1>2, <2>1, <3>1
  <2>3. took <=> ti <= m /\ p[pi + 1] = t[ti]
    BY <1>4, <2>1, <2>2 DEF StandsFor
  <2> HIDE DEF took
  <2> QED BY <1>1, <1>2, <1>5, <1>9, <2>1, <2>2, <2>3 DEF MatchFrom, Star, Quest, Open, Escape
<1>10. CASE s[1] \notin {Star, Quest, Escape, Open}
  <2>1. n = 1 /\ StandsFor(its[i], {s[1]})
    BY <1>2, <1>10 DEF IsItem, s, n
  <2>2. took <=> ti <= m /\ p[pi] = t[ti]
    BY <1>4, <1>5, <2>1 DEF StandsFor
  <2> HIDE DEF took
  <2> QED BY <1>1, <1>2, <1>5, <1>10, <2>1, <2>2 DEF MatchFrom
<1>11. CASE s[1] = Open
  <2> DEFINE not == s[2] = Caret
             end == ClassEnd(p, pi)
             class == Listed(p, IF not THEN pi + 2 ELSE pi + 1, end)
  <2>1. /\ n > 1 /\ s[n] = Close /\ \A j \in 2 .. (n - 1) : s[j] # Close
        /\ IF not THEN StandsFor(its[i], Bytes \ Listed(s, 3, n))
           ELSE StandsFor(its[i], Listed(s, 2, n))
    BY <1>2, <1>11 DEF IsItem, s, n
  <2>2. /\ end = pi + n - 1
        /\ Listed(p, pi + 1, end) = Listed(s, 2, n)
        /\ not => Listed(p, pi + 2, end) = Listed(s, 3, n)
    <3>1. StandsAt(p, s, pi, off[i + 1])
      BY PlacesGrow DEF s, pi
    <3>2. Len(s) > 1 /\ s[Len(s)] = Close /\ \A j \in 2 .. (Len(s) - 1) : s[j] # Close
      BY <2>1 DEF n
    <3>3. /\ end = off[i + 1] - 1
          /\ Listed(p, pi + 1, off[i + 1] - 1) = Listed(s, 2, Len(s))
          /\ s[2] = Caret => Listed(p, pi + 2, off[i + 1] - 1) = Listed(s, 3, Len(s))
      BY <1>2, <3>1, <3>2, ClassInPlace
    <3> HIDE DEF end
    <3> QED BY <1>1, <3>3 DEF n
  <2>3. p[pi + 1] = s[2]
    <3>1. 2 \in 1 .. n /\ pi + 2 - 1 = pi + 1
      BY <1>1, <2>1
    <3> QED BY <1>1, <3>1
  <2>4. class = IF not THEN Listed(s, 3, n) ELSE Listed(s, 2, n)
    BY <2>2
  <2>5. took <=> ti <= m /\ ((t[ti] \in class) # not)
    <3> DEFINE in == t[ti] \in class
               is == t[ti] \in its[i].bytes
    <3>1. CASE not
      <4>1. ti <= m => (is <=> ~in)
        BY <1>4, <2>1, <2>4, <3>1 DEF StandsFor
      <4> HIDE DEF class, not, in, is
      <4>2. (in # not) <=> ~in
        BY <3>1
      <4> QED BY <4>1, <4>2 DEF in, is
    <3>2. CASE ~not
      <4>1. ti <= m => (is <=> in)
        BY <1>4, <2>1, <2>4, <3>2 DEF StandsFor
      <4> HIDE DEF class
      <4>2. (in # not) <=> in
        BY <3>2
      <4> HIDE DEF in, is, not
      <4> QED BY <4>1, <4>2 DEF in, is
    <3> QED BY <3>1, <3>2
  <2>6. end # 0 /\ pi + (end + 1 - pi) = pi + n
    BY <1>1, <2>2
  <2>7. MatchFrom(p, t, g, pi, ti) =
          IF ti <= m /\ (ti <= m /\ ((t[ti] \in class) # not))
          THEN g[pi + (end + 1 - pi)][ti + 1] ELSE "no"
    BY <1>1, <1>2, <1>5, <1>11, <2>3, <2>6 DEF MatchFrom, Star, Quest, Open, Escape
  <2> HIDE DEF took, class, not, end
  <2> QED BY <2>5, <2>6, <2>7
<1> QED BY <1>6, <1>8, <1>9, <1>10, <1>11

\* A star answers for some place of the rest of the name where what is behind it
\* does not fail, and fails when there is none.
StarFollows(g, m, pi, ti) ==
    /\ g[pi][ti] # "no" => \E j \in ti .. (m + 1) : g[pi][ti] = g[pi + 1][j]
    /\ (\E j \in ti .. (m + 1) : g[pi + 1][j] # "no") => g[pi][ti] # "no"

\* That holds in a row of stars as well, of which the code tries the last one only.
LEMMA StarStep ==
    ASSUME NEW p, Len(p) \in Nat, NEW t, Len(t) \in Nat, NEW g, Sound(g, p, t),
           NEW pi \in 1 .. Len(p), p[pi] = Star, NEW ti \in 1 .. (Len(t) + 1)
    PROVE  StarFollows(g, Len(t), pi, ti)
<1> DEFINE n == Len(p)
           m == Len(t)
           rest == AfterStars(p, pi)
           hits(j) == Hits(g[rest], m, j)
<1>1. /\ rest \in (pi + 1) .. (n + 1) /\ (rest > n \/ p[rest] # Star)
      /\ \A i \in pi .. (rest - 1) : p[i] = Star
  BY RestIsLater
<1>2. g[pi][ti] = IF rest > n THEN "yes"
                  ELSE IF hits(ti) = {} THEN "no" ELSE g[rest][First(hits(ti))]
  <2>1. pi \in 1 .. (n + 1) /\ pi <= n
    OBVIOUS
  <2>2. g[pi][ti] = MatchFrom(p, t, g, pi, ti)
    BY <2>1 DEF Sound
  <2> QED BY <2>1, <2>2 DEF MatchFrom, Star, Quest, Open, Escape
<1>3. \A j \in 1 .. (m + 1) : hits(j) = {i \in j .. (m + 1) : g[rest][i] # "no"}
  BY DEF Hits, StarEnds
<1>4. \A j \in 1 .. (m + 1) : hits(j) # {} => First(hits(j)) \in hits(j)
  <2> TAKE j \in 1 .. (m + 1)
  <2>1. hits(j) \in SUBSET Nat
    BY <1>3
  <2> HIDE DEF hits
  <2> QED BY <2>1, FirstIsLeast
<1>5. CASE pi = n
  <2>1. rest = n + 1
    BY <1>1, <1>5
  <2>2. g[n + 1][m + 1] = MatchFrom(p, t, g, n + 1, m + 1)
    BY DEF Sound
  <2>3. g[n + 1][m + 1] = "yes"
    BY <2>2 DEF MatchFrom
  <2>4. g[pi][ti] = "yes"
    BY <1>2, <2>1
  <2> QED BY <1>5, <2>3, <2>4 DEF StarFollows
<1>6. CASE pi # n /\ p[pi + 1] # Star
  <2>1. rest = pi + 1 /\ ~(rest > n)
    <3>1. pi + 1 \notin pi .. (rest - 1)
      BY <1>1, <1>6
    <3> HIDE DEF rest
    <3> QED BY <1>1, <1>6, <3>1
  <2> HIDE DEF rest
  <2>2. CASE hits(ti) = {}
    <3>1. g[pi][ti] = "no"
      BY <1>2, <2>1, <2>2
    <3>2. \A j \in ti .. (m + 1) : g[pi + 1][j] = "no"
      BY <1>3, <2>1, <2>2
    <3> QED BY <3>1, <3>2 DEF StarFollows
  <2>3. CASE hits(ti) # {}
    <3> DEFINE f == First(hits(ti))
    <3>1. f \in ti .. (m + 1) /\ g[rest][f] # "no"
      BY <1>3, <1>4, <2>3
    <3>2. g[pi][ti] = g[rest][f]
      BY <1>2, <2>1, <2>3
    <3> HIDE DEF f
    <3> QED BY <2>1, <3>1, <3>2 DEF StarFollows
  <2> QED BY <2>2, <2>3
<1>7. CASE pi # n /\ p[pi + 1] = Star
  <2>1. pi + 1 \in 1 .. n /\ pi + 1 <= n /\ pi + 1 \in 1 .. (n + 1)
    BY <1>7
  <2>2. AfterStars(p, pi + 1) = rest
    <3> DEFINE next == AfterStars(p, pi + 1)
    <3>1. /\ next \in (pi + 2) .. (n + 1) /\ (next > n \/ p[next] # Star)
          /\ \A i \in (pi + 1) .. (next - 1) : p[i] = Star
      BY <1>7, <2>1, RestIsLater
    <3> HIDE DEF next, rest
    <3>2. ~(next < rest)
      <4>1. ASSUME next < rest PROVE next \in pi .. (rest - 1) /\ next <= n
        BY <1>1, <3>1, <4>1
      <4> QED BY <1>1, <3>1, <4>1
    <3>3. ~(rest < next)
      <4>1. ASSUME rest < next PROVE rest \in (pi + 1) .. (next - 1) /\ rest <= n
        BY <1>1, <3>1, <4>1
      <4> QED BY <1>1, <3>1, <4>1
    <3>4. next = rest
      BY <1>1, <3>1, <3>2, <3>3
    <3> QED BY <3>4 DEF next
  <2>3. ASSUME NEW j \in 1 .. (m + 1)
        PROVE  g[pi + 1][j] = IF rest > n THEN "yes"
                              ELSE IF hits(j) = {} THEN "no" ELSE g[rest][First(hits(j))]
    <3>1. g[pi + 1][j] = MatchFrom(p, t, g, pi + 1, j)
      BY <2>1 DEF Sound
    <3>2. MatchFrom(p, t, g, pi + 1, j) =
             LET r == AfterStars(p, pi + 1)
                 h == Hits(g[r], Len(t), j)
             IN  IF r > Len(p) THEN "yes" ELSE IF h = {} THEN "no" ELSE g[r][First(h)]
      BY <1>7, <2>1 DEF MatchFrom, Star, Quest, Open, Escape
    <3> HIDE DEF rest
    <3> QED BY <2>2, <3>1, <3>2
  <2>4. g[pi + 1][ti] = g[pi][ti]
    BY <1>2, <2>3
  <2>5. ASSUME NEW j \in ti .. (m + 1), g[pi + 1][j] # "no" PROVE g[pi][ti] # "no"
    <3>1. j \in 1 .. (m + 1)
      OBVIOUS
    <3> HIDE DEF rest, hits
    <3>2. CASE rest > n
      BY <1>2, <3>2
    <3>3. CASE ~(rest > n)
      <4>1. hits(j) # {}
        BY <2>3, <2>5, <3>1, <3>3
      <4>2. hits(j) \subseteq hits(ti)
        BY <1>3, <3>1
      <4>3. hits(ti) # {} /\ First(hits(ti)) \in hits(ti)
        BY <1>4, <4>1, <4>2
      <4>4. g[rest][First(hits(ti))] # "no"
        BY <1>3, <4>3
      <4> QED BY <1>2, <3>3, <4>3, <4>4
    <3> QED BY <3>2, <3>3
  <2>6. ti \in ti .. (m + 1)
    OBVIOUS
  <2> QED BY <2>4, <2>5, <2>6 DEF StarFollows
<1> QED BY <1>5, <1>6, <1>7

\* Behind the last item: a pattern in good form matches the empty rest of the
\* name, and a malformed one is refused.
LEMMA EndAnswer ==
    ASSUME NEW p, NEW its, NEW tl, NEW off, Written(p, its, tl, off),
           NEW t \in Seq(Bytes), NEW g, Sound(g, p, t), NEW ti \in 1 .. (Len(t) + 1)
    PROVE  g[off[Len(its) + 1]][ti] =
             IF tl = << >> THEN IF ti > Len(t) THEN "yes" ELSE "no" ELSE "bad"
<1> DEFINE pi == off[Len(its) + 1]
           n  == Len(p)
<1>1. Len(its) \in Nat /\ n \in Nat /\ tl \in Seq(Nat) /\ pi \in Nat \ {0}
  <2>1. /\ Len(its) \in Nat /\ n \in Nat /\ tl \in Seq(Nat)
        /\ \A i \in 1 .. (Len(its) + 1) : off[i] \in Nat \ {0}
    BY WrittenParts
  <2> QED BY <2>1
<1>2. n = pi - 1 + Len(tl) /\ \A j \in 1 .. Len(tl) : p[pi + j - 1] = tl[j]
  BY DEF Written, Placed
<1>3. Len(tl) \in Nat
  BY <1>1
<1>4. pi \in 1 .. (n + 1)
  BY <1>1, <1>2, <1>3
<1>5. g[pi][ti] = MatchFrom(p, t, g, pi, ti)
  <2> HIDE DEF pi
  <2> QED BY <1>4 DEF Sound
<1> HIDE DEF pi, n
<1>6. CASE tl = << >>
  <2>1. pi > n
    BY <1>1, <1>2, <1>6
  <2>2. MatchFrom(p, t, g, pi, ti) = IF ti > Len(t) THEN "yes" ELSE "no"
    BY <1>1, <2>1 DEF MatchFrom, n
  <2> QED BY <1>5, <1>6, <2>2 DEF pi
<1>7. CASE tl # << >>
  <2>1. IsTail(tl)
    BY <1>7, GlobAssumption DEF Written
  <2>2. Len(tl) > 0 /\ pi <= n
    BY <1>1, <1>2, <1>3, <1>7
  <2>3. p[pi] = tl[1]
    <3>1. 1 \in 1 .. Len(tl) /\ pi + 1 - 1 = pi
      BY <1>1, <1>3, <2>2
    <3> QED BY <1>2, <3>1
  <2>4. CASE tl = <<Escape>>
    <3>1. pi = n /\ p[pi] = Escape
      BY <1>1, <1>2, <2>3, <2>4
    <3>2. MatchFrom(p, t, g, pi, ti) = "bad"
      BY <1>1, <3>1 DEF MatchFrom, Star, Quest, Open, Escape, n
    <3> QED BY <1>5, <1>7, <3>2 DEF pi
  <2>5. CASE tl[1] = Open /\ \A j \in 2 .. Len(tl) : tl[j] # Close
    <3>1. ASSUME NEW k \in (pi + 1) .. n PROVE p[k] # Close
      <4>1. k - pi + 1 \in 2 .. Len(tl) /\ pi + (k - pi + 1) - 1 = k
            /\ k - pi + 1 \in 1 .. Len(tl)
        BY <1>1, <1>2, <1>3
      <4>2. p[pi + (k - pi + 1) - 1] = tl[k - pi + 1]
        BY <1>2, <4>1
      <4> QED BY <2>5, <4>1, <4>2
    <3>2. ClassEnd(p, pi) = 0
      BY <3>1 DEF ClassEnd, n
    <3>3. MatchFrom(p, t, g, pi, ti) = "bad"
      BY <1>1, <2>2, <2>3, <2>5, <3>2 DEF MatchFrom, Star, Quest, Open, Escape, n
    <3> QED BY <1>5, <1>7, <3>3 DEF pi
  <2> QED BY <2>1, <2>4, <2>5 DEF IsTail
<1> QED BY <1>6, <1>7

\* What a pattern answers when it does not fail.
Verdict(tl) == IF tl = << >> THEN "yes" ELSE "bad"

\* A star stands in one byte, and the next item behind it.
LEMMA StarInPlace ==
    ASSUME NEW p, NEW its, NEW tl, NEW off, Written(p, its, tl, off),
           NEW t \in Seq(Bytes), NEW g, Sound(g, p, t),
           NEW i \in 1 .. Len(its), its[i].star, NEW ti \in 1 .. (Len(t) + 1)
    PROVE  off[i + 1] = off[i] + 1 /\ StarFollows(g, Len(t), off[i], ti)
<1>1. StandsAt(p, its[i].spell, off[i], off[i + 1])
  BY PlacesGrow
<1>2. IsItem(its[i]) /\ Len(p) \in Nat
  BY WrittenParts
<1>3. Len(its[i].spell) = 1 /\ its[i].spell[1] = Star
  BY <1>2 DEF IsItem
<1>4. off[i] \in 1 .. Len(p) /\ off[i + 1] = off[i] + 1 /\ p[off[i]] = Star
  <2>1. off[i] \in 1 .. Len(p) /\ off[i + 1] = off[i] + 1 /\ p[off[i] + 1 - 1] = Star
    BY <1>1, <1>3 DEF StandsAt
  <2>2. off[i] + 1 - 1 = off[i]
    BY <1>2, <2>1
  <2> QED BY <2>1, <2>2
<1>5. Len(t) \in Nat
  OBVIOUS
<1> QED BY <1>2, <1>4, <1>5, StarStep

\* The matcher fails or comes to the verdict of the tail.
LEMMA OneVerdict ==
    ASSUME NEW p, NEW its, NEW tl, NEW off, Written(p, its, tl, off),
           NEW t \in Seq(Bytes), NEW g, Sound(g, p, t),
           NEW i \in 1 .. (Len(its) + 1), NEW ti \in 1 .. (Len(t) + 1)
    PROVE  g[off[i]][ti] \in {"no", Verdict(tl)}
<1> DEFINE N == Len(its)
           m == Len(t)
           bad(k) == \E j \in 1 .. (m + 1) : g[off[N + 1 - k]][j] \notin {"no", Verdict(tl)}
           S == {k \in 0 .. N : bad(k)}
<1>1. N \in Nat /\ m \in Nat
  BY WrittenParts
<1>2. ASSUME S # {} PROVE FALSE
  <2>1. S \in SUBSET Nat
    OBVIOUS
  <2>2. PICK k \in S : \A j \in S : k <= j
    BY <1>2, <2>1, LeastElement
  <2>3. k \in 0 .. N /\ bad(k)
    OBVIOUS
  <2>4. PICK j \in 1 .. (m + 1) : g[off[N + 1 - k]][j] \notin {"no", Verdict(tl)}
    BY <2>3
  <2>5. CASE k = 0
    <3>1. N + 1 - k = N + 1
      BY <1>1, <2>5
    <3>2. g[off[N + 1]][j] \in {"no", Verdict(tl)}
      BY EndAnswer DEF Verdict
    <3> QED BY <2>4, <3>1, <3>2
  <2>6. CASE k # 0
    <3> DEFINE h == N + 1 - k
    <3>1. h \in 1 .. N /\ h + 1 = N + 1 - (k - 1) /\ k - 1 \in 0 .. N /\ ~(k <= k - 1)
      BY <1>1, <2>3, <2>6
    <3>2. ~bad(k - 1)
      BY <2>2, <3>1
    <3>3. \A l \in 1 .. (m + 1) : g[off[h + 1]][l] \in {"no", Verdict(tl)}
      BY <3>1, <3>2
    <3>4. g[off[h]][j] \notin {"no", Verdict(tl)}
      BY <2>4
    <3> HIDE DEF h, bad, S
    <3>5. CASE its[h].star
      <4>1. off[h + 1] = off[h] + 1 /\ StarFollows(g, m, off[h], j)
        BY <3>1, <3>5, StarInPlace
      <4>2. PICK l \in j .. (m + 1) : g[off[h]][j] = g[off[h + 1]][l]
        BY <3>4, <4>1 DEF StarFollows
      <4>3. l \in 1 .. (m + 1)
        BY <1>1
      <4> QED BY <3>3, <3>4, <4>2, <4>3
    <3>6. CASE ~its[h].star
      <4>1. g[off[h]][j] = IF j <= m /\ t[j] \in its[h].bytes THEN g[off[h + 1]][j + 1] ELSE "no"
        BY <3>1, <3>6, ItemAnswer
      <4>2. j <= m /\ j + 1 \in 1 .. (m + 1) /\ g[off[h]][j] = g[off[h + 1]][j + 1]
        BY <1>1, <3>4, <4>1
      <4> QED BY <3>3, <3>4, <4>2
    <3> QED BY <3>5, <3>6
  <2> QED BY <2>5, <2>6
<1>3. N + 1 - i \in 0 .. N /\ N + 1 - (N + 1 - i) = i
  BY <1>1
<1>4. ~bad(N + 1 - i)
  BY <1>2, <1>3
<1> QED BY <1>3, <1>4

(***************************************************************************)
(* The reference.                                                          *)
(***************************************************************************)
\* The lengths that the first i items reach, given those of the items before.
ReachAt(f, its, name, i) ==
    IF i = 0 THEN {0}
    ELSE IF its[i].star
    THEN {l \in 0 .. Len(name) : \E k \in f[i - 1] : k <= l}
    ELSE {l \in 1 .. Len(name) : l - 1 \in f[i - 1] /\ name[l] \in its[i].bytes}

\* The lengths that up to n items reach.
Reach(f, its, name, n) == f = [i \in 0 .. n |-> ReachAt(f, its, name, i)]

\* There is such a function for every number of items.
LEMMA ReachExists ==
    ASSUME NEW its, NEW name, NEW n \in Nat
    PROVE  \E f : Reach(f, its, name, n)
<1> DEFINE S        == {k \in Nat : ~ \E f : Reach(f, its, name, k)}
           at(g, i) == ReachAt(g, its, name, i)
<1> SUFFICES ASSUME S # {} PROVE FALSE
  OBVIOUS
<1>1. PICK k \in S : \A j \in S : k <= j
  BY LeastElement
<1>2. k \in Nat /\ ~ \E f : Reach(f, its, name, k)
  OBVIOUS
<1>3. \A g, h, i : (i # 0 => g[i - 1] = h[i - 1]) => at(g, i) = at(h, i)
  BY DEF ReachAt
<1>4. \A j, f : Reach(f, its, name, j) <=> f = [i \in 0 .. j |-> at(f, i)]
  BY DEF Reach
<1> HIDE DEF at
<1>5. CASE k = 0
  <2> DEFINE f == [i \in 0 .. k |-> at(its, i)]
  <2>1. \A i \in 0 .. k : at(its, i) = at(f, i)
    <3> HIDE DEF f
    <3> QED BY <1>3, <1>5
  <2>2. f = [i \in 0 .. k |-> at(f, i)]
    BY <2>1
  <2> QED BY <1>2, <1>4, <2>2
<1>6. CASE k # 0
  <2>1. k - 1 \in Nat /\ ~(k <= k - 1)
    BY <1>2, <1>6
  <2>2. \E g : Reach(g, its, name, k - 1)
    BY <1>1, <2>1
  <2>3. PICK g : g = [i \in 0 .. (k - 1) |-> at(g, i)]
    BY <1>4, <2>2
  <2> DEFINE f == [i \in 0 .. k |-> at(g, i)]
  <2>4. ASSUME NEW i \in 0 .. (k - 1) PROVE f[i] = g[i]
    <3>1. g[i] = at(g, i)
      BY <2>3
    <3>2. i \in 0 .. k
      BY <1>2
    <3> QED BY <3>1, <3>2
  <2>5. ASSUME NEW i \in 0 .. k PROVE at(g, i) = at(f, i)
    <3>1. i # 0 => i - 1 \in 0 .. (k - 1)
      BY <1>2
    <3>2. i # 0 => f[i - 1] = g[i - 1]
      BY <2>4, <3>1
    <3> HIDE DEF f
    <3> QED BY <1>3, <3>2
  <2>6. f = [i \in 0 .. k |-> at(f, i)]
    BY <2>5
  <2> QED BY <1>2, <1>4, <2>6
<1> QED BY <1>5, <1>6

\* The lengths reached item by item, as lengths of beginnings of the name.
Reaches(a, its, name) ==
    /\ \A i \in 0 .. Len(its) : a[i] \subseteq 0 .. Len(name)
    /\ \A i \in 0 .. Len(its) : a[i] = ReachAt(a, its, name, i)

\* Reached is the last of them.
LEMMA ReachedIsLast ==
    ASSUME NEW name, Len(name) \in Nat, Len(items) \in Nat
    PROVE  \E a : Reaches(a, items, name) /\ Reached(name) = a[Len(items)]
<1> DEFINE N    == Len(items)
           F(h) == [i \in 0 .. N |-> ReachAt(h, items, name, i)]
           a    == CHOOSE h : h = F(h)
<1>1. PICK h : h = F(h)
  BY ReachExists DEF Reach
<1>2. a = F(a)
  <2> HIDE DEF F
  <2> QED BY <1>1
<1>3. Reached(name) = a[N]
  BY DEF Reached, ReachAt
<1> HIDE DEF a
<1>4. \A i \in 0 .. N : a[i] = ReachAt(a, items, name, i)
  BY <1>2
<1>5. ASSUME NEW i \in 0 .. N PROVE a[i] \subseteq 0 .. Len(name)
  <2>1. a[i] = ReachAt(a, items, name, i)
    BY <1>4
  <2>2. CASE i = 0
    BY <2>1, <2>2 DEF ReachAt
  <2>3. CASE i # 0 /\ items[i].star
    BY <2>1, <2>3 DEF ReachAt
  <2>4. CASE i # 0 /\ ~items[i].star
    BY <2>1, <2>4 DEF ReachAt
  <2> QED BY <2>2, <2>3, <2>4
<1> QED BY <1>3, <1>4, <1>5 DEF Reaches

\* Some way to match the first i items leads to a place where the rest of the
\* pattern does not fail.
Alive(g, a, off, i) == \E l \in a[i] : g[off[i + 1]][l + 1] # "no"

\* A way to match goes on with the next item, and comes from the one before.
LEMMA WaysGoOn ==
    ASSUME NEW p, NEW its, NEW tl, NEW off, Written(p, its, tl, off),
           NEW t \in Seq(Bytes), NEW g, Sound(g, p, t), NEW a, Reaches(a, its, t),
           NEW i \in 1 .. Len(its)
    PROVE  Alive(g, a, off, i - 1) <=> Alive(g, a, off, i)
<1> DEFINE m == Len(t)
<1>1. Len(its) \in Nat /\ m \in Nat
  BY WrittenParts
<1>2. /\ i \in 0 .. Len(its) /\ i - 1 \in 0 .. Len(its) /\ i # 0 /\ (i - 1) + 1 = i
      /\ \A l \in 0 .. m : l + 1 \in 1 .. (m + 1) /\ (l + 1) - 1 = l
  BY <1>1
<1>3. a[i] = ReachAt(a, its, t, i) /\ a[i] \subseteq 0 .. m /\ a[i - 1] \subseteq 0 .. m
  BY <1>2 DEF Reaches
<1>4. CASE its[i].star
  <2>1. a[i] = {l \in 0 .. m : \E k \in a[i - 1] : k <= l}
    BY <1>2, <1>3, <1>4 DEF ReachAt
  <2>2. \A l \in 0 .. m :
           /\ off[i + 1] = off[i] + 1
           /\ g[off[i]][l + 1] # "no" =>
                \E j \in (l + 1) .. (m + 1) : g[off[i]][l + 1] = g[off[i] + 1][j]
           /\ (\E j \in (l + 1) .. (m + 1) : g[off[i] + 1][j] # "no") => g[off[i]][l + 1] # "no"
    BY <1>2, <1>4, StarInPlace DEF StarFollows
  <2>3. ASSUME NEW l \in a[i - 1], g[off[i]][l + 1] # "no" PROVE Alive(g, a, off, i)
    <3>1. l \in 0 .. m
      BY <1>3
    <3>2. PICK j \in (l + 1) .. (m + 1) : g[off[i]][l + 1] = g[off[i + 1]][j]
      BY <2>2, <2>3, <3>1
    <3>3. j - 1 \in 0 .. m /\ l <= j - 1 /\ (j - 1) + 1 = j
      BY <1>1, <3>1
    <3>4. j - 1 \in a[i] /\ g[off[i + 1]][(j - 1) + 1] # "no"
      BY <2>1, <2>3, <3>2, <3>3
    <3> QED BY <3>4 DEF Alive
  <2>4. ASSUME NEW l \in a[i], g[off[i + 1]][l + 1] # "no" PROVE Alive(g, a, off, i - 1)
    <3>1. PICK k \in a[i - 1] : k <= l
      BY <2>1
    <3>2. k \in 0 .. m /\ l \in 0 .. m
      BY <1>3
    <3>3. l + 1 \in (k + 1) .. (m + 1)
      BY <1>1, <3>1, <3>2
    <3>4. g[off[i]][k + 1] # "no"
      BY <2>2, <2>4, <3>2, <3>3
    <3> QED BY <1>2, <3>4 DEF Alive
  <2> QED BY <1>2, <2>3, <2>4 DEF Alive
<1>5. CASE ~its[i].star
  <2>1. a[i] = {l \in 1 .. m : l - 1 \in a[i - 1] /\ t[l] \in its[i].bytes}
    BY <1>2, <1>3, <1>5 DEF ReachAt
  <2>2. \A l \in 0 .. m :
           g[off[i]][l + 1] = IF l + 1 <= m /\ t[l + 1] \in its[i].bytes
                              THEN g[off[i + 1]][(l + 1) + 1] ELSE "no"
    BY <1>2, <1>5, ItemAnswer
  <2>3. ASSUME NEW l \in a[i - 1], g[off[i]][l + 1] # "no" PROVE Alive(g, a, off, i)
    <3>1. l \in 0 .. m
      BY <1>3
    <3>2. /\ l + 1 <= m /\ t[l + 1] \in its[i].bytes
          /\ g[off[i]][l + 1] = g[off[i + 1]][(l + 1) + 1]
      BY <2>2, <2>3, <3>1
    <3>3. l + 1 \in 1 .. m /\ (l + 1) - 1 = l
      BY <1>1, <3>1, <3>2
    <3>4. l + 1 \in a[i]
      BY <2>1, <3>2, <3>3
    <3> QED BY <2>3, <3>2, <3>4 DEF Alive
  <2>4. ASSUME NEW l \in a[i], g[off[i + 1]][l + 1] # "no" PROVE Alive(g, a, off, i - 1)
    <3>1. l \in 1 .. m /\ l - 1 \in a[i - 1] /\ t[l] \in its[i].bytes
      BY <2>1
    <3>2. l - 1 \in 0 .. m /\ (l - 1) + 1 = l
      BY <1>1, <3>1
    <3>3. g[off[i]][(l - 1) + 1] # "no"
      BY <1>1, <2>2, <2>4, <3>1, <3>2
    <3> QED BY <1>2, <3>1, <3>3 DEF Alive
  <2> QED BY <1>2, <2>3, <2>4 DEF Alive
<1> QED BY <1>4, <1>5

\* The matcher does not fail from the beginning just when the reference gets to
\* the end of the items, and to the end of the name if the pattern is in good form.
LEMMA BeginsAlive ==
    ASSUME NEW p, NEW its, NEW tl, NEW off, Written(p, its, tl, off),
           NEW t \in Seq(Bytes), NEW g, Sound(g, p, t), NEW a, Reaches(a, its, t)
    PROVE  Alive(g, a, off, 0) <=> Alive(g, a, off, Len(its))
<1> DEFINE N == Len(its)
           S == {i \in 0 .. N : ~(Alive(g, a, off, 0) <=> Alive(g, a, off, i))}
<1>1. N \in Nat
  BY WrittenParts
<1>2. ASSUME S # {} PROVE FALSE
  <2>1. S \in SUBSET Nat
    OBVIOUS
  <2>2. PICK i \in S : \A j \in S : i <= j
    BY <1>2, <2>1, LeastElement
  <2>3. i \in 0 .. N /\ ~(Alive(g, a, off, 0) <=> Alive(g, a, off, i))
    OBVIOUS
  <2>4. i # 0
    BY <2>3
  <2>5. i \in 1 .. N /\ i - 1 \in 0 .. N /\ ~(i <= i - 1)
    BY <1>1, <2>3, <2>4
  <2>6. Alive(g, a, off, 0) <=> Alive(g, a, off, i - 1)
    BY <2>2, <2>5
  <2>7. Alive(g, a, off, i - 1) <=> Alive(g, a, off, i)
    BY <2>5, WaysGoOn
  <2> QED BY <2>3, <2>6, <2>7
<1>3. N \in 0 .. N
  BY <1>1
<1> QED BY <1>2, <1>3

\* What redisGlobMatch answers for a name, in terms of the items: the code's
\* parsing and backtracking against the reference, for every pattern and name.
THEOREM MatchIsReached ==
    ASSUME items \in Seq(Items), tail \in {<< >>} \cup Tails, NEW name \in Seq(Bytes)
    PROVE  redisGlobMatch(Pattern, name) =
             IF tail = << >>
             THEN IF Len(name) \in Reached(name) THEN "yes" ELSE "no"
             ELSE IF Reached(name) # {} THEN "bad" ELSE "no"
<1> DEFINE p == Pattern
           N == Len(items)
           m == Len(name)
           R == Reached(name)
<1>1. PICK off : Placed(p, items, tail, off)
  BY PatternPlaced
<1>2. Written(p, items, tail, off)
  BY <1>1 DEF Written
<1> HIDE DEF p
<1>3. N \in Nat /\ Len(p) \in Nat /\ m \in Nat
  BY <1>2, WrittenParts
<1>4. PICK g : redisGlobMatch(p, name) = g[1][1] /\ Sound(g, p, name)
  <2>1. \E g : /\ redisGlobMatch(p, name) = g[1][1]
               /\ \A pi \in 1 .. (Len(p) + 1), ti \in 1 .. (m + 1) :
                    g[pi][ti] = MatchFrom(p, name, g, pi, ti)
    BY <1>3, MatchIsAnswer
  <2> QED BY <2>1 DEF Sound
<1>5. PICK a : Reaches(a, items, name) /\ R = a[N]
  BY <1>3, ReachedIsLast
<1>6. off[1] = 1
  BY <1>1 DEF Placed
<1>7. a[0] = {0} /\ a[N] \subseteq 0 .. m
  <2>1. 0 \in 0 .. N /\ N \in 0 .. N
    BY <1>3
  <2> QED BY <1>5, <2>1 DEF Reaches, ReachAt
<1> HIDE DEF R, N, m
<1>8. Alive(g, a, off, 0) <=> g[1][1] # "no"
  <2>1. 0 + 1 = 1
    OBVIOUS
  <2> QED BY <1>6, <1>7, <2>1 DEF Alive
<1>9. Alive(g, a, off, 0) <=> Alive(g, a, off, N)
  BY <1>2, <1>4, <1>5, BeginsAlive DEF N
<1>10. g[1][1] \in {"no", Verdict(tail)}
  <2>1. 1 \in 1 .. (N + 1) /\ 1 \in 1 .. (m + 1)
    BY <1>3
  <2>2. g[off[1]][1] \in {"no", Verdict(tail)}
    BY <1>2, <1>4, <2>1, OneVerdict DEF N, m
  <2> QED BY <1>6, <2>2
<1>11. \A l \in a[N] : g[off[N + 1]][l + 1] =
          IF tail = << >> THEN IF l + 1 > m THEN "yes" ELSE "no" ELSE "bad"
  <2> TAKE l \in a[N]
  <2>1. l + 1 \in 1 .. (m + 1)
    BY <1>3, <1>7
  <2> QED BY <1>2, <1>4, <2>1, EndAnswer DEF N, m
<1>12. CASE tail = << >>
  <2>1. \A l \in a[N] : l + 1 > m <=> l = m
    BY <1>3, <1>7
  <2>2. Alive(g, a, off, N) <=> m \in a[N]
    BY <1>11, <1>12, <2>1 DEF Alive
  <2>3. g[1][1] = IF m \in R THEN "yes" ELSE "no"
    BY <1>5, <1>8, <1>9, <1>10, <1>12, <2>2 DEF Verdict
  <2> QED BY <1>4, <1>12, <2>3 DEF p, R, m
<1>13. CASE tail # << >>
  <2>1. Alive(g, a, off, N) <=> a[N] # {}
    BY <1>11, <1>13 DEF Alive
  <2>2. g[1][1] = IF R # {} THEN "bad" ELSE "no"
    BY <1>5, <1>8, <1>9, <1>10, <1>13, <2>1 DEF Verdict
  <2> QED BY <1>4, <1>13, <2>2 DEF p, R
<1> QED BY <1>12, <1>13

(***************************************************************************)
(* KEYS.                                                                   *)
(***************************************************************************)
\* The state of a call: a pattern of items, and a place in the snapshot.
Calling == /\ stored \in Databases /\ items \in Seq(Items)
           /\ tail \in {<< >>} \cup Tails
           /\ pos \in 0 .. (Len(stored) + 1)
           /\ answer \in {"none", "keys", "error"}

GlobInv == Calling /\ KeysAreExact /\ RefusedWhenReached

\* A snapshot is a sequence of names.
LEMMA StoredNames ==
    ASSUME stored \in Databases
    PROVE  /\ Len(stored) \in Nat /\ DOMAIN stored = 1 .. Len(stored)
           /\ \A i \in 1 .. Len(stored) : stored[i] \in Seq(Bytes)
<1>1. stored \in Seq(Seq(Bytes))
  BY GlobAssumption
<1> QED BY <1>1

\* A pattern has at most MaxItems items, one behind the other.
LEMMA BoundedIsSeq ==
    ASSUME NEW s \in BoundedSeq(Items, MaxItems)
    PROVE  s \in Seq(Items)
<1>1. PICK n \in 0 .. MaxItems : s \in [1 .. n -> Items]
  BY DEF BoundedSeq, SeqOf
<1>2. n \in Nat
  BY GlobAssumption
<1> QED BY <1>1, <1>2

\* Before the iterator starts and while it stands, nothing new is visited.
LEMMA NothingVisited ==
    ASSUME pos \in {0, 1}, stored \in Databases
    PROVE  Visited = {}
BY StoredNames DEF Visited

\* A fresh call, or none, has found nothing and refused nothing.
LEMMA FreshIsExact ==
    ASSUME pos \in {0, 1}, stored \in Databases, found = {}, answer = "none"
    PROVE  KeysAreExact /\ RefusedWhenReached
BY NothingVisited DEF KeysAreExact, RefusedWhenReached

\* KEYS starts with the invariant.
LEMMA GlobInitInv == Init => GlobInv
<1> SUFFICES ASSUME Init PROVE GlobInv
  OBVIOUS
<1>1. KeysAreExact /\ RefusedWhenReached
  BY FreshIsExact DEF Init
<1>2. Calling
  BY StoredNames DEF Init, Calling
<1> QED BY <1>1, <1>2 DEF GlobInv

\* Every step keeps it.
LEMMA GlobNextInv == GlobInv /\ [Next]_vars => GlobInv'
<1> SUFFICES ASSUME GlobInv, [Next]_vars PROVE GlobInv'
  OBVIOUS
<1>0. /\ stored \in Databases /\ items \in Seq(Items) /\ tail \in {<< >>} \cup Tails
      /\ pos \in 0 .. (Len(stored) + 1) /\ answer \in {"none", "keys", "error"}
      /\ KeysAreExact /\ RefusedWhenReached
  BY DEF GlobInv, Calling
<1>1. /\ Len(stored) \in Nat /\ DOMAIN stored = 1 .. Len(stored)
      /\ \A i \in 1 .. Len(stored) : stored[i] \in Seq(Bytes)
  BY <1>0, StoredNames
<1>2. CASE Call
  <2>1. (KeysAreExact /\ RefusedWhenReached)'
    <3>1. (pos \in {0, 1} /\ stored \in Databases /\ found = {} /\ answer = "none")'
      BY <1>0, <1>2 DEF Call
    <3> QED BY <3>1, FreshIsExact, StoredNames DEF KeysAreExact, RefusedWhenReached, Visited
  <2>2. items' \in Seq(Items)
    BY <1>2, BoundedIsSeq DEF Call
  <2> QED BY <1>0, <1>1, <1>2, <2>1, <2>2 DEF Call, GlobInv, Calling
<1>3. CASE Visit
  <2> DEFINE name == stored[pos]
             r    == redisGlobMatch(Pattern, name)
  <2>1. pos \in 1 .. Len(stored) /\ name \in Seq(Bytes) /\ answer = "none"
    BY <1>1, <1>3 DEF Visit
  <2>2. r = IF tail = << >> THEN IF Len(name) \in Reached(name) THEN "yes" ELSE "no"
            ELSE IF Reached(name) # {} THEN "bad" ELSE "no"
    BY <1>0, <2>1, MatchIsReached
  <2>3. /\ found' = IF r = "yes" THEN found \cup {name} ELSE found
        /\ answer' = IF r = "bad" THEN "error" ELSE "none"
        /\ pos' = pos + 1 /\ UNCHANGED <<stored, items, tail>>
    BY <1>3 DEF Visit
  <2>4. Visited' = Visited \cup {name}
    <3>1. {j \in DOMAIN stored : j < pos + 1} = {j \in DOMAIN stored : j < pos} \cup {pos}
      BY <1>1, <2>1
    <3> QED BY <2>3, <3>1 DEF Visited
  <2>5. \A x : Reached(x)' = Reached(x)
    BY <2>3 DEF Reached
  <2> HIDE DEF name, r
  <2>6. KeysAreExact'
    <3>1. found = {x \in Visited : tail = << >> /\ Len(x) \in Reached(x)}
      BY <1>0 DEF KeysAreExact
    <3>2. r = "yes" <=> tail = << >> /\ Len(name) \in Reached(name)
      BY <2>2
    <3>3. found' = {x \in Visited' : tail = << >> /\ Len(x) \in Reached(x)}
      BY <2>3, <2>4, <3>1, <3>2
    <3> QED BY <2>3, <2>5, <3>3 DEF KeysAreExact
  <2>7. RefusedWhenReached'
    <3>1. ~(tail # << >> /\ \E x \in Visited : Reached(x) # {})
      BY <1>0, <2>1 DEF RefusedWhenReached
    <3>2. answer' = "error" <=> tail # << >> /\ Reached(name) # {}
      BY <2>2, <2>3
    <3> QED BY <2>3, <2>4, <2>5, <3>1, <3>2 DEF RefusedWhenReached
  <2>8. Calling'
    BY <1>0, <1>1, <2>1, <2>3 DEF Calling
  <2> QED BY <2>6, <2>7, <2>8 DEF GlobInv
<1>4. CASE Return
  <2>1. \A x : Reached(x)' = Reached(x)
    BY <1>4 DEF Return, Reached
  <2>2. Visited' = Visited
    BY <1>4 DEF Return, Visited
  <2>3. KeysAreExact'
    BY <1>0, <1>4, <2>1, <2>2 DEF Return, KeysAreExact
  <2>4. RefusedWhenReached'
    BY <1>0, <1>4, <2>1, <2>2 DEF Return, RefusedWhenReached
  <2> QED BY <1>0, <1>4, <2>3, <2>4 DEF Return, GlobInv, Calling
<1>5. CASE Done
  <2>1. (KeysAreExact /\ RefusedWhenReached)'
    <3>1. (pos \in {0, 1} /\ stored \in Databases /\ found = {} /\ answer = "none")'
      BY <1>0, <1>5 DEF Done
    <3> QED BY <3>1, FreshIsExact, StoredNames DEF KeysAreExact, RefusedWhenReached, Visited
  <2> QED BY <1>0, <1>1, <1>5, <2>1 DEF Done, GlobInv, Calling
<1>6. CASE UNCHANGED vars
  <2>1. \A x : Reached(x)' = Reached(x)
    BY <1>6 DEF vars, Reached
  <2>2. Visited' = Visited
    BY <1>6 DEF vars, Visited
  <2>3. (KeysAreExact /\ RefusedWhenReached)'
    BY <1>0, <1>6, <2>1, <2>2 DEF vars, KeysAreExact, RefusedWhenReached
  <2> QED BY <1>0, <1>6, <2>3 DEF vars, GlobInv, Calling
<1> QED BY <1>2, <1>3, <1>4, <1>5, <1>6 DEF Next

\* KEYS always keeps it.
LEMMA GlobInvHolds == Spec => []GlobInv
BY GlobInitInv, GlobNextInv, PTL DEF Spec

\* KEYS finds the keys that the items of the pattern match and no others, in
\* every database and for every pattern.
THEOREM KeysAreAlwaysExact == Spec => []KeysAreExact
<1>1. GlobInv => KeysAreExact
  BY DEF GlobInv
<1> QED BY <1>1, GlobInvHolds, PTL

\* A malformed pattern is refused when a key has matched all that precedes the
\* malformed place, and at no other time.
THEOREM RefusalsAreRight == Spec => []RefusedWhenReached
<1>1. GlobInv => RefusedWhenReached
  BY DEF GlobInv
<1> QED BY <1>1, GlobInvHolds, PTL
=============================================================================
