-------------------------------- MODULE Glob --------------------------------
(***************************************************************************)
(* KEYS and its pattern matching (FSM.Keys and redisGlobMatch of           *)
(* store/fsm.go, handleKeys of server/server.go).                          *)
(*                                                                         *)
(* Names and patterns are sequences of bytes.  A client puts a pattern     *)
(* together from items, whose meaning is known, and the code takes it      *)
(* apart again: an item is spelled as bytes and stands for the bytes it    *)
(* matches, or, as a star, for any sequence.                               *)
(***************************************************************************)
EXTENDS Integers, Sequences, SequencesExt

CONSTANTS
    Bytes,         \* the bytes that names are made of
    Items,         \* items: [spell, star, bytes]
    Tails,         \* endings that make a pattern malformed
    Databases,     \* the live keys KEYS may find, in Badger's order
    MaxItems       \* bound on the items of a pattern

VARIABLES
    stored,        \* the keys in the snapshot that KEYS reads
    items, tail,   \* the pattern, as the client put it together
    pos,           \* the iterator, 0 before a call
    found,         \* the keys collected so far
    answer         \* "none", "keys" or "error"

vars == <<stored, items, tail, pos, found, answer>>

Star   == 42
Dash   == 45
Quest  == 63
Open   == 91
Escape == 92
Close  == 93
Caret  == 94

Pattern == FlattenSeq([i \in DOMAIN items |-> items[i].spell]) \o tail

First(S) == CHOOSE i \in S : \A j \in S : i <= j

(***************************************************************************)
(* redisGlobMatch.                                                         *)
(***************************************************************************)
\* The bytes a class lists from start up to end: single ones, and ranges
\* where a dash stands between two of them.
Listed(p, start, end) ==
    LET range(i) == i + 2 < end /\ p[i + 1] = Dash
        reads[i \in start .. (end - 1)] ==
            \/ i = start
            \/ i - 1 >= start /\ reads[i - 1] /\ ~range(i - 1)
            \/ i - 3 >= start /\ reads[i - 3] /\ range(i - 3)
    IN  UNION {IF range(i) THEN p[i] .. p[i + 2] ELSE {p[i]} :
                 i \in {j \in start .. (end - 1) : reads[j]}}

\* Mutant: the loop of a star stops before the empty rest of the name.
StarEndsEarly(m, ti) == ti .. m

\* Mutant: a star takes at least one byte.
StarEndsLate(m, ti) == (ti + 1) .. (m + 1)

\* Where the rest of the pattern behind a star is tried.
StarEnds(m, ti) == ti .. (m + 1)

\* The end of the class that opens at pi, 0 if there is none.
ClassEnd(p, pi) ==
    LET ends == {i \in (pi + 1) .. Len(p) : p[i] = Close}
    IN  IF ends = {} THEN 0 ELSE First(ends)

\* The first place from pi on that holds no star.
AfterStars(p, pi) == First({i \in pi .. (Len(p) + 1) : i > Len(p) \/ p[i] # Star})

\* Where the rest of the pattern does not fail, given its answers.
Hits(answers, m, ti) == {i \in StarEnds(m, ti) : answers[i] # "no"}

\* The rest of the pattern from pi against the rest of the text from ti: "yes",
\* "no", or "bad" for a malformed pattern.  later answers for the positions
\* behind pi.
MatchFrom(p, t, later, pi, ti) ==
    LET n == Len(p)
        m == Len(t)
        on(ok, by) == IF ti <= m /\ ok THEN later[pi + by][ti + 1] ELSE "no"
        rest  == AfterStars(p, pi)
        hits  == Hits(later[rest], m, ti)
        end   == ClassEnd(p, pi)
        not   == p[pi + 1] = Caret
        class == Listed(p, IF not THEN pi + 2 ELSE pi + 1, end)
    IN CASE pi > n -> IF ti > m THEN "yes" ELSE "no"
         [] pi <= n /\ p[pi] = Star ->
              IF rest > n THEN "yes"
              ELSE IF hits = {} THEN "no" ELSE later[rest][First(hits)]
         [] pi <= n /\ p[pi] = Quest -> on(TRUE, 1)
         [] pi <= n /\ p[pi] = Open ->
              IF end = 0 THEN "bad"
              ELSE on(ti <= m /\ (t[ti] \in class) # not, end + 1 - pi)
         [] pi <= n /\ p[pi] = Escape ->
              IF pi = n THEN "bad" ELSE on(ti <= m /\ p[pi + 1] = t[ti], 2)
         [] OTHER -> on(ti <= m /\ p[pi] = t[ti], 1)

redisGlobMatch(p, t) ==
    LET match[pi \in 1 .. (Len(p) + 1)] ==
          [ti \in 1 .. (Len(t) + 1) |-> MatchFrom(p, t, match, pi, ti)]
    IN  match[1][1]

(***************************************************************************)
(* What clients put together.                                              *)
(***************************************************************************)
\* An item stands for these bytes.
StandsFor(it, S) == \A x \in Bytes : x \in it.bytes <=> x \in S

\* A star, a question mark, an escaped byte, a class up to its closing bracket,
\* or a byte that has no other meaning.
IsItem(it) ==
    LET s   == it.spell
        n   == Len(s)
        not == s[2] = Caret
    IN  /\ s \in Seq(Nat) /\ n > 0
        /\ it.star <=> s[1] = Star
        /\ s[1] = Star => n = 1
        /\ s[1] = Quest => n = 1 /\ StandsFor(it, Bytes)
        /\ s[1] = Escape => n = 2 /\ StandsFor(it, {s[2]})
        /\ s[1] = Open =>
             /\ n > 1 /\ s[n] = Close /\ \A j \in 2 .. (n - 1) : s[j] # Close
             /\ IF not THEN StandsFor(it, Bytes \ Listed(s, 3, n))
                ELSE StandsFor(it, Listed(s, 2, n))
        /\ s[1] \notin {Star, Quest, Escape, Open} => n = 1 /\ StandsFor(it, {s[1]})

\* A class that does not end, or an escape of nothing.
IsTail(s) == /\ s \in Seq(Nat) /\ s # << >>
             /\ \/ s = <<Escape>>
                \/ s[1] = Open /\ \A j \in 2 .. Len(s) : s[j] # Close

ASSUME GlobAssumption ==
    /\ \A it \in Items : IsItem(it)
    /\ \A s \in Tails : IsTail(s)
    /\ Databases \subseteq Seq(Seq(Bytes))
    /\ MaxItems \in Nat

(***************************************************************************)
(* FSM.Keys.                                                               *)
(***************************************************************************)
Init == /\ stored \in Databases
        /\ items = << >> /\ tail = << >> /\ pos = 0
        /\ found = {} /\ answer = "none"

\* A client asks for the keys of a pattern.
Call == /\ pos = 0
        /\ items' \in BoundedSeq(Items, MaxItems) /\ tail' \in {<< >>} \cup Tails
        /\ pos' = 1 /\ found' = {} /\ answer' = "none"
        /\ UNCHANGED stored

\* The next key of the iterator; a malformed pattern ends the iteration.
Visit == /\ pos \in DOMAIN stored /\ answer = "none"
         /\ LET r == redisGlobMatch(Pattern, stored[pos])
            IN  /\ found' = IF r = "yes" THEN found \cup {stored[pos]} ELSE found
                /\ answer' = IF r = "bad" THEN "error" ELSE "none"
         /\ pos' = pos + 1
         /\ UNCHANGED <<stored, items, tail>>

Return == /\ answer = "none" /\ pos = Len(stored) + 1
          /\ answer' = "keys"
          /\ UNCHANGED <<stored, items, tail, pos, found>>

\* The client goes on to its next command.
Done == /\ answer # "none"
        /\ items' = << >> /\ tail' = << >> /\ pos' = 0 /\ found' = {}
        /\ answer' = "none" /\ UNCHANGED stored

Next == Call \/ Visit \/ Return \/ Done

Spec == Init /\ [][Next]_vars

(***************************************************************************)
(* Properties.  The reference follows all ways to match at once, on the    *)
(* items the client meant, where the code tries one after the other on the *)
(* bytes it reads.                                                         *)
(***************************************************************************)
\* The lengths of the beginnings of a name that the items match.
Reached(name) ==
    LET after[i \in 0 .. Len(items)] ==
          IF i = 0 THEN {0}
          ELSE IF items[i].star
          THEN {l \in 0 .. Len(name) : \E k \in after[i - 1] : k <= l}
          ELSE {l \in 1 .. Len(name) : /\ l - 1 \in after[i - 1]
                                       /\ name[l] \in items[i].bytes}
    IN  after[Len(items)]

Visited == {stored[i] : i \in {j \in DOMAIN stored : j < pos}}

\* KEYS collects the keys that the items match and no others: the parsing of
\* stars, classes, ranges, negations and escapes, and the backtracking of
\* redisGlobMatch, get the pattern the client meant.
KeysAreExact ==
    found = {name \in Visited : tail = << >> /\ Len(name) \in Reached(name)}

\* A malformed pattern is refused when, and not before, the beginning of some
\* key has matched all that precedes the malformed place; a pattern in good
\* form never is.
RefusedWhenReached ==
    answer = "error" <=> tail # << >> /\ \E name \in Visited : Reached(name) # {}
=============================================================================
