------------------------------ MODULE LogStore ------------------------------
(***************************************************************************)
(* What Raft expects of its log and stable store (the interfaces LogStore  *)
(* and StableStore of hashicorp/raft that store/raft_store.go implements): *)
(* the stored entries are extended and cut back at the end and dropped at  *)
(* the head, FirstIndex and LastIndex are their bounds, and a stable key   *)
(* holds the last value set.  The entries are consecutive, with the one    *)
(* exception Raft itself brings about: when the entries that follow a cut  *)
(* are refused, Raft goes on from the end it remembers, and may leave a    *)
(* hole, until a restart reads the log anew.  Neither a crash, nor another *)
(* failed transaction, nor anything else kept in the same database has a   *)
(* place here: to this specification they are steps that change nothing.   *)
(***************************************************************************)
EXTENDS Integers

CONSTANTS
    Indices,       \* the indices of log entries, from 0
    Terms,         \* what an entry holds besides its index
    StableNames,   \* the keys of the stable store
    StableValues,
    Nil            \* no value

VARIABLES
    log,           \* index -> entry
    first, last,   \* what FirstIndex and LastIndex answer
    stable,        \* stable key -> value or Nil
    torn           \* entries were refused after a cut

vars == <<log, first, last, stable, torn>>

Entry(i, t) == [index |-> i, term |-> t]

Init == /\ log = [i \in {} |-> Nil]
        /\ first = 0 /\ last = 0 /\ torn = FALSE
        /\ stable = [s \in StableNames |-> Nil]

\* lo and hi are the least and the greatest index of D, or 0.
Bounds(D, lo, hi) ==
    \/ D = {} /\ lo = 0 /\ hi = 0
    \/ lo \in D /\ hi \in D /\ D \subseteq lo .. hi

\* The log becomes l.
Becomes(l) ==
    /\ UNCHANGED <<stable, torn>>
    /\ log' = l
    /\ Bounds(DOMAIN l, first', last')

\* Entries of one term are stored behind the last one.
Extend == \E lo, hi \in DOMAIN log' \ DOMAIN log, t \in Terms :
    /\ last < lo /\ lo <= hi
    /\ first = 0 \/ lo = last + 1 \/ torn
    /\ Becomes([i \in DOMAIN log \cup (lo .. hi) |->
                   IF i \in DOMAIN log THEN log[i] ELSE Entry(i, t)])

\* A suffix is cut off: what stays is what is not behind the new last index.
CutBack == LET hi == last'
           IN  Becomes([i \in {j \in DOMAIN log : j <= hi} |-> log[i]])

\* A prefix is dropped: what stays is what is not before the new first index.
DropHead == LET lo == first'
            IN  Becomes([i \in {j \in DOMAIN log : j >= lo} |-> log[i]])

SetStable == \E s \in StableNames, v \in StableValues :
    /\ stable' = [stable EXCEPT ![s] = v]
    /\ UNCHANGED <<log, first, last, torn>>

\* The entries behind a cut are refused.
Refuse == torn' = TRUE /\ UNCHANGED <<log, first, last, stable>>

\* A restart succeeds only on a log that is whole from its first index.
Reload == DOMAIN log = 1 .. last /\ torn' = FALSE /\ UNCHANGED <<log, first, last, stable>>

Next == SetStable \/ Extend \/ CutBack \/ DropHead \/ Refuse \/ Reload

Spec == Init /\ [][Next]_vars
=============================================================================
