---------------------------- MODULE MCRaftStore -----------------------------
(***************************************************************************)
(* Instances of RaftStore for TLC: data right before the log in the        *)
(* keyspace, the stable keys behind it, and indices that cross the         *)
(* boundary of a byte.                                                     *)
(***************************************************************************)
EXTENDS RaftStore, TLC

CONSTANTS c1, c2

\* The largest value key.
Neighbours == {<<PrefixK, Byte - 1, Byte - 1>>}

CandidateSymmetry == Permutations({c1, c2})
=============================================================================
