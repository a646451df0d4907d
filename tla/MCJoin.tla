------------------------------- MODULE MCJoin -------------------------------
(***************************************************************************)
(* Instances of Join for TLC: nodes with identities of their own, and the  *)
(* two nodes of the README's example, which leave BADIS_NODE_ID alone.     *)
(***************************************************************************)
EXTENDS Join

CONSTANTS n1, n2, n3, n4

OwnID   == [n \in Nodes |-> n]
OwnAddr == [n \in Nodes |-> <<"127.0.0.1", n>>]

\* main.go falls back to "local-node".
DefaultID == [n \in Nodes |-> "local-node"]
=============================================================================
