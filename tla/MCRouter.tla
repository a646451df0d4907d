------------------------------ MODULE MCRouter ------------------------------
(***************************************************************************)
(* An instance of Router for TLC: every node is a shard of its own.  One   *)
(* goes by the name of its shard, as in the tests of the router, the other *)
(* by its node ID, as main.go has it: it takes its own slots for foreign.  *)
(***************************************************************************)
EXTENDS Router

CONSTANTS n1, n2, c1, s1

OwnShard == [n \in Nodes |-> <<"shard", n>>]
Names    == [OwnShard EXCEPT ![n2] = <<"node", n2>>]
OneSlot  == [c \in Cmds |-> s1]
=============================================================================
