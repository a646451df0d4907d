------------------------------- MODULE Router -------------------------------
(***************************************************************************)
(* Routing and proxying (router/router.go, config/slotmap.go, handleCmd,   *)
(* getClient and Stop of server/server.go).  A node serves a command if    *)
(* its slot map names it, or nobody, as the owner of the key's slot, and   *)
(* else passes it on to the owner's address and waits.  The receiving node *)
(* does the same with a slot map of its own: nothing tells a proxied       *)
(* command from a client's.                                                *)
(*                                                                         *)
(* main.go never calls SetOwner, so today every map is empty; here the     *)
(* maps change at any time, node by node.  The go-redis client is not      *)
(* modelled beyond this: it gives up an attempt after a while, sends the   *)
(* command again, and reports an error when the attempts or the five       *)
(* seconds of handleCmd's context are used up.  The attempt it gave up     *)
(* goes on at the other node.                                              *)
(***************************************************************************)
EXTENDS Integers, Sequences, FiniteSets

CONSTANTS
    Nodes,         \* nodes, by their address
    Name,          \* Name[n]: localName, which main.go takes from the node ID
    Shard,         \* Shard[n]: the shard ID under which n owns slots
    Cmds,          \* commands, each sent once
    Slot,          \* Slot[c]: KeyToSlot of the first key of c
    None,          \* no owner
    MaxTries,      \* attempts of a go-redis client: four by default
    MaxHops,       \* bound on how often a command is passed on
    MaxMoves,      \* bound on the calls of SetOwner
    MaxStops       \* bound on the nodes that stop

ASSUME RouterAssumption ==
    /\ DOMAIN Name = Nodes /\ DOMAIN Shard = Nodes /\ None \notin Nodes
    /\ MaxTries \in Nat \ {0} /\ MaxHops \in Nat \ {0}

VARIABLES
    owner,         \* owner[n][s]: the slot map of n
    clients,       \* clients[n]: the addresses n has a go-redis client for
    calls,         \* the handlers at work, on all nodes
    answer,        \* what the client of a command was told
    runs,          \* the nodes on which a command was executed, in order
    gaveUp,        \* commands of which some attempt was given up
    up,            \* nodes that run
    moves          \* number of calls of SetOwner

vars == <<owner, clients, calls, answer, runs, gaveUp, up, moves>>

Slots == {Slot[c] : c \in Cmds}

Init == /\ owner = [n \in Nodes |-> [s \in Slots |-> None]]
        /\ clients = [n \in Nodes |-> {}]
        /\ calls = {}
        /\ answer = [c \in Cmds |-> "unsent"]
        /\ runs = [c \in Cmds |-> << >>]
        /\ gaveUp = {}
        /\ up = Nodes
        /\ moves = 0

(***************************************************************************)
(* A handler is known by its command and the path the command took to it,  *)
(* a node and the number of the attempt per hop.                           *)
(***************************************************************************)
Handler(c, path, stage) == [cmd |-> c, path |-> path, stage |-> stage, try |-> 1]

At(h) == h.path[Len(h.path)][1]

\* The handler of an attempt that h made.
Attempt(h, n, i, stage) == Handler(h.cmd, Append(h.path, <<n, i>>), stage)

Answers(h, g) == /\ g.cmd = h.cmd /\ Len(g.path) = Len(h.path) + 1
                 /\ SubSeq(g.path, 1, Len(h.path)) = h.path
                 /\ g.path[Len(g.path)][2] = h.try

Becomes(h, stage) == (calls \ {h}) \cup {[h EXCEPT !.stage = stage]}

\* LocateKey: the shard is compared with the node's name.
isLocal(n, s) == owner[n][s] # None /\ owner[n][s].shard = Name[n]

(***************************************************************************)
(* Actions.                                                                *)
(***************************************************************************)
\* SetOwner on the slot map of n.
SetOwner(n, s, m) ==
    /\ moves < MaxMoves /\ n \in up
    /\ owner' = [owner EXCEPT ![n][s] = [shard |-> Shard[m], ip |-> m]]
    /\ moves' = moves + 1
    /\ UNCHANGED <<clients, calls, answer, runs, gaveUp, up>>

\* A client sends its command to a node.
Send(c, n) ==
    /\ answer[c] = "unsent" /\ n \in up
    /\ answer' = [answer EXCEPT ![c] = "waiting"]
    /\ calls' = calls \cup {Handler(c, <<<<n, 1>>>>, "new")}
    /\ UNCHANGED <<owner, clients, runs, gaveUp, up, moves>>

\* Mutant: no return after the command was served.
RouteAndServe(h) ==
    LET n == At(h)
        o == owner[n][Slot[h.cmd]]
    IN  /\ h \in calls /\ h.stage = "new"
        /\ IF o = None THEN calls' = Becomes(h, "local") /\ UNCHANGED <<clients, runs>>
           ELSE /\ Len(h.path) <= MaxHops
                /\ calls' = Becomes(h, "proxy") \cup {Attempt(h, o.ip, 1, "new")}
                /\ clients' = [clients EXCEPT ![n] = @ \cup {o.ip}]
                /\ runs' = IF isLocal(n, Slot[h.cmd])
                           THEN [runs EXCEPT ![h.cmd] = Append(@, n)] ELSE runs
        /\ UNCHANGED <<owner, answer, gaveUp, up, moves>>

\* handleCmd up to the first attempt, with getClient.  A node that does not
\* run refuses the connection.
Route(h) ==
    LET n == At(h)
        o == owner[n][Slot[h.cmd]]
    IN  /\ h \in calls /\ h.stage = "new"
        /\ IF isLocal(n, Slot[h.cmd]) \/ o = None
           THEN calls' = Becomes(h, "local") /\ UNCHANGED clients
           ELSE /\ Len(h.path) <= MaxHops
                /\ calls' = Becomes(h, "proxy") \cup
                     {Attempt(h, o.ip, 1, IF o.ip \in up THEN "new" ELSE "error")}
                /\ clients' = [clients EXCEPT ![n] = @ \cup {o.ip}]
        /\ UNCHANGED <<owner, answer, runs, gaveUp, up, moves>>

\* The mux runs the command on this node and answers with its result, or with
\* an error: one that leaves no trace, or one of Apply while the entry is
\* committed all the same (a lost leadership).
Execute(h) ==
    /\ h \in calls /\ h.stage = "local"
    /\ \/ /\ runs' = [runs EXCEPT ![h.cmd] = Append(@, At(h))]
          /\ \E s \in {"ok", "error"} : calls' = Becomes(h, s)
       \/ UNCHANGED runs /\ calls' = Becomes(h, "error")
    /\ UNCHANGED <<owner, clients, answer, gaveUp, up, moves>>

\* Mutant: an error falls through to the default answer.
ReturnOK(h, g) ==
    /\ {h, g} \subseteq calls /\ Answers(h, g)
    /\ h.stage = "proxy" /\ g.stage \in {"ok", "error"}
    /\ calls' = Becomes(h, "ok") \ {g}
    /\ UNCHANGED <<owner, clients, answer, runs, gaveUp, up, moves>>

\* The answer of the current attempt is passed on.
Return(h, g) ==
    /\ {h, g} \subseteq calls /\ Answers(h, g)
    /\ h.stage = "proxy" /\ g.stage \in {"ok", "error"}
    /\ calls' = Becomes(h, g.stage) \ {g}
    /\ UNCHANGED <<owner, clients, answer, runs, gaveUp, up, moves>>

\* Mutant: the attempts are not counted.
RetryAlways(h, g) ==
    /\ {h, g} \subseteq calls /\ Answers(h, g) /\ h.stage = "proxy"
    /\ calls' = (calls \ {h}) \cup
         {[h EXCEPT !.try = @ + 1],
          Attempt(h, g.path[Len(g.path)][1], h.try + 1, "new")}
    /\ gaveUp' = gaveUp \cup {h.cmd}
    /\ UNCHANGED <<owner, clients, answer, runs, up, moves>>

\* go-redis: a read times out or a connection fails, and the command is sent
\* again.
Retry(h, g) ==
    LET n == g.path[Len(g.path)][1]
    IN  /\ {h, g} \subseteq calls /\ Answers(h, g)
        /\ h.stage = "proxy" /\ h.try < MaxTries
        /\ calls' = (calls \ {h}) \cup
             {[h EXCEPT !.try = @ + 1],
              Attempt(h, n, h.try + 1, IF n \in up THEN "new" ELSE "error")}
        /\ gaveUp' = gaveUp \cup {h.cmd}
        /\ UNCHANGED <<owner, clients, answer, runs, up, moves>>

\* Mutant: a context without a deadline.
TimeoutNever(h) == h \in calls /\ h.stage = "never" /\ UNCHANGED vars

\* The time is up, or the last attempt timed out.
Timeout(h) ==
    /\ h \in calls /\ h.stage = "proxy"
    /\ calls' = Becomes(h, "error")
    /\ gaveUp' = gaveUp \cup {h.cmd}
    /\ UNCHANGED <<owner, clients, answer, runs, up, moves>>

\* The first node answers its client.
Reply(h) ==
    /\ h \in calls /\ Len(h.path) = 1 /\ h.stage \in {"ok", "error"}
    /\ answer' = [answer EXCEPT ![h.cmd] = h.stage]
    /\ calls' = calls \ {h}
    /\ UNCHANGED <<owner, clients, runs, gaveUp, up, moves>>

\* An answer nobody waits for any more is lost with its connection.
Drop(g) ==
    /\ g \in calls /\ Len(g.path) > 1 /\ g.stage \in {"ok", "error"}
    /\ ~\E h \in calls : Answers(h, g) /\ h.stage = "proxy"
    /\ calls' = calls \ {g}
    /\ UNCHANGED <<owner, clients, answer, runs, gaveUp, up, moves>>

\* A node stops: its clients are closed and its connections end.
Stop(n) ==
    /\ n \in up /\ Cardinality(Nodes \ up) < MaxStops
    /\ up' = up \ {n}
    /\ clients' = [clients EXCEPT ![n] = {}]
    /\ calls' = {IF At(h) = n THEN [h EXCEPT !.stage = "error"] ELSE h : h \in calls}
    /\ gaveUp' = gaveUp \cup {h.cmd : h \in {g \in calls : At(g) = n}}
    /\ UNCHANGED <<owner, answer, runs, moves>>

Next == \/ \E n \in Nodes : \/ \E s \in Slots, m \in Nodes : SetOwner(n, s, m)
                            \/ \E c \in Cmds : Send(c, n)
                            \/ Stop(n)
        \/ \E h \in calls : \/ Route(h) \/ Execute(h) \/ Timeout(h) \/ Reply(h) \/ Drop(h)
                            \/ \E g \in calls : Return(h, g) \/ Retry(h, g)

\* Handlers run on, and a deadline passes.  Nothing is assumed of answers.
Fairness == /\ WF_vars(\E h \in calls : Len(h.path) = 1 /\ Timeout(h))
            /\ WF_vars(\E h \in calls : Len(h.path) = 1 /\ Route(h))
            /\ WF_vars(\E h \in calls : Len(h.path) = 1 /\ Execute(h))
            /\ WF_vars(\E h \in calls : Reply(h))

Spec == Init /\ [][Next]_vars /\ Fairness

(***************************************************************************)
(* Properties.                                                             *)
(***************************************************************************)
\* Type invariant.
TypeOK ==
    /\ owner \in [Nodes -> [Slots -> {None} \cup
                              [shard : {Shard[n] : n \in Nodes}, ip : Nodes]]]
    /\ clients \in [Nodes -> SUBSET Nodes]
    /\ calls \subseteq [cmd : Cmds, path : Seq(Nodes \X Nat),
                       stage : {"new", "local", "proxy", "ok", "error"},
                       try : 1 .. MaxTries]
    /\ \A h \in calls : Len(h.path) \in 1 .. (MaxHops + 1)
    /\ answer \in [Cmds -> {"unsent", "waiting", "ok", "error"}]
    /\ runs \in [Cmds -> Seq(Nodes)]
    /\ gaveUp \subseteq Cmds /\ up \subseteq Nodes

\* A client that was answered without an error had its command executed,
\* whatever was retried, timed out or stopped on the way.
AckedWasExecuted == \A c \in Cmds : answer[c] = "ok" => runs[c] # << >>

\* A command is executed twice only if an attempt was given up: stale and
\* contradictory slot maps send it around, and do not repeat it.
OnceUnlessRetried == \A c \in Cmds : Len(runs[c]) > 1 => c \in gaveUp

\* Every command that was sent is answered, even if the slot maps of two nodes
\* name each other and the command circles between them.
EveryCommandIsAnswered ==
    \A c \in Cmds : answer[c] = "waiting" ~> answer[c] \in {"ok", "error"}
=============================================================================
