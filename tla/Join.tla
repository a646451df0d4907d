-------------------------------- MODULE Join --------------------------------
(***************************************************************************)
(* How the nodes of a shard start and come together (main.go, StartAdmin,  *)
(* SetupRaft and handleRaftJoin of server/server.go).  The seed has no     *)
(* join list: it bootstraps a configuration of its own.  Every other node  *)
(* asks the seed's admin port to be added, up to ten times, and then       *)
(* serves clients whatever came of it.                                     *)
(*                                                                         *)
(* hashicorp/raft is external: the latest configuration takes effect when  *)
(* the leader appends it and is committed once a majority of it runs; only *)
(* one change is under way at a time; a new leader keeps or, if it was     *)
(* elected without the old one, may lose an uncommitted change.  Requests  *)
(* go over HTTP: each has a goroutine of its own on the seed, and the      *)
(* answer may get lost.                                                    *)
(***************************************************************************)
EXTENDS Integers, FiniteSets

CONSTANTS
    Nodes,         \* node processes
    Seed,          \* the node without a join list
    ID,            \* ID[n]: BADIS_NODE_ID
    Addr,          \* Addr[n]: the Raft address main.go makes up
    None,          \* no leader
    MaxTries,      \* tries of the join loop: ten in the code
    MaxCrashes,    \* bound on crashes
    MaxElections   \* bound on elections

ASSUME JoinAssumption ==
    /\ IsFiniteSet(Nodes) /\ Seed \in Nodes /\ None \notin Nodes
    /\ DOMAIN ID = Nodes /\ DOMAIN Addr = Nodes
    /\ MaxTries \in Nat \ {0}

VARIABLES
    pc,            \* how far a node's main has come
    tries,         \* tries a node has made since it started
    joined,        \* what the answer told it: "no", "added" or "known"
    reqs,          \* requests and answers under way, numbered per node
    sent,          \* the number of the last request of a node
    leader,        \* the leader, or None
    config,        \* the latest configuration
    committed,     \* the last one that is committed
    crashes, elections

vars == <<pc, tries, joined, reqs, sent, leader, config, committed, crashes,
          elections>>

Me(n) == [id |-> ID[n], addr |-> Addr[n]]

Servers == {Me(n) : n \in Nodes}

Init == /\ pc = [n \in Nodes |-> "down"]
        /\ tries = [n \in Nodes |-> 0]
        /\ joined = [n \in Nodes |-> "no"]
        /\ reqs = {} /\ sent = [n \in Nodes |-> 0]
        /\ leader = None /\ config = {} /\ committed = {}
        /\ crashes = 0 /\ elections = 0

\* SetupRaft has run.
RaftRuns(n) == pc[n] \in {"raft", "joining", "serving"}

Majority(conf, live) ==
    2 * Cardinality({s \in conf : \E n \in live : Addr[n] = s.addr})
        > Cardinality(conf)

Running == {n \in Nodes : RaftRuns(n)}

(***************************************************************************)
(* main.                                                                   *)
(***************************************************************************)
\* The admin server listens before Raft is set up.
StartAdmin(n) ==
    /\ pc[n] = "down"
    /\ pc' = [pc EXCEPT ![n] = "admin"]
    /\ tries' = [tries EXCEPT ![n] = 0]
    /\ joined' = [joined EXCEPT ![n] = "no"]
    /\ UNCHANGED <<reqs, sent, leader, config, committed, crashes, elections>>

SetupRaft(n) ==
    /\ pc[n] = "admin"
    /\ pc' = [pc EXCEPT ![n] = IF n = Seed THEN "raft" ELSE "joining"]
    /\ UNCHANGED <<tries, joined, reqs, sent, leader, config, committed, crashes,
                   elections>>

\* Mutant: every start makes a cluster of its own.
BootstrapAlways(n) ==
    /\ pc[n] = "raft"
    /\ pc' = [pc EXCEPT ![n] = "serving"]
    /\ config' = {Me(n)} /\ committed' = {Me(n)}
    /\ UNCHANGED <<tries, joined, reqs, sent, leader, crashes, elections>>

\* BootstrapCluster: on a restart it fails with ErrCantBootstrap, which main
\* ignores.
Bootstrap(n) ==
    /\ pc[n] = "raft"
    /\ pc' = [pc EXCEPT ![n] = "serving"]
    /\ IF config = {} THEN config' = {Me(n)} /\ committed' = {Me(n)}
                      ELSE UNCHANGED <<config, committed>>
    /\ UNCHANGED <<tries, joined, reqs, sent, leader, crashes, elections>>

\* http.Get, without a timeout: main waits for the answer.
Ask(n) ==
    /\ pc[n] = "joining" /\ tries[n] < MaxTries
    /\ \A r \in reqs : r.from = n => r.no # sent[n]
    /\ sent' = [sent EXCEPT ![n] = @ + 1]
    /\ reqs' = reqs \cup {[from |-> n, no |-> sent[n] + 1, stage |-> "sent"]}
    /\ UNCHANGED <<pc, tries, joined, leader, config, committed, crashes,
                   elections>>

\* Mutant: main ends up nowhere when the tries are used up.
HearGivesUp(r) ==
    LET n  == r.from
        ok == r.stage \in {"added", "known"}
    IN  /\ r \in reqs /\ r.stage \in {"added", "known", "failed"}
        /\ reqs' = reqs \ {r}
        /\ IF pc[n] = "joining" /\ r.no = sent[n]
           THEN /\ tries' = [tries EXCEPT ![n] = @ + 1]
                /\ joined' = [joined EXCEPT ![n] = IF ok THEN r.stage ELSE "no"]
                /\ pc' = [pc EXCEPT ![n] = IF ok THEN "serving" ELSE "joining"]
           ELSE UNCHANGED <<pc, tries, joined>>
        /\ UNCHANGED <<sent, leader, config, committed, crashes, elections>>

\* The answer arrives, or an error in its place; nobody waits for that of an
\* earlier process.  After ten failures main goes on as if it had joined.
Hear(r) ==
    LET n  == r.from
        ok == r.stage \in {"added", "known"}
    IN  /\ r \in reqs /\ r.stage \in {"added", "known", "failed"}
        /\ reqs' = reqs \ {r}
        /\ IF pc[n] = "joining" /\ r.no = sent[n]
           THEN /\ tries' = [tries EXCEPT ![n] = @ + 1]
                /\ joined' = [joined EXCEPT ![n] = IF ok THEN r.stage ELSE "no"]
                /\ pc' = [pc EXCEPT ![n] = IF ok \/ tries[n] + 1 = MaxTries
                                           THEN "serving" ELSE "joining"]
           ELSE UNCHANGED <<pc, tries, joined>>
        /\ UNCHANGED <<sent, leader, config, committed, crashes, elections>>

(***************************************************************************)
(* handleRaftJoin, on the seed's admin port.                               *)
(***************************************************************************)
Stage(r, s) == (reqs \ {r}) \cup {[r EXCEPT !.stage = s]}

Known(n) == \E s \in config : s.id = ID[n] \/ s.addr = Addr[n]

\* Mutant: the leader turns requests away.
CheckInverted(r) ==
    /\ r \in reqs /\ r.stage = "sent"
    /\ reqs' = Stage(r, IF leader = Seed THEN "failed" ELSE "leading")
    /\ UNCHANGED <<pc, tries, joined, sent, leader, config, committed, crashes,
                   elections>>

\* The request is refused if nothing listens, if Raft is not set up (the
\* handler's panic closes the connection) or if the seed does not lead.
Check(r) ==
    /\ r \in reqs /\ r.stage = "sent"
    /\ reqs' = Stage(r, IF leader = Seed THEN "leading" ELSE "failed")
    /\ UNCHANGED <<pc, tries, joined, sent, leader, config, committed, crashes,
                   elections>>

\* GetConfiguration gives the latest configuration, committed or not, also
\* when the seed has ceased to lead by now; it is searched for the node.
Search(r) ==
    /\ r \in reqs /\ r.stage = "leading"
    /\ reqs' = Stage(r, IF Known(r.from) THEN "known" ELSE "unknown")
    /\ UNCHANGED <<pc, tries, joined, sent, leader, config, committed, crashes,
                   elections>>

\* Mutant: the ID and the address change places.
AddVoterSwapped(r) ==
    /\ r \in reqs /\ r.stage = "unknown"
    /\ leader = Seed => config = committed
    /\ config' = IF leader # Seed THEN config
                 ELSE config \cup {[id |-> Addr[r.from], addr |-> ID[r.from]]}
    /\ reqs' = Stage(r, IF leader # Seed THEN "failed" ELSE "waiting")
    /\ UNCHANGED <<pc, tries, joined, sent, leader, committed, crashes, elections>>

\* AddVoter, as Raft carries it out: once no other change is under way, the
\* server is added, or its address changed if the ID is known by now; an
\* address that is taken is an error.
AddVoter(r) ==
    LET rest == {s \in config : s.id # ID[r.from]}
    IN  /\ r \in reqs /\ r.stage = "unknown"
        /\ leader = Seed => config = committed
        /\ IF leader # Seed \/ \E s \in rest : s.addr = Addr[r.from]
           THEN reqs' = Stage(r, "failed") /\ UNCHANGED config
           ELSE /\ config' = rest \cup {Me(r.from)}
                /\ reqs' = Stage(r, "waiting")
        /\ UNCHANGED <<pc, tries, joined, sent, leader, committed, crashes,
                       elections>>

\* Mutant: the future is not waited for.
AddedAtOnce(r) ==
    /\ r \in reqs /\ r.stage = "waiting"
    /\ reqs' = Stage(r, "added")
    /\ UNCHANGED <<pc, tries, joined, sent, leader, config, committed, crashes,
                   elections>>

\* The future of AddVoter: the change is committed, or the leadership is lost.
Added(r) ==
    /\ r \in reqs /\ r.stage = "waiting"
    /\ leader = Seed => config = committed
    /\ reqs' = Stage(r, IF leader = Seed THEN "added" ELSE "failed")
    /\ UNCHANGED <<pc, tries, joined, sent, leader, config, committed, crashes,
                   elections>>

(***************************************************************************)
(* Raft and the environment.                                               *)
(***************************************************************************)
\* A member is elected by a majority of its latest configuration.  The seed
\* has the uncommitted change; a majority without it may not.
Elect(n) ==
    /\ leader = None /\ elections < MaxElections
    /\ RaftRuns(n)
    /\ \E conf \in {config, committed} :
         /\ Me(n) \in conf /\ Majority(conf, Running)
         /\ conf = config \/ (n # Seed /\ Majority(conf, Running \ {Seed}))
         /\ config' = conf
    /\ leader' = n /\ elections' = elections + 1
    /\ UNCHANGED <<pc, tries, joined, reqs, sent, committed, crashes>>

CommitConfig ==
    /\ leader # None /\ config # committed /\ Majority(config, Running)
    /\ committed' = config
    /\ UNCHANGED <<pc, tries, joined, reqs, sent, leader, config, crashes,
                   elections>>

\* A leader that does not reach a majority steps down, and futures that wait
\* for it fail.
Fail == {IF r.stage \in {"unknown", "waiting"} THEN [r EXCEPT !.stage = "failed"]
         ELSE r : r \in reqs}

StepDown ==
    /\ leader # None /\ ~Majority(config, Running)
    /\ leader' = None
    /\ reqs' = IF leader = Seed THEN Fail ELSE reqs
    /\ UNCHANGED <<pc, tries, joined, sent, config, committed, crashes, elections>>

\* The process ends: by a signal main does not tell Raft about, or by a crash.
\* Connections to it break.
Crash(n) ==
    /\ pc[n] # "down" /\ crashes < MaxCrashes
    /\ pc' = [pc EXCEPT ![n] = "down"]
    /\ leader' = IF leader = n THEN None ELSE leader
    /\ reqs' = IF n = Seed
               THEN {[r EXCEPT !.stage = "failed"] : r \in reqs} ELSE reqs
    /\ crashes' = crashes + 1
    /\ UNCHANGED <<tries, joined, sent, config, committed, elections>>

\* An answer is lost on its way.
Lose(r) ==
    /\ r \in reqs /\ r.stage \in {"added", "known"}
    /\ reqs' = Stage(r, "failed")
    /\ UNCHANGED <<pc, tries, joined, sent, leader, config, committed, crashes,
                   elections>>

Next == \/ \E n \in Nodes : \/ StartAdmin(n) \/ SetupRaft(n) \/ Bootstrap(n)
                            \/ Ask(n) \/ Elect(n) \/ Crash(n)
        \/ \E r \in reqs : \/ Check(r) \/ Search(r) \/ AddVoter(r) \/ Added(r)
                           \/ Hear(r) \/ Lose(r)
        \/ CommitConfig \/ StepDown

\* A started process goes on: main and its goroutines run, the HTTP server
\* answers or the connection breaks, Raft commits what a majority stores and a
\* leader without a majority steps down.  Elections may fail, and nobody need
\* restart a node.
Fairness ==
    /\ \A n \in Nodes : WF_vars(SetupRaft(n) \/ Bootstrap(n) \/ Ask(n))
    /\ WF_vars(\E r \in reqs : Hear(r))
    /\ WF_vars(\E r \in reqs : Check(r))
    /\ WF_vars(\E r \in reqs : Search(r))
    /\ WF_vars(\E r \in reqs : AddVoter(r))
    /\ WF_vars(\E r \in reqs : Added(r))
    /\ WF_vars(CommitConfig) /\ WF_vars(StepDown)

Spec == Init /\ [][Next]_vars /\ Fairness

(***************************************************************************)
(* Properties.                                                             *)
(***************************************************************************)
\* Type invariant.
TypeOK ==
    /\ pc \in [Nodes -> {"down", "admin", "raft", "joining", "serving"}]
    /\ tries \in [Nodes -> 0 .. MaxTries]
    /\ joined \in [Nodes -> {"no", "added", "known"}]
    /\ sent \in [Nodes -> Nat]
    /\ reqs \subseteq [from : Nodes, no : Nat \ {0},
                      stage : {"sent", "leading", "known", "unknown", "waiting",
                               "added", "failed"}]
    /\ \A r \in reqs : r.no <= sent[r.from]
    /\ leader \in Nodes \cup {None}
    /\ config \subseteq Servers /\ committed \subseteq Servers

\* A node whose request made the leader add it belongs to the committed
\* configuration, whatever crashed or was lost since.
AddedMeansCommitted ==
    \A n \in Nodes : joined[n] = "added" => Me(n) \in committed

\* The members of a committed configuration stay members under their address,
\* whoever asks to join, in whatever order and however often.
MembersStay == [][committed \subseteq committed']_vars

\* A started node comes to serve its clients: no lost answer, no seed that is
\* down, leads no longer or is not set up yet, and no crash of another node in
\* the middle of a change keeps main in its loop.
EventuallyServes ==
    \A n \in Nodes : pc[n] = "joining" ~> pc[n] \in {"serving", "down"}

\* A node about to ask becomes a member if the seed leads from then on and
\* neither of them stops: one try is enough, even if its answer is lost or
\* other changes are under way.
LeaderAdmits == \A n \in Nodes :
    (/\ ENABLED Ask(n)
     /\ [](leader = Seed /\ pc[n] # "down")) ~> Me(n) \in committed

(***************************************************************************)
(* What the documentation says, and the code does not do.                  *)
(***************************************************************************)
\* A node that was told it joined belongs to the replica set.
JoinedMeansMember ==
    \A n \in Nodes : joined[n] # "no" => Me(n) \in config
=============================================================================
