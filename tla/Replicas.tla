------------------------------ MODULE Replicas ------------------------------
(***************************************************************************)
(* The replica set of one shard: nodes that apply the log Raft agrees on   *)
(* to their own databases (server/server.go, store/fsm.go).                *)
(*                                                                         *)
(* hashicorp/raft is external and abstracted to what Badis relies on: one  *)
(* agreed log of committed commands, stored by a quorum when a command     *)
(* commits, a leader that stores all of it, and on every node a goroutine  *)
(* that applies it in order.  What Badis adds is modelled in full: the     *)
(* database outlives the process, the index applied so far does not, and   *)
(* SetupRaft gives Raft a snapshot store that keeps nothing.  So a node    *)
(* that restarts applies its whole log again, on top of the database it    *)
(* has, and a node whose log was compacted cannot start.                   *)
(***************************************************************************)
EXTENDS Queries

CONSTANTS
    Nodes,
    Requests,      \* the commands clients submit
    Start,         \* the instant the model starts at
    MaxNow,        \* bound on the clock
    MaxLog,        \* bound on the length of the log
    MaxCrashes,    \* bound on the number of crashes
    MaxElections,  \* bound on the number of elections
    TrailingLogs   \* how many entries a compaction leaves

\* No lifetime leads back to the first second of the epoch, where an expiry
\* would read as "none".
ASSUME ReplicasAssumption ==
    /\ IsFiniteSet(Nodes)
    /\ Requests \subseteq CommandSpace
    /\ Start \in Nat /\ Start >= TicksPerSec
    /\ \A c \in Requests :
         c.op = "EXPIRE" => Start + c.ttl * TicksPerMs >= TicksPerSec
    /\ MaxCrashes \in Nat /\ MaxElections \in Nat /\ TrailingLogs \in Nat

VARIABLES
    now,        \* wall clock, the same on every node
    log,        \* the commands Raft has committed
    up,         \* the nodes that run
    leader,     \* the leader, or None
    last,       \* last index in a node's log store
    first,      \* first index in a node's log store
    applied,    \* index a running node has applied up to
    db,         \* a node's database
    pending,    \* indices whose futures the leader's handlers wait on
    answers,    \* the replies given to clients, by index
    crashes, elections,
    states,     \* history: the databases of an execution of the log in order
    replies     \* history: and its replies

vars == <<now, log, up, leader, last, first, applied, db, pending, answers,
          crashes, elections, states, replies>>

history == <<states, replies>>

Quorum(S) == 2 * Cardinality(S) > Cardinality(Nodes)

Init == /\ now = Start /\ log = << >> /\ up = Nodes /\ leader = None
        /\ last = [n \in Nodes |-> 0]
        /\ first = [n \in Nodes |-> 1]
        /\ applied = [n \in Nodes |-> 0]
        /\ db = [n \in Nodes |-> EmptyDB]
        /\ pending = {} /\ answers = << >>
        /\ crashes = 0 /\ elections = 0
        /\ states = <<EmptyDB>> /\ replies = << >>

(***************************************************************************)
(* Raft.                                                                   *)
(***************************************************************************)
\* A node that stores every committed entry becomes leader.  The futures of
\* the one before fail with ErrLeadershipLost; their entries stay committed.
Elect(n) ==
    /\ elections < MaxElections /\ Quorum(up)
    /\ n \in up /\ n # leader /\ last[n] = Len(log)
    /\ leader' = n /\ pending' = {} /\ elections' = elections + 1
    /\ UNCHANGED <<now, log, up, last, first, applied, db, answers, crashes,
                   history>>

\* applyCommand, up to raft.Apply: a command sent to the leader is committed
\* once a quorum stores it.  Any other node answers ErrNotLeader.
Propose(c) ==
    /\ leader # None /\ Len(log) < MaxLog
    /\ \E Q \in SUBSET {n \in up : last[n] = Len(log)} :
         /\ Quorum(Q) /\ leader \in Q
         /\ last' = [n \in Nodes |-> IF n \in Q THEN last[n] + 1 ELSE last[n]]
    /\ log' = Append(log, c)
    /\ pending' = pending \cup {Len(log) + 1}
    /\ answers' = Append(answers, None)
    /\ \E o \in applyCmdInTxn(states[Len(states)], now, c) :
         /\ states' = Append(states, o.db)
         /\ replies' = Append(replies, o.reply)
    /\ UNCHANGED <<now, up, leader, first, applied, db, crashes, elections>>

\* The leader sends a follower the next entry, from its own log store.  An
\* entry it has compacted would take a snapshot, and there is none.
Replicate(n) ==
    /\ leader # None /\ n \in up /\ last[n] < Len(log)
    /\ first[leader] <= last[n] + 1
    /\ last' = [last EXCEPT ![n] = @ + 1]
    /\ UNCHANGED <<now, log, up, leader, first, applied, db, pending, answers,
                   crashes, elections, history>>

\* A compaction: the snapshot FSM.Snapshot and Persist write goes to the
\* discarding store, and DeleteRange drops the entries it covers, except the
\* last TrailingLogs entries of the log.
Compact(n) ==
    /\ n \in up
    /\ LET spare == last[n] - TrailingLogs
           upTo  == IF applied[n] < spare THEN applied[n] ELSE spare
       IN  /\ upTo >= first[n]
           /\ first' = [first EXCEPT ![n] = upTo + 1]
    /\ UNCHANGED <<now, log, up, leader, last, applied, db, pending, answers,
                   crashes, elections, history>>

(***************************************************************************)
(* Nodes.                                                                  *)
(***************************************************************************)
\* Mutant: a node applies the newest entry it stores first.
ApplyNewest(n) ==
    /\ leader # None /\ n \in up /\ applied[n] < last[n]
    /\ applied' = [applied EXCEPT ![n] = @ + 1]
    /\ \E o \in applyCmdInTxn(db[n], now, log[last[n]]) :
         db' = [db EXCEPT ![n] = o.db]
    /\ UNCHANGED <<now, log, up, leader, last, first, pending, answers, crashes,
                   elections, history>>

\* Mutant: the leader answers with the reply to the entry before.
ApplyOldReply(n) ==
    /\ leader # None /\ n \in up /\ applied[n] < last[n]
    /\ LET i == applied[n] + 1
       IN  /\ applied' = [applied EXCEPT ![n] = i]
           /\ \E o \in applyCmdInTxn(db[n], now, log[i]) :
                /\ db' = [db EXCEPT ![n] = o.db]
                /\ IF n = leader /\ i \in pending
                   THEN /\ pending' = pending \ {i}
                        /\ answers' = [answers EXCEPT ![IF i > 1 THEN i - 1 ELSE i] = o.reply]
                   ELSE UNCHANGED <<pending, answers>>
    /\ UNCHANGED <<now, log, up, leader, last, first, crashes, elections, history>>

\* Mutant: off by one, the last entry waits for another.
ApplyButLast(n) ==
    /\ leader # None /\ n \in up /\ applied[n] + 1 < last[n]
    /\ \E o \in applyCmdInTxn(db[n], now, log[applied[n] + 1]) :
         /\ db' = [db EXCEPT ![n] = o.db]
         /\ applied' = [applied EXCEPT ![n] = @ + 1]
    /\ UNCHANGED <<now, log, up, leader, last, first, pending, answers, crashes,
                   elections, history>>

\* Raft hands the next committed entry to FSM.Apply.  On the leader the
\* handler that waits for it answers its client.
ApplyNext(n) ==
    /\ leader # None /\ n \in up /\ applied[n] < last[n]
    /\ LET i == applied[n] + 1
       IN  /\ applied' = [applied EXCEPT ![n] = i]
           /\ \E o \in applyCmdInTxn(db[n], now, log[i]) :
                /\ db' = [db EXCEPT ![n] = o.db]
                /\ IF n = leader /\ i \in pending
                   THEN /\ pending' = pending \ {i}
                        /\ answers' = [answers EXCEPT ![i] = o.reply]
                   ELSE UNCHANGED <<pending, answers>>
    /\ UNCHANGED <<now, log, up, leader, last, first, crashes, elections,
                   history>>

\* Mutant: a process that dies remains the leader.
CrashUnnoticed(n) ==
    /\ n \in up /\ crashes < MaxCrashes
    /\ up' = up \ {n} /\ crashes' = crashes + 1
    /\ UNCHANGED <<now, log, leader, last, first, applied, db, pending, answers,
                   elections, history>>

\* The process dies, or main ends on a signal without a word to Raft; Badger
\* keeps the database and the log.
Crash(n) ==
    /\ n \in up /\ crashes < MaxCrashes
    /\ up' = up \ {n} /\ crashes' = crashes + 1
    /\ leader' = IF n = leader THEN None ELSE leader
    /\ pending' = IF n = leader THEN {} ELSE pending
    /\ UNCHANGED <<now, log, last, first, applied, db, answers, elections,
                   history>>

\* Mutant: a node restarts from a log whose head is gone.
RestartAnyway(n) ==
    /\ n \in Nodes \ up
    /\ up' = up \cup {n}
    /\ applied' = [applied EXCEPT ![n] = 0]
    /\ UNCHANGED <<now, log, leader, last, first, db, pending, answers, crashes,
                   elections, history>>

\* Mutant: a restart takes the database for one that holds the whole log.
RestartCaughtUp(n) ==
    /\ n \in Nodes \ up /\ first[n] = 1
    /\ up' = up \cup {n}
    /\ applied' = [applied EXCEPT ![n] = last[n]]
    /\ UNCHANGED <<now, log, leader, last, first, db, pending, answers, crashes,
                   elections, history>>

\* NewFSM and SetupRaft: without a snapshot Raft reads its log from index 1,
\* and panics if that entry was compacted.
Restart(n) ==
    /\ n \in Nodes \ up /\ first[n] = 1
    /\ up' = up \cup {n}
    /\ applied' = [applied EXCEPT ![n] = 0]
    /\ UNCHANGED <<now, log, leader, last, first, db, pending, answers, crashes,
                   elections, history>>

Tick == /\ now < MaxNow /\ now' = now + 1
        /\ UNCHANGED <<log, up, leader, last, first, applied, db, pending,
                       answers, crashes, elections, history>>

Next == \/ \E c \in Requests : Propose(c)
        \/ \E n \in Nodes : \/ Elect(n) \/ Replicate(n) \/ Compact(n)
                            \/ ApplyNext(n) \/ Crash(n) \/ Restart(n)
        \/ Tick

\* A leader replicates to every running follower, and Raft's goroutine on every
\* running node applies what is committed.  Elections need not succeed.
Fairness == \A n \in Nodes : WF_vars(Replicate(n)) /\ WF_vars(ApplyNext(n))

Spec == Init /\ [][Next]_vars /\ Fairness

(***************************************************************************)
(* Properties.                                                             *)
(***************************************************************************)
\* Type invariant: a running leader stores the whole log, and no node applies
\* more than it stores.
TypeOK ==
    /\ now \in Nat /\ now >= Start /\ log \in Seq(Requests)
    /\ up \subseteq Nodes
    /\ leader = None \/ (leader \in up /\ last[leader] = Len(log))
    /\ last \in [Nodes -> 0 .. Len(log)]
    /\ first \in [Nodes -> Nat \ {0}]
    /\ applied \in [Nodes -> Nat] /\ \A n \in Nodes : applied[n] <= last[n]
    /\ db \in [Nodes -> Databases]
    /\ pending \subseteq DOMAIN log
    /\ Len(answers) = Len(log) /\ Len(replies) = Len(log)
    /\ states \in Seq(Databases) /\ Len(states) = Len(log) + 1
    /\ crashes \in 0 .. MaxCrashes /\ elections \in 0 .. MaxElections

\* What clients see of a database: types and values, not lifetimes.
View(d) == [k \in Keys |-> IF Exists(d, now, k)
                           THEN <<getExistingType(d, now, k), d.K[k].val>>
                           ELSE None]

\* The commands whose outcome the entries before them determine: they set no
\* lifetime, which the clock of each node would end, and SPOP's choice, the
\* order of a Go map, is not among them.
Determined(c) == /\ c.op \notin {"EXPIRE", "SPOP"}
                 /\ c.op = "SET" => c.ttl = 0

\* The commands that do not look at what they overwrite.
Blind(c) == \/ c.op \in {"MSET", "DEL", "FLUSHDB"}
            \/ c.op = "SET" /\ c.cond = "" /\ ~c.get

Every(P(_)) == \A i \in DOMAIN log : P(log[i])

\* While no node restarts, and with determined commands, every node holds the
\* database of an in-order execution of the entries it has applied: FSM.Apply
\* adds nothing of its own, whoever leads and however late a node is.
PrefixConsistency ==
    Every(Determined) => \A n \in Nodes : db[n] = states[applied[n] + 1]

\* And the replies clients get are those of one execution of the log in
\* order, whichever leaders gave them.
WritesAreLinearizable ==
    Every(Determined) =>
        \A i \in DOMAIN log : answers[i] # None => answers[i] = replies[i]

\* A node that has applied the whole log shows its outcome, however often it
\* restarted and applied entries again.
ReplayConverges ==
    \A n \in up : applied[n] = Len(log) => View(db[n]) = View(states[Len(states)])

\* No running node is about to apply an entry its log store has dropped.
NoGapInReplay == \A n \in up : first[n] <= applied[n] + 1

Served    == leader # None /\ \A n \in up : first[leader] <= last[n] + 1
Converged == \A n \in up : View(db[n]) = View(states[Len(states)])

\* Once a leader stays, with the log entries its followers lack, every running
\* node comes to show the outcome of the log and keeps showing it: a command
\* that fails, or that is applied again after a restart, blocks no other.
EventuallyConverged == <>[]Served => <>[]Converged

\* A replica applies an entry no earlier than the execution of the log at the
\* time of its commit.  With blind commands, lifetimes included, it shows no
\* value that this execution has overwritten or deleted, and loses no value
\* before it.
FollowersExpireLate == Every(Blind) =>
    \A n \in Nodes : \A k \in Keys :
        LET mine == db[n].K[k]
            ref  == states[applied[n] + 1].K[k]
        IN  /\ Live(mine, now) => ref # None /\ ref.val = mine.val
            /\ Live(ref, now) => /\ mine # None /\ mine.val = ref.val
                                 /\ IF ref.exp = 0 THEN mine.exp = 0
                                    ELSE mine.exp >= ref.exp
=============================================================================
