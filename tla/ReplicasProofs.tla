--------------------------- MODULE ReplicasProofs ---------------------------
(***************************************************************************)
(* Proofs about the replica set of a shard, for every number of nodes,     *)
(* elections, commands and log entries.                                    *)
(***************************************************************************)
EXTENDS Replicas, CommandsProofs

(***************************************************************************)
(* The inductive invariant.                                                *)
(***************************************************************************)
\* A sequence of n elements, of whatever type.
Arr(s, n) == s = [i \in 1 .. n |-> s[i]]

\* Databases are good, on every node and in the history.
AllGood == /\ \A n \in Nodes : Good(db[n])
           /\ \A i \in 1 .. (Len(log) + 1) : Good(states[i])
           /\ Arr(answers, Len(log)) /\ Arr(replies, Len(log))

\* The history is an execution of the log, each entry at an instant that has
\* passed.
History == \A i \in 1 .. Len(log) : \E t \in Start .. now :
    \E o \in applyCmdInTxn(states[i], t, log[i]) :
        states[i + 1] = o.db /\ replies[i] = o.reply

\* Without crashes every node runs.
NoCrashAllUp == crashes = 0 => up = Nodes

\* Determined commands leave no entry with a lifetime.
NoLifetimes == Every(Determined) =>
    /\ \A n \in Nodes : Timeless(db[n])
    /\ \A i \in 1 .. (Len(log) + 1) : Timeless(states[i])

\* Blind commands only store strings.
OnlyStrings == Every(Blind) =>
    /\ \A n \in Nodes : StringTags(db[n])
    /\ \A i \in 1 .. (Len(log) + 1) : StringTags(states[i])

\* The blind commands that decide what a key holds: they write it, or delete it.
Writes(c, k)  == \/ c.op = "SET" /\ c.key = k
                 \/ c.op = "MSET" /\ \E i \in DOMAIN c.pairs : c.pairs[i][1] = k
Erases(c, k)  == \/ c.op = "DEL" /\ \E i \in DOMAIN c.keys : c.keys[i] = k
                 \/ c.op = "FLUSHDB"
Touches(c, k) == Writes(c, k) \/ Erases(c, k)

\* With blind commands and no lifetimes: a key holds what the log entries applied
\* so far have made of it, or none of them touched it; what it holds comes from
\* the log.
Replayed == Every(Blind) /\ Every(Determined) =>
    /\ \A n \in Nodes, k \in Keys :
         /\ \/ db[n].K[k] = states[applied[n] + 1].K[k]
            \/ \A i \in 1 .. applied[n] : ~Touches(log[i], k)
         /\ db[n].K[k] # None => \E i \in 1 .. Len(log) : Touches(log[i], k)
    /\ \A i \in 1 .. (Len(log) + 1), k \in Keys :
         (\A j \in 1 .. (i - 1) : ~Touches(log[j], k)) => states[i].K[k] = None

TypeInv == TypeOK /\ AllGood /\ NoCrashAllUp /\ NoGapInReplay

(***************************************************************************)
(* Types.                                                                  *)
(***************************************************************************)
\* What Append makes of a sequence of n elements.
LEMMA ArrAppend ==
    ASSUME NEW s, NEW n \in Nat, Arr(s, n), NEW e
    PROVE  /\ Len(s) = n /\ Arr(Append(s, e), n + 1) /\ Len(Append(s, e)) = n + 1
           /\ Append(s, e)[n + 1] = e
           /\ \A i \in 1 .. n : Append(s, e)[i] = s[i]
<1> DEFINE S == {s[i] : i \in 1 .. n} \cup {e}
<1>1. s \in [1 .. n -> S] /\ e \in S
  BY DEF Arr
<1> HIDE DEF S
<1>2. s \in Seq(S) /\ Len(s) = n
  BY <1>1
<1>3. /\ Append(s, e) \in Seq(S) /\ Len(Append(s, e)) = n + 1
      /\ Append(s, e)[n + 1] = e /\ \A i \in 1 .. n : Append(s, e)[i] = s[i]
  BY <1>1, <1>2
<1>4. Arr(Append(s, e), n + 1)
  BY <1>3 DEF Arr
<1> QED BY <1>2, <1>3, <1>4

\* A sequence is one of as many elements as it has.
LEMMA SeqArr ==
    ASSUME NEW S, NEW s \in Seq(S)
    PROVE  Arr(s, Len(s)) /\ Len(s) \in Nat
BY DEF Arr

\* FSM.Apply keeps a database good, whatever client sent the command.
LEMMA RequestsKeepGood ==
    ASSUME NEW d, Good(d), NEW t \in Nat, t >= Start, NEW c \in Requests,
           NEW o \in applyCmdInTxn(d, t, c)
    PROVE  Good(o.db)
<1>1. c \in CommandSpace
  BY ReplicasAssumption
<1>2. ASSUME c.op = "EXPIRE" PROVE t + c.ttl * TicksPerMs >= 0
  <2>1. c.ttl \in Int
    BY <1>1, <1>2
    DEF CommandSpace, SetCommands, TextCommands, MSetCommands, DelCommands,
        FlushCommands, IncrCommands, ExpireCommands, PersistCommands, HSetCommands,
        AddCommands, RemoveCommands, PopCommands, LTrimCommands, LRemCommands
  <2>2. Start \in Nat /\ Start + c.ttl * TicksPerMs >= TicksPerSec
    BY <1>2, ReplicasAssumption
  <2>3. c.ttl * TicksPerMs \in Int
    BY <2>1, ClockAssumption
  <2> QED
    BY <2>2, <2>3, TicksPerSecType
<1> QED
  BY <1>1, <1>2, ApplyGood

\* The initial state.
LEMMA EmptyGood == Good(EmptyDB) /\ Timeless(EmptyDB) /\ StringTags(EmptyDB)
                   /\ \A k \in Keys : EmptyDB.K[k] = None
<1>1. EmptyDB \in Databases /\ \A k \in Keys : EmptyDB.K[k] = None /\ EmptyDB.T[k] = None
  BY DEF EmptyDB, Databases
<1> QED BY <1>1 DEF Good, SoundTags, AllFilled, Timeless, StringTags

\* The initial state satisfies the invariant.
LEMMA TypeInit == Init => TypeInv
<1> SUFFICES ASSUME Init PROVE TypeInv
  OBVIOUS
<1>1. Len(log) = 0 /\ log \in Seq(Requests) /\ states \in Seq(Databases)
      /\ Len(states) = 1 /\ states[1] = EmptyDB
  BY EmptyGood DEF Init, Good
<1>2. TypeOK
  <2>1. Len(answers) = 0 /\ Len(replies) = 0
    BY DEF Init
  <2>2. EmptyDB \in Databases
    BY EmptyGood DEF Good
  <2> QED BY <1>1, <2>1, <2>2, ReplicasAssumption DEF Init, TypeOK
<1>3. AllGood
  <2>1. Arr(<< >>, 0)
    BY DEF Arr
  <2> QED BY <1>1, <2>1, EmptyGood DEF Init, AllGood
<1> QED BY <1>2, <1>3 DEF Init, TypeInv, NoCrashAllUp, NoGapInReplay

\* What Propose does to the log and the history.
LEMMA ProposeShape ==
    ASSUME TypeInv, NEW c \in Requests, Propose(c)
    PROVE  LET n == Len(log)
           IN  /\ n \in Nat /\ Len(log') = n + 1 /\ log' \in Seq(Requests)
               /\ log'[n + 1] = c /\ \A i \in 1 .. n : log'[i] = log[i]
               /\ Len(states') = n + 2 /\ states' \in Seq(Databases)
               /\ \A i \in 1 .. (n + 1) : states'[i] = states[i]
               /\ Good(states'[n + 2])
               /\ \E o \in applyCmdInTxn(states[n + 1], now, c) :
                    states'[n + 2] = o.db /\ replies'[n + 1] = o.reply
               /\ Arr(replies', n + 1) /\ \A i \in 1 .. n : replies'[i] = replies[i]
               /\ Arr(answers', n + 1) /\ answers'[n + 1] = None
               /\ \A i \in 1 .. n : answers'[i] = answers[i]
<1> DEFINE n == Len(log)
<1>1. /\ log \in Seq(Requests) /\ states \in Seq(Databases) /\ Len(states) = n + 1
      /\ n \in Nat /\ now \in Nat /\ now >= Start
      /\ Arr(answers, n) /\ Arr(replies, n) /\ Good(states[n + 1])
  BY DEF TypeInv, TypeOK, AllGood
<1>2. PICK o \in applyCmdInTxn(states[n + 1], now, c) :
        states' = Append(states, o.db) /\ replies' = Append(replies, o.reply)
  BY <1>1 DEF Propose
<1>3. log' = Append(log, c) /\ answers' = Append(answers, None)
  BY DEF Propose
<1>4. Good(o.db) /\ o.db \in Databases
  BY <1>1, <1>2, RequestsKeepGood DEF Good
<1>5. /\ Len(log') = n + 1 /\ log' \in Seq(Requests)
      /\ log'[n + 1] = c /\ \A i \in 1 .. n : log'[i] = log[i]
  BY <1>1, <1>3
<1>6. /\ Len(states') = n + 2 /\ states' \in Seq(Databases) /\ states'[n + 2] = o.db
      /\ \A i \in 1 .. (n + 1) : states'[i] = states[i]
  BY <1>1, <1>2, <1>4
<1>7. /\ Arr(replies', n + 1) /\ replies'[n + 1] = o.reply
      /\ \A i \in 1 .. n : replies'[i] = replies[i]
      /\ Arr(answers', n + 1) /\ answers'[n + 1] = None
      /\ \A i \in 1 .. n : answers'[i] = answers[i]
  BY <1>1, <1>2, <1>3, ArrAppend
<1> HIDE DEF n
<1>8. \E p \in applyCmdInTxn(states[n + 1], now, c) :
        states'[n + 2] = p.db /\ replies'[n + 1] = p.reply
  BY <1>2, <1>6, <1>7
<1> QED BY <1>1, <1>4, <1>5, <1>6, <1>7, <1>8 DEF n

\* What ApplyNext does.
LEMMA ApplyShape ==
    ASSUME TypeInv, NEW n \in Nodes, ApplyNext(n)
    PROVE  LET i == applied[n] + 1
           IN  /\ i \in 1 .. Len(log) /\ i <= last[n] /\ log[i] \in Requests
               /\ applied' = [applied EXCEPT ![n] = i]
               /\ \E o \in applyCmdInTxn(db[n], now, log[i]) :
                    /\ db' = [db EXCEPT ![n] = o.db] /\ Good(o.db)
                    /\ \/ UNCHANGED <<pending, answers>>
                       \/ /\ pending' = pending \ {i}
                          /\ answers' = [answers EXCEPT ![i] = o.reply]
<1> DEFINE i == applied[n] + 1
<1>1. i \in 1 .. Len(log) /\ i <= last[n] /\ log[i] \in Requests
  <2>1. applied[n] \in Nat /\ last[n] \in 0 .. Len(log) /\ applied[n] < last[n]
        /\ log \in Seq(Requests) /\ Len(log) \in Nat
    BY DEF TypeInv, TypeOK, ApplyNext
  <2>2. i \in 1 .. Len(log) /\ i <= last[n]
    BY <2>1
  <2> QED BY <2>1, <2>2
<1>2. PICK o \in applyCmdInTxn(db[n], now, log[i]) :
        /\ db' = [db EXCEPT ![n] = o.db]
        /\ \/ UNCHANGED <<pending, answers>>
           \/ /\ pending' = pending \ {i}
              /\ answers' = [answers EXCEPT ![i] = o.reply]
  BY DEF ApplyNext
<1>3. Good(db[n]) /\ now \in Nat /\ now >= Start
  BY DEF TypeInv, TypeOK, AllGood
<1>4. Good(o.db)
  BY <1>1, <1>2, <1>3, RequestsKeepGood
<1>5. applied' = [applied EXCEPT ![n] = i]
  BY DEF ApplyNext
<1> QED BY <1>1, <1>2, <1>4, <1>5

\* Every step keeps the types and the windows of the log stores.
LEMMA TypeStep == TypeInv /\ [Next]_vars => TypeInv'
<1> SUFFICES ASSUME TypeInv, [Next]_vars PROVE TypeInv'
  OBVIOUS
<1> USE ReplicasAssumption
<1>0. TypeOK /\ AllGood /\ NoCrashAllUp /\ NoGapInReplay /\ Len(log) \in Nat
  BY DEF TypeInv, TypeOK
<1>1. ASSUME NEW c \in Requests, Propose(c) PROVE TypeInv'
  <2> DEFINE n == Len(log)
  <2>1. /\ n \in Nat /\ Len(log') = n + 1 /\ log' \in Seq(Requests)
        /\ Len(states') = n + 2 /\ states' \in Seq(Databases)
        /\ \A i \in 1 .. (n + 1) : states'[i] = states[i]
        /\ Good(states'[n + 2])
        /\ Arr(replies', n + 1) /\ Arr(answers', n + 1)
    BY <1>1, ProposeShape
  <2>2. Len(answers') = n + 1 /\ Len(replies') = n + 1
    BY <1>0, <1>1, <2>1, ArrAppend DEF Propose, AllGood
  <2>3. last' \in [Nodes -> 0 .. (n + 1)] /\ \A m \in Nodes : last[m] <= last'[m]
        /\ last'[leader] = n + 1 /\ leader \in up
    <3>1. PICK Q \in SUBSET {m \in up : last[m] = n} :
            /\ leader \in Q
            /\ last' = [m \in Nodes |-> IF m \in Q THEN last[m] + 1 ELSE last[m]]
      BY <1>1 DEF Propose
    <3>2. last \in [Nodes -> 0 .. n] /\ up \subseteq Nodes
      BY <1>0 DEF TypeOK
    <3> QED BY <2>1, <3>1, <3>2
  <2>4. DOMAIN log' = 1 .. (n + 1) /\ DOMAIN log = 1 .. n /\ pending' = pending \cup {n + 1}
    BY <1>0, <1>1, <2>1 DEF Propose, TypeOK
  <2>5. UNCHANGED <<now, up, leader, first, applied, db, crashes, elections>>
    BY <1>1 DEF Propose
  <2>6. TypeOK'
    <3>1. applied' \in [Nodes -> Nat] /\ \A m \in Nodes : applied'[m] <= last'[m]
      BY <1>0, <2>1, <2>3, <2>5 DEF TypeOK
    <3>2. pending' \subseteq DOMAIN log'
      BY <1>0, <2>4 DEF TypeOK
    <3> QED BY <1>0, <2>1, <2>2, <2>3, <2>5, <3>1, <3>2 DEF TypeOK
  <2>7. AllGood'
    <3>1. \A i \in 1 .. (n + 2) : Good(states'[i])
      BY <1>0, <2>1 DEF AllGood
    <3> QED BY <1>0, <2>1, <2>5, <3>1 DEF AllGood
  <2> QED BY <1>0, <2>5, <2>6, <2>7 DEF TypeInv, NoCrashAllUp, NoGapInReplay
<1>2. ASSUME NEW n \in Nodes, Elect(n) PROVE TypeInv'
  BY <1>0, <1>2 DEF Elect, history, TypeInv, TypeOK, AllGood, NoCrashAllUp, NoGapInReplay
<1>3. ASSUME NEW n \in Nodes, Replicate(n) PROVE TypeInv'
  <2>1. last' \in [Nodes -> 0 .. Len(log)] /\ \A m \in Nodes : last[m] <= last'[m]
        /\ (leader = None \/ last'[leader] = Len(log))
    BY <1>0, <1>3 DEF Replicate, TypeOK
  <2>2. \A m \in Nodes : applied[m] <= last'[m]
    BY <1>0, <2>1 DEF TypeOK
  <2> QED BY <1>0, <1>3, <2>1, <2>2
          DEF Replicate, history, TypeInv, TypeOK, AllGood, NoCrashAllUp, NoGapInReplay
<1>4. ASSUME NEW n \in Nodes, Compact(n) PROVE TypeInv'
  <2> DEFINE spare == last[n] - TrailingLogs
             upTo  == IF applied[n] < spare THEN applied[n] ELSE spare
  <2>1. /\ first' = [first EXCEPT ![n] = upTo + 1]
        /\ upTo >= first[n]
        /\ UNCHANGED <<now, log, up, leader, last, applied, db, pending, answers,
                       crashes, elections, states, replies>>
    BY <1>4 DEF Compact, history
  <2>2. /\ first \in [Nodes -> Nat \ {0}] /\ applied \in [Nodes -> Nat]
        /\ last[n] \in Nat /\ TrailingLogs \in Nat
    BY <1>0, ReplicasAssumption DEF TypeOK
  <2>3. upTo + 1 \in Nat \ {0} /\ upTo <= applied[n]
    BY <2>1, <2>2
  <2> HIDE DEF upTo
  <2>4. first' \in [Nodes -> Nat \ {0}]
    BY <2>1, <2>2, <2>3
  <2>5. ASSUME NEW m \in up PROVE first'[m] <= applied[m] + 1
    <3>1. m \in Nodes /\ first[m] <= applied[m] + 1
      BY <1>0 DEF NoGapInReplay, TypeOK
    <3>2. m # n => first'[m] = first[m]
      BY <2>1, <2>2, <3>1
    <3>3. m = n => first'[m] = upTo + 1
      BY <2>1, <2>2, <3>1
    <3>4. upTo \in Int /\ applied[n] \in Nat /\ upTo + 1 <= applied[n] + 1
      <4>1. upTo \in Int
        BY <2>2 DEF upTo
      <4> QED BY <2>2, <2>3, <4>1
    <3> QED BY <3>1, <3>2, <3>3, <3>4
  <2> QED BY <1>0, <2>1, <2>4, <2>5
          DEF TypeInv, TypeOK, AllGood, NoCrashAllUp, NoGapInReplay
<1>5. ASSUME NEW n \in Nodes, ApplyNext(n) PROVE TypeInv'
  <2> DEFINE i == applied[n] + 1
  <2>1. PICK o \in applyCmdInTxn(db[n], now, log[i]) :
          /\ db' = [db EXCEPT ![n] = o.db] /\ Good(o.db)
          /\ \/ UNCHANGED <<pending, answers>>
             \/ pending' = pending \ {i} /\ answers' = [answers EXCEPT ![i] = o.reply]
    BY <1>5, ApplyShape
  <2>2. i \in 1 .. Len(log) /\ i <= last[n] /\ applied' = [applied EXCEPT ![n] = i]
    BY <1>5, ApplyShape
  <2>3. UNCHANGED <<now, log, up, leader, last, first, crashes, elections, states,
                    replies>>
    BY <1>5 DEF ApplyNext, history
  <2>4. Arr(answers', Len(log)) /\ Len(answers') = Len(log)
    <3>1. Arr(answers, Len(log))
      BY <1>0 DEF AllGood
    <3>2. Arr(answers', Len(log))
      BY <2>1, <3>1 DEF Arr
    <3> QED BY <1>0, <3>2, ArrAppend
  <2> HIDE DEF i
  <2>5. /\ applied' \in [Nodes -> Nat]
        /\ \A m \in Nodes : applied'[m] <= last[m] /\ applied[m] <= applied'[m]
    BY <1>0, <2>2 DEF TypeOK, i
  <2>6. db' \in [Nodes -> Databases] /\ \A m \in Nodes : Good(db'[m])
    BY <1>0, <2>1 DEF TypeOK, AllGood, Good
  <2>7. pending' \subseteq DOMAIN log
    BY <1>0, <2>1 DEF TypeOK
  <2>8. NoGapInReplay'
    BY <1>0, <2>3, <2>5 DEF NoGapInReplay, TypeOK
  <2>9. AllGood'
    BY <1>0, <2>3, <2>4, <2>6 DEF AllGood
  <2>10. TypeOK'
    BY <1>0, <2>3, <2>4, <2>5, <2>6, <2>7 DEF TypeOK
  <2> QED BY <1>0, <2>3, <2>8, <2>9, <2>10 DEF TypeInv, NoCrashAllUp
<1>6. ASSUME NEW n \in Nodes, Crash(n) PROVE TypeInv'
  BY <1>0, <1>6 DEF Crash, history, TypeInv, TypeOK, AllGood, NoCrashAllUp, NoGapInReplay
<1>7. ASSUME NEW n \in Nodes, Restart(n) PROVE TypeInv'
  BY <1>0, <1>7 DEF Restart, history, TypeInv, TypeOK, AllGood, NoCrashAllUp, NoGapInReplay
<1>8. ASSUME Tick PROVE TypeInv'
  BY <1>0, <1>8 DEF Tick, history, TypeInv, TypeOK, AllGood, NoCrashAllUp, NoGapInReplay
<1>9. ASSUME UNCHANGED vars PROVE TypeInv'
  BY <1>0, <1>9 DEF vars, TypeInv, TypeOK, AllGood, NoCrashAllUp, NoGapInReplay
<1> QED BY <1>1, <1>2, <1>3, <1>4, <1>5, <1>6, <1>7, <1>8, <1>9 DEF Next

\* Types, with what Raft keeps: a running leader stores the whole log, and no node
\* applies more than it stores, through any elections, compactions and crashes.
THEOREM TypeCorrect == Spec => []TypeOK
<1>1. TypeInv => TypeOK
  BY DEF TypeInv
<1> QED BY <1>1, TypeInit, TypeStep, PTL DEF Spec

\* A node never comes to apply an entry that a compaction has dropped: it starts
\* from the first entry, or not at all.
THEOREM ReplayHasNoGap == Spec => []NoGapInReplay
<1>1. TypeInv => NoGapInReplay
  BY DEF TypeInv
<1> QED BY <1>1, TypeInit, TypeStep, PTL DEF Spec

(***************************************************************************)
(* The history is an execution of the log.                                 *)
(***************************************************************************)
\* Steps that touch neither the log nor the history.
Quiet == UNCHANGED <<log, states, replies>>

\* Every step but Propose is quiet, and the clock does not go back.
LEMMA QuietSteps ==
    ASSUME TypeInv, [Next]_vars
    PROVE  /\ Quiet \/ \E c \in Requests : Propose(c)
           /\ now' \in Nat /\ now <= now'
<1>1. now \in Nat
  BY DEF TypeInv, TypeOK
<1>2. ASSUME NEW c \in Requests, Propose(c) PROVE now' = now
  BY <1>2 DEF Propose
<1>3. ASSUME NEW n \in Nodes,
             Elect(n) \/ Replicate(n) \/ Compact(n) \/ ApplyNext(n) \/ Crash(n) \/ Restart(n)
      PROVE  Quiet /\ now' = now
  BY <1>3 DEF Quiet, Elect, Replicate, Compact, ApplyNext, Crash, Restart, history
<1>4. ASSUME Tick PROVE Quiet /\ now' = now + 1
  BY <1>4 DEF Quiet, Tick, history
<1>5. ASSUME UNCHANGED vars PROVE Quiet /\ now' = now
  BY <1>5 DEF Quiet, vars
<1>6. Quiet \/ \E c \in Requests : Propose(c)
  BY <1>3, <1>4, <1>5 DEF Next
<1>7. now' = now \/ now' = now + 1
  BY <1>2, <1>3, <1>4, <1>5 DEF Next
<1> QED BY <1>1, <1>6, <1>7

\* Nothing has been executed at first.
LEMMA HistoryInit == Init => History
<1> SUFFICES ASSUME Init PROVE History
  OBVIOUS
<1>1. Len(log) = 0
  BY DEF Init
<1> QED BY <1>1 DEF History

\* Propose extends the execution, and no step changes its past.
LEMMA HistoryStep == TypeInv /\ History /\ [Next]_vars => History'
<1> SUFFICES ASSUME TypeInv, History, [Next]_vars PROVE History'
  OBVIOUS
<1>1. now \in Nat /\ now >= Start /\ Start \in Nat /\ now' \in Nat /\ now <= now'
  BY QuietSteps, ReplicasAssumption DEF TypeInv, TypeOK
<1>2. \A t \in Start .. now : t \in Start .. now'
  BY <1>1
<1>3. ASSUME Quiet PROVE History'
  BY <1>2, <1>3 DEF Quiet, History
<1>4. ASSUME NEW c \in Requests, Propose(c) PROVE History'
  <2> DEFINE n == Len(log)
             Done(i, t) == \E o \in applyCmdInTxn(states[i], t, log[i]) :
                               states[i + 1] = o.db /\ replies[i] = o.reply
  <2>1. /\ n \in Nat /\ Len(log') = n + 1
        /\ log'[n + 1] = c /\ \A i \in 1 .. n : log'[i] = log[i]
        /\ \A i \in 1 .. (n + 1) : states'[i] = states[i]
        /\ \E o \in applyCmdInTxn(states[n + 1], now, c) :
             states'[n + 2] = o.db /\ replies'[n + 1] = o.reply
        /\ \A i \in 1 .. n : replies'[i] = replies[i]
    BY <1>4, ProposeShape
  <2>2. ASSUME NEW i \in 1 .. n
        PROVE  \E t \in Start .. now' : \E o \in applyCmdInTxn(states'[i], t, log'[i]) :
                  states'[i + 1] = o.db /\ replies'[i] = o.reply
    <3>1. /\ states'[i] = states[i] /\ states'[i + 1] = states[i + 1]
          /\ log'[i] = log[i] /\ replies'[i] = replies[i]
      BY <2>1
    <3> QED BY <1>2, <3>1 DEF History
  <2>3. \E t \in Start .. now' :
          \E o \in applyCmdInTxn(states'[n + 1], t, log'[n + 1]) :
             states'[(n + 1) + 1] = o.db /\ replies'[n + 1] = o.reply
    <3>1. now \in Start .. now' /\ states'[n + 1] = states[n + 1] /\ (n + 1) + 1 = n + 2
      BY <1>1, <2>1
    <3> QED BY <2>1, <3>1
  <2> HIDE DEF n
  <2>4. \A i \in 1 .. (n + 1) : i = n + 1 \/ i \in 1 .. n
    BY <2>1
  <2> QED BY <2>1, <2>2, <2>3, <2>4 DEF History
<1> QED BY <1>3, <1>4, QuietSteps

(***************************************************************************)
(* Determined commands.                                                    *)
(***************************************************************************)
\* What held of every entry still does when the log grows.
LEMMA EveryShrinks ==
    ASSUME TypeInv, NEW c \in Requests, Propose(c)
    PROVE  /\ Every(Determined)' => Every(Determined) /\ Determined(c)
           /\ Every(Blind)' => Every(Blind) /\ Blind(c)
<1>1. /\ Len(log) \in Nat /\ Len(log') = Len(log) + 1 /\ log'[Len(log) + 1] = c
      /\ \A i \in 1 .. Len(log) : log'[i] = log[i]
      /\ log' \in Seq(Requests) /\ log \in Seq(Requests)
  BY ProposeShape DEF TypeInv, TypeOK
<1>2. /\ DOMAIN log = 1 .. Len(log) /\ DOMAIN log' = 1 .. (Len(log) + 1)
      /\ Len(log) + 1 \in DOMAIN log' /\ DOMAIN log \subseteq DOMAIN log'
  BY <1>1
<1>3. ASSUME Every(Determined)' PROVE Every(Determined) /\ Determined(c)
  <2>1. \A i \in DOMAIN log' : Determined(log'[i])
    BY <1>3 DEF Every, Determined
  <2> QED BY <1>1, <1>2, <2>1 DEF Every
<1>4. ASSUME Every(Blind)' PROVE Every(Blind) /\ Blind(c)
  <2>1. \A i \in DOMAIN log' : Blind(log'[i])
    BY <1>4 DEF Every, Blind
  <2> QED BY <1>1, <1>2, <2>1 DEF Every
<1> QED BY <1>3, <1>4

\* A determined command has one outcome, whenever a node applies it.
LEMMA DeterminedOutcome ==
    ASSUME NEW d, Good(d), Timeless(d), NEW c \in Requests, Determined(c),
           NEW t, NEW u, NEW o \in applyCmdInTxn(d, t, c), NEW p \in applyCmdInTxn(d, u, c)
    PROVE  o = p /\ Timeless(o.db)
<1>1. c \in CommandSpace /\ d \in Databases
  BY ReplicasAssumption DEF Good
<1>2. PICK q : /\ applyCmdInTxn(d, t, c) = {q} /\ applyCmdInTxn(d, u, c) = {q}
               /\ Timeless(q.db)
  BY <1>1, ApplyTimeless DEF Determined
<1> QED BY <1>2

\* The databases and the replies of every node are those of the history.
Agreement == crashes = 0 /\ Every(Determined) =>
    /\ \A n \in Nodes : db[n] = states[applied[n] + 1]
    /\ \A i \in 1 .. Len(log) : answers[i] # None => answers[i] = replies[i]

DeterminedInv == NoLifetimes /\ Agreement

\* At first there is nothing to disagree about.
LEMMA DeterminedInit == Init => DeterminedInv
<1> SUFFICES ASSUME Init PROVE DeterminedInv
  OBVIOUS
<1>1. Len(log) = 0 /\ states[1] = EmptyDB /\ \A n \in Nodes : db[n] = EmptyDB /\ applied[n] = 0
  BY DEF Init
<1> QED BY <1>1, EmptyGood DEF DeterminedInv, NoLifetimes, Agreement

\* The database of a node that applies a determined command stays without
\* lifetimes, and follows the history if it did.
LEMMA DeterminedApply ==
    ASSUME TypeInv, History, Every(Determined), NoLifetimes, NEW n \in Nodes, ApplyNext(n)
    PROVE  LET i == applied[n] + 1
           IN  \E o \in applyCmdInTxn(db[n], now, log[i]) :
                 /\ db' = [db EXCEPT ![n] = o.db] /\ Timeless(o.db)
                 /\ \/ UNCHANGED answers
                    \/ answers' = [answers EXCEPT ![i] = o.reply]
                 /\ db[n] = states[i] => o.db = states[i + 1] /\ o.reply = replies[i]
<1> DEFINE i == applied[n] + 1
<1>1. i \in 1 .. Len(log) /\ log[i] \in Requests
  BY ApplyShape
<1>2. PICK o \in applyCmdInTxn(db[n], now, log[i]) :
        /\ db' = [db EXCEPT ![n] = o.db]
        /\ UNCHANGED answers \/ answers' = [answers EXCEPT ![i] = o.reply]
  BY ApplyShape
<1>3. Determined(log[i])
  <2>1. DOMAIN log = 1 .. Len(log)
    BY DEF TypeInv, TypeOK
  <2> QED BY <1>1, <2>1 DEF Every
<1>4. Good(db[n]) /\ Timeless(db[n])
  BY DEF TypeInv, AllGood, NoLifetimes
<1> HIDE DEF i
<1>5. Timeless(o.db)
  BY <1>1, <1>2, <1>3, <1>4, DeterminedOutcome
<1>6. ASSUME db[n] = states[i] PROVE o.db = states[i + 1] /\ o.reply = replies[i]
  <2>1. PICK t \in Start .. now : \E p \in applyCmdInTxn(states[i], t, log[i]) :
                                     states[i + 1] = p.db /\ replies[i] = p.reply
    BY <1>1 DEF History
  <2>2. PICK p \in applyCmdInTxn(db[n], t, log[i]) :
               states[i + 1] = p.db /\ replies[i] = p.reply
    BY <1>6, <2>1
  <2>3. o = p
    BY <1>1, <1>2, <1>3, <1>4, <2>2, DeterminedOutcome
  <2> QED BY <2>2, <2>3
<1> QED BY <1>2, <1>5, <1>6 DEF i

\* Every step keeps the agreement with the history.
LEMMA DeterminedStep ==
    TypeInv /\ History /\ DeterminedInv /\ [Next]_vars => DeterminedInv'
<1> SUFFICES ASSUME TypeInv, History, DeterminedInv, [Next]_vars PROVE DeterminedInv'
  OBVIOUS
<1>0. /\ NoLifetimes /\ Agreement /\ Len(log) \in Nat
      /\ applied \in [Nodes -> Nat] /\ db \in [Nodes -> Databases]
      /\ \A n \in Nodes : applied[n] + 1 \in 1 .. (Len(log) + 1)
  BY DEF DeterminedInv, TypeInv, TypeOK
<1>1. ASSUME NEW c \in Requests, Propose(c) PROVE DeterminedInv'
  <2> DEFINE n == Len(log)
  <2>1. /\ n \in Nat /\ Len(log') = n + 1
        /\ \A i \in 1 .. (n + 1) : states'[i] = states[i]
        /\ \E o \in applyCmdInTxn(states[n + 1], now, c) : states'[n + 2] = o.db
        /\ \A i \in 1 .. n : replies'[i] = replies[i]
        /\ answers'[n + 1] = None
        /\ \A i \in 1 .. n : answers'[i] = answers[i]
    BY <1>1, ProposeShape
  <2>2. UNCHANGED <<applied, db, crashes>>
    BY <1>1 DEF Propose
  <2> SUFFICES ASSUME Every(Determined)' PROVE DeterminedInv'
    BY DEF DeterminedInv, NoLifetimes, Agreement
  <2>3. Every(Determined) /\ Determined(c)
    BY <1>1, EveryShrinks
  <2>4. Timeless(states'[n + 2])
    <3>1. Good(states[n + 1]) /\ Timeless(states[n + 1])
      BY <1>0, <2>3 DEF TypeInv, AllGood, NoLifetimes
    <3> QED BY <2>1, <2>3, <3>1, DeterminedOutcome
  <2>5. \A i \in 1 .. (n + 1) : Timeless(states'[i])
    BY <1>0, <2>1, <2>3 DEF NoLifetimes
  <2>6. \A i \in 1 .. ((n + 1) + 1) : Timeless(states'[i])
    BY <2>1, <2>4, <2>5
  <2>7. NoLifetimes'
    BY <1>0, <2>1, <2>2, <2>3, <2>6 DEF NoLifetimes
  <2>8. Agreement'
    BY <1>0, <2>1, <2>2, <2>3 DEF Agreement
  <2> QED BY <2>7, <2>8 DEF DeterminedInv
<1>2. ASSUME NEW n \in Nodes, ApplyNext(n) PROVE DeterminedInv'
  <2> DEFINE i == applied[n] + 1
  <2>1. /\ UNCHANGED <<log, crashes, states, replies>>
        /\ applied' = [applied EXCEPT ![n] = i] /\ i \in 1 .. Len(log)
    BY <1>2, ApplyShape DEF ApplyNext, history
  <2> SUFFICES ASSUME Every(Determined)' PROVE DeterminedInv'
    BY DEF DeterminedInv, NoLifetimes, Agreement
  <2>2. Every(Determined)
    BY <2>1 DEF Every, Determined
  <2>3. PICK o \in applyCmdInTxn(db[n], now, log[i]) :
          /\ db' = [db EXCEPT ![n] = o.db] /\ Timeless(o.db)
          /\ UNCHANGED answers \/ answers' = [answers EXCEPT ![i] = o.reply]
          /\ db[n] = states[i] => o.db = states[i + 1] /\ o.reply = replies[i]
    BY <1>0, <1>2, <2>2, DeterminedApply
  <2>4. NoLifetimes'
    BY <1>0, <2>1, <2>2, <2>3 DEF NoLifetimes
  <2>5. ASSUME crashes = 0
        PROVE  /\ \A m \in Nodes : db'[m] = states[applied'[m] + 1]
               /\ \A j \in 1 .. Len(log) : answers'[j] # None => answers'[j] = replies[j]
    <3>1. db[n] = states[i] /\ \A m \in Nodes : db[m] = states[applied[m] + 1]
      BY <1>0, <2>2, <2>5 DEF Agreement
    <3>2. \A j \in 1 .. Len(log) : answers[j] # None => answers[j] = replies[j]
      BY <1>0, <2>2, <2>5 DEF Agreement
    <3>3. \A m \in Nodes : db'[m] = states[applied'[m] + 1]
      BY <1>0, <2>1, <2>3, <3>1
    <3>4. Arr(answers, Len(log))
      BY DEF TypeInv, AllGood
    <3> HIDE DEF i
    <3>5. \A j \in 1 .. Len(log) : answers'[j] # None => answers'[j] = replies[j]
      BY <2>1, <2>3, <3>1, <3>2, <3>4 DEF Arr
    <3> QED BY <3>3, <3>5
  <2>6. Agreement'
    BY <2>1, <2>5 DEF Agreement
  <2> QED BY <2>4, <2>6 DEF DeterminedInv
<1>3. ASSUME UNCHANGED <<log, states, replies, answers, db>>,
             crashes' = 0 => UNCHANGED <<applied, crashes>>
      PROVE  DeterminedInv'
  <2>1. Every(Determined)' => Every(Determined)
    BY <1>3 DEF Every, Determined
  <2>2. NoLifetimes'
    BY <1>0, <1>3, <2>1 DEF NoLifetimes
  <2>3. Agreement'
    BY <1>0, <1>3, <2>1 DEF Agreement
  <2> QED BY <2>2, <2>3 DEF DeterminedInv
<1>4. ASSUME NEW n \in Nodes, Restart(n) PROVE crashes' # 0
  BY <1>4 DEF Restart, TypeInv, NoCrashAllUp
<1>5. ASSUME NEW n \in Nodes, Crash(n) PROVE crashes' # 0
  BY <1>5 DEF Crash, TypeInv, TypeOK
<1>6. \/ \E c \in Requests : Propose(c)
      \/ \E n \in Nodes : ApplyNext(n)
      \/ /\ UNCHANGED <<log, states, replies, answers, db>>
         /\ crashes' = 0 => UNCHANGED <<applied, crashes>>
  BY <1>4, <1>5 DEF Next, Elect, Replicate, Compact, Crash, Restart, Tick, history, vars
<1> QED BY <1>1, <1>2, <1>3, <1>6

\* As long as no node restarts, and with commands that set no lifetime and take no
\* random member, every node holds the database of one execution of the log,
\* whoever leads and however late a node applies it.
THEOREM ReplicasAreConsistent == Spec => [](crashes = 0 => PrefixConsistency)
<1>1. DeterminedInv => (crashes = 0 => PrefixConsistency)
  BY DEF DeterminedInv, Agreement, PrefixConsistency
<1> QED BY <1>1, TypeInit, TypeStep, HistoryInit, HistoryStep, DeterminedInit,
           DeterminedStep, PTL DEF Spec

\* And clients are given the replies of that one execution.
THEOREM RepliesAreConsistent == Spec => [](crashes = 0 => WritesAreLinearizable)
<1>1. TypeInv /\ DeterminedInv => (crashes = 0 => WritesAreLinearizable)
  BY DEF TypeInv, TypeOK, DeterminedInv, Agreement, WritesAreLinearizable
<1> QED BY <1>1, TypeInit, TypeStep, HistoryInit, HistoryStep, DeterminedInit,
           DeterminedStep, PTL DEF Spec

(***************************************************************************)
(* Blind commands.                                                         *)
(***************************************************************************)
\* The value a blind command writes to a key, and for how long.
Written(c, k) ==
    LET at == {i \in DOMAIN c.pairs : c.pairs[i][1] = k}
    IN  IF c.op = "SET" THEN Str(c.val)
        ELSE Str(c.pairs[CHOOSE i \in at : \A j \in at : j <= i][2])
Lifetime(c) == IF c.op = "SET" THEN c.ttl ELSE 0

\* What a blind command makes of the entry of a key: its old value plays no part.
After(e, t, c, k) ==
    IF Writes(c, k)
    THEN [val |-> Written(c, k),
          exp |-> IF Lifetime(c) > 0 THEN WithTTL(t, Lifetime(c)) ELSE 0]
    ELSE IF Erases(c, k) /\ Live(e, t) THEN None ELSE e

\* A blind command never fails where only strings are stored, and does to every
\* key what After says.
LEMMA BlindOutcome ==
    ASSUME NEW d \in Databases, StringTags(d), NEW t, NEW c \in CommandSpace, Blind(c),
           NEW o \in applyCmdInTxn(d, t, c)
    PROVE  StringTags(o.db) /\ \A k \in Keys : o.db.K[k] = After(d.K[k], t, c, k)
<1>0. c \in SetCommands \/ c \in MSetCommands \/ c \in DelCommands \/ c \in FlushCommands
  BY DEF Blind, CommandSpace, SetCommands, TextCommands, MSetCommands, DelCommands,
         FlushCommands, IncrCommands, ExpireCommands, PersistCommands, HSetCommands,
         AddCommands, RemoveCommands, PopCommands, LTrimCommands, LRemCommands
<1>1. CASE c \in SetCommands
  <2>1. c.op = "SET" /\ c.key \in Keys /\ o = SET(d, t, c) /\ c.cond = ""
    BY <1>1 DEF SetCommands, applyCmdInTxn, Blind
  <2>2. ~WrongType(d, t, c.key, "string") /\ ~DecodeFails(d, t, c.key, "string")
    BY <2>1 DEF WrongType, DecodeFails, ensureExistingType, getExistingType, StringTags, Live
  <2>3. setKey(c, Exists(d, t, c.key))
    BY <2>1 DEF setKey
  <2>4. o.db = setValue(d, t, c.key, Str(c.val), "string", c.ttl)
    BY <2>1, <2>2, <2>3 DEF SET, Typed, Outcome
  <2> DEFINE exp == IF c.ttl > 0 THEN WithTTL(t, c.ttl) ELSE 0
  <2>5. /\ o.db.K[c.key] = [val |-> Str(c.val), exp |-> exp]
        /\ o.db.T[c.key] = [val |-> "string", exp |-> exp]
        /\ \A j \in Keys : j # c.key => o.db.K[j] = d.K[j] /\ o.db.T[j] = d.T[j]
    <3>1. /\ o.db.K = [d.K EXCEPT ![c.key] = [val |-> Str(c.val), exp |-> exp]]
          /\ o.db.T = [d.T EXCEPT ![c.key] = [val |-> "string", exp |-> exp]]
      BY <2>4 DEF setValue
    <3>2. DOMAIN d.K = Keys /\ DOMAIN d.T = Keys
      BY DEF Databases
    <3> HIDE DEF exp
    <3> QED BY <2>1, <3>1, <3>2
  <2>6. After(d.K[c.key], t, c, c.key) = [val |-> Str(c.val), exp |-> exp]
    BY <2>1 DEF After, Writes, Written, Lifetime
  <2>7. \A j \in Keys : j # c.key => After(d.K[j], t, c, j) = d.K[j]
    BY <2>1 DEF After, Writes, Erases
  <2> HIDE DEF exp
  <2> QED BY <2>5, <2>6, <2>7 DEF StringTags
<1>2. CASE c \in MSetCommands
  <2> DEFINE at(k)  == {i \in DOMAIN c.pairs : c.pairs[i][1] = k}
             val(k) == c.pairs[CHOOSE i \in at(k) : \A j \in at(k) : j <= i][2]
  <2>1. c.op = "MSET" /\ o = MSET(d, t, c)
    BY <1>2 DEF MSetCommands, applyCmdInTxn
  <2>2. /\ o.db.K = [k \in Keys |-> IF at(k) = {} THEN d.K[k]
                                    ELSE [val |-> Str(val(k)), exp |-> 0]]
        /\ o.db.T = [k \in Keys |-> IF at(k) = {} THEN d.T[k]
                                    ELSE [val |-> "string", exp |-> 0]]
    BY <2>1 DEF MSET, Outcome
  <2>3. ASSUME NEW k \in Keys
        PROVE  /\ Writes(c, k) <=> at(k) # {}
               /\ Written(c, k) = Str(val(k)) /\ ~Erases(c, k) /\ ~(Lifetime(c) > 0)
    BY <2>1 DEF Writes, Written, Erases, Lifetime
  <2> HIDE DEF at, val
  <2>4. \A k \in Keys : o.db.K[k] = After(d.K[k], t, c, k)
    BY <2>2, <2>3 DEF After
  <2>5. StringTags(o.db)
    BY <2>2 DEF StringTags
  <2> QED BY <2>4, <2>5
<1>3. CASE c \in DelCommands
  <2> DEFINE gone == {k \in Keys : (\E i \in DOMAIN c.keys : c.keys[i] = k)
                                   /\ Exists(d, t, k)}
  <2>1. c.op = "DEL" /\ c.key = None /\ o = DEL(d, t, c)
    BY <1>3 DEF DelCommands, applyCmdInTxn
  <2>2. o.db = Delete(d, gone)
    BY <2>1 DEF DEL, Outcome
  <2>3. \A k \in Keys : k \in gone <=> Erases(c, k) /\ Live(d.K[k], t)
    BY <2>1 DEF Erases, Exists
  <2>4. \A k \in Keys : ~Writes(c, k)
    BY <2>1 DEF Writes
  <2> HIDE DEF gone
  <2>5. \A k \in Keys : /\ o.db.K[k] = IF k \in gone THEN None ELSE d.K[k]
                        /\ o.db.T[k] = IF k \in gone THEN None ELSE d.T[k]
    BY <2>2 DEF Delete
  <2> QED BY <2>3, <2>4, <2>5 DEF After, StringTags
<1>4. CASE c \in FlushCommands
  <2>1. c.op = "FLUSHDB" /\ o = FLUSHDB(d, t, c)
    BY <1>4 DEF FlushCommands, applyCmdInTxn
  <2>2. \A k \in Keys : /\ o.db.K[k] = IF Live(d.K[k], t) THEN None ELSE d.K[k]
                        /\ o.db.T[k] = IF Live(d.T[k], t) THEN None ELSE d.T[k]
    BY <2>1 DEF FLUSHDB, Outcome
  <2>3. \A k \in Keys : Erases(c, k) /\ ~Writes(c, k)
    BY <2>1 DEF Erases, Writes
  <2> QED BY <2>2, <2>3 DEF After, StringTags
<1> QED BY <1>0, <1>1, <1>2, <1>3, <1>4

\* What a blind command writes is a string.
LEMMA WrittenType ==
    ASSUME NEW c \in CommandSpace, Blind(c), NEW k
    PROVE  Lifetime(c) \in Int /\ (Writes(c, k) => Written(c, k) \in Values)
<1>0. c \in SetCommands \/ c \in MSetCommands \/ c \in DelCommands \/ c \in FlushCommands
  BY DEF Blind, CommandSpace, SetCommands, TextCommands, MSetCommands, DelCommands,
         FlushCommands, IncrCommands, ExpireCommands, PersistCommands, HSetCommands,
         AddCommands, RemoveCommands, PopCommands, LTrimCommands, LRemCommands
<1>1. CASE c \in SetCommands
  BY <1>1, TextType, StrValue DEF SetCommands, Lifetime, Written
<1>2. CASE c \in MSetCommands
  <2> DEFINE at == {i \in DOMAIN c.pairs : c.pairs[i][1] = k}
             m  == CHOOSE i \in at : \A j \in at : j <= i
  <2>1. c.op = "MSET" /\ c.pairs \in Seq(Keys \X Texts)
    BY <1>2 DEF MSetCommands
  <2>2. ASSUME Writes(c, k) PROVE Written(c, k) \in Values
    <3>1. at \in SUBSET (1 .. Len(c.pairs)) /\ Len(c.pairs) \in Nat /\ at # {}
      BY <2>1, <2>2 DEF Writes
    <3>2. \E i \in at : \A j \in at : j <= i
      BY <3>1, GreatestElement
    <3>3. m \in at
      BY <3>2
    <3>4. Written(c, k) = Str(c.pairs[m][2])
      BY <2>1 DEF Written
    <3> HIDE DEF at, m
    <3>5. c.pairs[m] \in Keys \X Texts
      BY <2>1, <3>1, <3>3
    <3> QED BY <3>4, <3>5, TextType, StrValue
  <2> QED BY <2>1, <2>2 DEF Lifetime
<1>3. CASE c \in DelCommands \/ c \in FlushCommands
  BY <1>3 DEF DelCommands, FlushCommands, Lifetime, Writes
<1> QED BY <1>0, <1>1, <1>2, <1>3

\* A lifetime that starts later ends no earlier, and never at the second 0, which
\* stands for no end.
LEMMA WithTTLMonotone ==
    ASSUME NEW t \in Nat, NEW u \in Nat, TicksPerSec <= t, t <= u, NEW l \in Nat \ {0}
    PROVE  /\ WithTTL(t, l) \in Nat \ {0} /\ WithTTL(u, l) \in Nat \ {0}
           /\ WithTTL(t, l) <= WithTTL(u, l)
<1>1. l * TicksPerMs \in Nat
  BY ClockAssumption
<1>2. TicksPerSec \in Nat \ {0}
  BY TicksPerSecType
<1> DEFINE x == t + l * TicksPerMs
           y == u + l * TicksPerMs
<1>3. x \in Nat /\ y \in Nat /\ TicksPerSec <= x /\ x <= y
  BY <1>1, <1>2
<1> HIDE DEF x, y
<1>4. TicksPerSec \div TicksPerSec = 1
  BY <1>2
<1>5. 1 <= x \div TicksPerSec /\ x \div TicksPerSec <= y \div TicksPerSec
  BY <1>2, <1>3, <1>4, DivMonotone
<1>6. x \div TicksPerSec \in Nat /\ y \div TicksPerSec \in Nat
  BY <1>2, <1>3, DivNat
<1>7. WithTTL(t, l) = x \div TicksPerSec /\ WithTTL(u, l) = y \div TicksPerSec
  BY DEF WithTTL, x, y
<1> QED BY <1>5, <1>6, <1>7

\* How the entry of a key on a node may lag behind that of the history.
Late(mine, ref, t) ==
    /\ Live(mine, t) => ref # None /\ ref.val = mine.val
    /\ Live(ref, t) => /\ mine # None /\ mine.val = ref.val
                       /\ IF ref.exp = 0 THEN mine.exp = 0 ELSE mine.exp >= ref.exp

\* The clock only helps.
LEMMA LateLater ==
    ASSUME NEW mine \in ValueEntries \cup {None}, NEW ref \in ValueEntries \cup {None},
           NEW t \in Nat, NEW u \in Nat, t <= u, Late(mine, ref, t)
    PROVE  Late(mine, ref, u)
<1>1. (Live(mine, u) => Live(mine, t)) /\ (Live(ref, u) => Live(ref, t))
  BY LiveBefore
<1> QED BY <1>1 DEF Late

\* A node that applies a blind command, no earlier than the history did, lags as
\* before.
LEMMA LateApply ==
    ASSUME NEW mine \in ValueEntries \cup {None}, NEW ref \in ValueEntries \cup {None},
           NEW t \in Nat, NEW u \in Nat, TicksPerSec <= t, t <= u,
           NEW c, NEW k, Lifetime(c) \in Int, Late(mine, ref, u),
           Writes(c, k) => Written(c, k) \in Values
    PROVE  Late(After(mine, u, c, k), After(ref, t, c, k), u)
<1>1. CASE Writes(c, k)
  <2> DEFINE em == IF Lifetime(c) > 0 THEN WithTTL(u, Lifetime(c)) ELSE 0
             er == IF Lifetime(c) > 0 THEN WithTTL(t, Lifetime(c)) ELSE 0
             m  == [val |-> Written(c, k), exp |-> em]
             r  == [val |-> Written(c, k), exp |-> er]
  <2>1. em \in Nat /\ er \in Nat /\ IF er = 0 THEN em = 0 ELSE em >= er
    BY WithTTLMonotone
  <2> HIDE DEF em, er
  <2>2. After(mine, u, c, k) = m /\ After(ref, t, c, k) = r
    BY <1>1 DEF After, em, er
  <2>3. m # None /\ r # None
    <3>1. m \in ValueEntries /\ r \in ValueEntries
      BY <1>1, <2>1 DEF ValueEntries
    <3> QED BY <3>1, NoneAssumption
  <2> QED BY <2>1, <2>2, <2>3 DEF Late
<1>2. CASE ~Writes(c, k) /\ Erases(c, k)
  <2>1. Live(ref, u) => Live(ref, t)
    BY LiveBefore
  <2>2. ~Live(After(mine, u, c, k), u)
    BY <1>2 DEF After, Live
  <2>3. ~Live(After(ref, t, c, k), u)
    BY <1>2, <2>1 DEF After, Live
  <2> QED BY <2>2, <2>3 DEF Late
<1>3. CASE ~Writes(c, k) /\ ~Erases(c, k)
  BY <1>3 DEF After
<1> QED BY <1>1, <1>2, <1>3

\* Every node lags behind the history as Late says.
Lag == crashes = 0 /\ Every(Blind) => \A n \in Nodes, k \in Keys :
    Late(db[n].K[k], states[applied[n] + 1].K[k], now)

BlindInv == OnlyStrings /\ Lag

\* At first there is nothing to lag behind.
LEMMA BlindInit == Init => BlindInv
<1> SUFFICES ASSUME Init PROVE BlindInv
  OBVIOUS
<1>1. Len(log) = 0 /\ states[1] = EmptyDB /\ \A n \in Nodes : db[n] = EmptyDB /\ applied[n] = 0
  BY DEF Init
<1>2. Late(None, None, now)
  BY DEF Late, Live
<1> QED BY <1>1, <1>2, EmptyGood DEF BlindInv, OnlyStrings, Lag

\* What blind commands make of a database of a node, and of the history.
LEMMA BlindApply ==
    ASSUME TypeInv, History, Every(Blind), OnlyStrings, NEW n \in Nodes, ApplyNext(n)
    PROVE  LET i == applied[n] + 1
           IN  \E d : /\ db' = [db EXCEPT ![n] = d] /\ StringTags(d)
                      /\ \A k \in Keys : d.K[k] = After(db[n].K[k], now, log[i], k)
                      /\ \E t \in Start .. now : \A k \in Keys :
                           states[i + 1].K[k] = After(states[i].K[k], t, log[i], k)
<1> DEFINE i == applied[n] + 1
<1>1. i \in 1 .. Len(log) /\ log[i] \in Requests
  BY ApplyShape
<1>2. PICK o \in applyCmdInTxn(db[n], now, log[i]) : db' = [db EXCEPT ![n] = o.db]
  BY ApplyShape
<1>3. Blind(log[i]) /\ log[i] \in CommandSpace
  <2>1. DOMAIN log = 1 .. Len(log)
    BY DEF TypeInv, TypeOK
  <2> QED BY <1>1, <2>1, ReplicasAssumption DEF Every
<1>4. db[n] \in Databases /\ StringTags(db[n])
  BY DEF TypeInv, TypeOK, OnlyStrings
<1>5. states[i] \in Databases /\ StringTags(states[i])
  <2>1. i \in 1 .. (Len(log) + 1) /\ Len(log) \in Nat
    BY <1>1 DEF TypeInv, TypeOK
  <2> QED BY <2>1 DEF TypeInv, AllGood, Good, OnlyStrings
<1> HIDE DEF i
<1>6. StringTags(o.db) /\ \A k \in Keys : o.db.K[k] = After(db[n].K[k], now, log[i], k)
  BY <1>2, <1>3, <1>4, BlindOutcome
<1>7. PICK t \in Start .. now : \E p \in applyCmdInTxn(states[i], t, log[i]) :
                                   states[i + 1] = p.db
  BY <1>1 DEF History
<1>8. \A k \in Keys : states[i + 1].K[k] = After(states[i].K[k], t, log[i], k)
  BY <1>3, <1>5, <1>7, BlindOutcome
<1> QED BY <1>2, <1>6, <1>8 DEF i

\* Every step keeps the lag.
LEMMA BlindStep == TypeInv /\ History /\ BlindInv /\ [Next]_vars => BlindInv'
<1> SUFFICES ASSUME TypeInv, History, BlindInv, [Next]_vars PROVE BlindInv'
  OBVIOUS
<1>0. /\ OnlyStrings /\ Lag /\ Len(log) \in Nat /\ now \in Nat
      /\ applied \in [Nodes -> Nat] /\ db \in [Nodes -> Databases]
      /\ \A n \in Nodes : applied[n] + 1 \in 1 .. (Len(log) + 1)
  BY DEF BlindInv, TypeInv, TypeOK
<1>10. ASSUME NEW n \in Nodes, NEW k \in Keys
       PROVE  /\ db[n].K[k] \in ValueEntries \cup {None}
              /\ \A i \in 1 .. (Len(log) + 1) : states[i].K[k] \in ValueEntries \cup {None}
  BY <1>0, DatabaseFields DEF TypeInv, AllGood, Good
<1>1. ASSUME NEW c \in Requests, Propose(c) PROVE BlindInv'
  <2> DEFINE n == Len(log)
  <2>1. /\ n \in Nat /\ Len(log') = n + 1
        /\ \A i \in 1 .. (n + 1) : states'[i] = states[i]
        /\ \E o \in applyCmdInTxn(states[n + 1], now, c) : states'[n + 2] = o.db
    BY <1>1, ProposeShape
  <2>2. UNCHANGED <<now, applied, db, crashes>>
    BY <1>1 DEF Propose
  <2> SUFFICES ASSUME Every(Blind)' PROVE BlindInv'
    BY DEF BlindInv, OnlyStrings, Lag
  <2>3. Every(Blind) /\ Blind(c) /\ c \in CommandSpace
    BY <1>1, EveryShrinks, ReplicasAssumption
  <2>4. StringTags(states'[n + 2])
    <3>1. states[n + 1] \in Databases /\ StringTags(states[n + 1])
      BY <1>0, <2>3 DEF TypeInv, AllGood, Good, OnlyStrings
    <3> QED BY <2>1, <2>3, <3>1, BlindOutcome
  <2>5. \A i \in 1 .. (n + 1) : StringTags(states'[i])
    BY <1>0, <2>1, <2>3 DEF OnlyStrings
  <2>6. \A i \in 1 .. ((n + 1) + 1) : StringTags(states'[i])
    BY <2>1, <2>4, <2>5
  <2>7. OnlyStrings'
    BY <1>0, <2>1, <2>2, <2>3, <2>6 DEF OnlyStrings
  <2>8. Lag'
    BY <1>0, <2>1, <2>2, <2>3 DEF Lag
  <2> QED BY <2>7, <2>8 DEF BlindInv
<1>2. ASSUME NEW n \in Nodes, ApplyNext(n) PROVE BlindInv'
  <2> DEFINE i == applied[n] + 1
  <2>1. /\ UNCHANGED <<now, log, crashes, states>>
        /\ applied' = [applied EXCEPT ![n] = i] /\ i \in 1 .. Len(log) /\ log[i] \in Requests
    BY <1>2, ApplyShape DEF ApplyNext, history
  <2> SUFFICES ASSUME Every(Blind)' PROVE BlindInv'
    BY DEF BlindInv, OnlyStrings, Lag
  <2>2. Every(Blind)
    BY <2>1 DEF Every, Blind
  <2>3. PICK d : /\ db' = [db EXCEPT ![n] = d] /\ StringTags(d)
                 /\ \A k \in Keys : d.K[k] = After(db[n].K[k], now, log[i], k)
                 /\ \E t \in Start .. now : \A k \in Keys :
                      states[i + 1].K[k] = After(states[i].K[k], t, log[i], k)
    BY <1>0, <1>2, <2>2, BlindApply
  <2>4. OnlyStrings'
    BY <1>0, <2>1, <2>2, <2>3 DEF OnlyStrings
  <2>5. ASSUME crashes = 0, NEW k \in Keys
        PROVE  Late(d.K[k], states[i + 1].K[k], now)
    <3>1. Late(db[n].K[k], states[i].K[k], now)
      BY <1>0, <2>2, <2>5 DEF Lag
    <3>2. PICK t \in Start .. now :
            states[i + 1].K[k] = After(states[i].K[k], t, log[i], k)
      BY <2>3
    <3>3. t \in Nat /\ TicksPerSec <= t /\ t <= now
      BY <1>0, ReplicasAssumption, TicksPerSecType
    <3>4. db[n].K[k] \in ValueEntries \cup {None} /\ states[i].K[k] \in ValueEntries \cup {None}
      BY <1>0, <1>10
    <3>5. Blind(log[i]) /\ log[i] \in CommandSpace
      <4>1. DOMAIN log = 1 .. Len(log)
        BY DEF TypeInv, TypeOK
      <4> QED BY <2>1, <2>2, <4>1, ReplicasAssumption DEF Every
    <3>6. Lifetime(log[i]) \in Int /\ (Writes(log[i], k) => Written(log[i], k) \in Values)
      BY <3>5, WrittenType
    <3> HIDE DEF i
    <3>7. Late(After(db[n].K[k], now, log[i], k), After(states[i].K[k], t, log[i], k), now)
      BY <1>0, <3>1, <3>3, <3>4, <3>6, LateApply
    <3> QED BY <2>3, <3>2, <3>7
  <2>6. Lag'
    <3> SUFFICES ASSUME crashes' = 0, NEW m \in Nodes, NEW k \in Keys
                 PROVE  Late(db'[m].K[k], states'[applied'[m] + 1].K[k], now')
      BY DEF Lag
    <3>1. CASE m = n
      <4>1. db'[m] = d /\ applied'[m] = i
        BY <1>0, <2>1, <2>3, <3>1
      <4> QED BY <2>1, <2>5, <4>1
    <3>2. CASE m # n
      <4>1. db'[m] = db[m] /\ applied'[m] = applied[m]
        BY <1>0, <2>1, <2>3, <3>2
      <4> QED BY <1>0, <2>1, <2>2, <4>1 DEF Lag
    <3> QED BY <3>1, <3>2
  <2> QED BY <2>4, <2>6 DEF BlindInv
<1>3. ASSUME UNCHANGED <<log, states, db>>, now' \in Nat, now <= now',
             crashes' = 0 => UNCHANGED <<applied, crashes>>
      PROVE  BlindInv'
  <2>1. Every(Blind)' => Every(Blind)
    BY <1>3 DEF Every, Blind
  <2>2. OnlyStrings'
    BY <1>0, <1>3, <2>1 DEF OnlyStrings
  <2>3. Lag'
    <3> SUFFICES ASSUME crashes' = 0, Every(Blind)', NEW m \in Nodes, NEW k \in Keys
                 PROVE  Late(db'[m].K[k], states'[applied'[m] + 1].K[k], now')
      BY DEF Lag
    <3>1. Late(db[m].K[k], states[applied[m] + 1].K[k], now)
      BY <1>0, <1>3, <2>1 DEF Lag
    <3>2. Late(db[m].K[k], states[applied[m] + 1].K[k], now')
      BY <1>0, <1>3, <1>10, <3>1, LateLater
    <3> QED BY <1>3, <3>2
  <2> QED BY <2>2, <2>3 DEF BlindInv
<1>4. ASSUME NEW n \in Nodes, Restart(n) PROVE crashes' # 0
  BY <1>4 DEF Restart, TypeInv, NoCrashAllUp
<1>5. ASSUME NEW n \in Nodes, Crash(n) PROVE crashes' # 0
  BY <1>5 DEF Crash, TypeInv, TypeOK
<1>6. \/ \E c \in Requests : Propose(c)
      \/ \E n \in Nodes : ApplyNext(n)
      \/ /\ UNCHANGED <<log, states, db>>
         /\ crashes' = 0 => UNCHANGED <<applied, crashes>>
  BY <1>4, <1>5 DEF Next, Elect, Replicate, Compact, Crash, Restart, Tick, history, vars
<1>7. now' \in Nat /\ now <= now'
  BY QuietSteps
<1> QED BY <1>1, <1>2, <1>3, <1>6, <1>7

\* With blind commands, lifetimes included, and while no node restarts: a node
\* shows no value that the execution of the log has overwritten or deleted, and
\* loses none before that execution does.
THEOREM LifetimesEndLate == Spec => [](crashes = 0 => FollowersExpireLate)
<1>1. BlindInv => (crashes = 0 => FollowersExpireLate)
  BY DEF BlindInv, Lag, Late, FollowersExpireLate
<1> QED BY <1>1, TypeInit, TypeStep, HistoryInit, HistoryStep, BlindInit, BlindStep,
           PTL DEF Spec

(***************************************************************************)
(* Blind commands without lifetimes, applied again after a restart.        *)
(***************************************************************************)
\* Such a command leaves in every key it touches the same entry, whatever was
\* there and whenever it is applied.
Fixed(c, k) == IF Writes(c, k) THEN [val |-> Written(c, k), exp |-> 0] ELSE None

\* What After comes to then.
LEMMA AfterFixed ==
    ASSUME NEW e, e # None => e.exp = 0, NEW t, NEW c, NEW k, Determined(c)
    PROVE  After(e, t, c, k) = IF Touches(c, k) THEN Fixed(c, k) ELSE e
<1>1. ~(Lifetime(c) > 0)
  BY DEF Determined, Lifetime
<1>2. Live(e, t) <=> e # None
  BY DEF Live
<1> QED BY <1>1, <1>2 DEF After, Fixed, Touches

\* At first nothing is stored.
LEMMA RestartInit == Init => Replayed
<1> SUFFICES ASSUME Init PROVE Replayed
  OBVIOUS
<1>1. Len(log) = 0 /\ states[1] = EmptyDB /\ \A n \in Nodes : db[n] = EmptyDB /\ applied[n] = 0
  BY DEF Init
<1> QED BY <1>1, EmptyGood DEF Replayed

\* Every step keeps what the keys hold.
LEMMA RestartStep ==
    TypeInv /\ History /\ NoLifetimes /\ OnlyStrings /\ Replayed /\ [Next]_vars => Replayed'
<1> SUFFICES ASSUME TypeInv, History, NoLifetimes, OnlyStrings, Replayed, [Next]_vars,
                    Every(Blind)', Every(Determined)'
             PROVE  Replayed'
  BY DEF Replayed
<1>0. /\ Len(log) \in Nat /\ now \in Nat
      /\ applied \in [Nodes -> Nat] /\ db \in [Nodes -> Databases]
      /\ \A n \in Nodes : applied[n] + 1 \in 1 .. (Len(log) + 1)
  BY DEF TypeInv, TypeOK
<1> DEFINE Mine(n, k) == \/ db[n].K[k] = states[applied[n] + 1].K[k]
                         \/ \A i \in 1 .. applied[n] : ~Touches(log[i], k)
           Logged(n, k) == db[n].K[k] # None => \E i \in 1 .. Len(log) : Touches(log[i], k)
           Untouched(i, k) == (\A j \in 1 .. (i - 1) : ~Touches(log[j], k))
                                => states[i].K[k] = None
<1>1. ASSUME NEW c \in Requests, Propose(c) PROVE Replayed'
  <2> DEFINE n == Len(log)
  <2>1. /\ n \in Nat /\ Len(log') = n + 1 /\ log'[n + 1] = c
        /\ \A i \in 1 .. n : log'[i] = log[i]
        /\ \A i \in 1 .. (n + 1) : states'[i] = states[i]
        /\ \E o \in applyCmdInTxn(states[n + 1], now, c) : states'[n + 2] = o.db
    BY <1>1, ProposeShape
  <2>2. UNCHANGED <<now, applied, db, crashes>>
    BY <1>1 DEF Propose
  <2>3. Every(Blind) /\ Blind(c) /\ Every(Determined) /\ Determined(c) /\ c \in CommandSpace
    BY <1>1, EveryShrinks, ReplicasAssumption
  <2>4. \A m \in Nodes, k \in Keys : Mine(m, k) /\ Logged(m, k)
    BY <2>3 DEF Replayed
  <2>5. \A i \in 1 .. (n + 1), k \in Keys : Untouched(i, k)
    BY <2>3 DEF Replayed
  <2>6. ASSUME NEW m \in Nodes, NEW k \in Keys PROVE Mine(m, k)' /\ Logged(m, k)'
    <3>1. \A i \in 1 .. applied[m] : i \in 1 .. n
      BY <1>0
    <3>2. Mine(m, k)'
      BY <1>0, <2>1, <2>2, <2>4, <3>1
    <3>3. Logged(m, k)'
      <4>1. ASSUME NEW i \in 1 .. n PROVE i \in 1 .. (n + 1) /\ log'[i] = log[i]
        BY <2>1
      <4> QED BY <2>1, <2>2, <2>4, <4>1
    <3> QED BY <3>2, <3>3
  <2>7. ASSUME NEW i \in 1 .. ((n + 1) + 1), NEW k \in Keys PROVE Untouched(i, k)'
    <3>1. CASE i \in 1 .. (n + 1)
      <4>1. \A j \in 1 .. (i - 1) : j \in 1 .. n
        BY <2>1, <3>1
      <4>2. states'[i] = states[i] /\ Untouched(i, k)
        BY <2>1, <2>5, <3>1
      <4> QED BY <2>1, <4>1, <4>2
    <3>2. CASE i = n + 2
      <4>1. states[n + 1] \in Databases /\ StringTags(states[n + 1]) /\ Timeless(states[n + 1])
        BY <1>0, <2>3 DEF TypeInv, AllGood, Good, OnlyStrings, NoLifetimes
      <4>2. states'[n + 2].K[k] = After(states[n + 1].K[k], now, c, k)
        BY <2>1, <2>3, <4>1, BlindOutcome
      <4>3. states'[n + 2].K[k] = IF Touches(c, k) THEN Fixed(c, k) ELSE states[n + 1].K[k]
        BY <2>3, <4>1, <4>2, AfterFixed DEF Timeless
      <4>4. ASSUME \A j \in 1 .. (i - 1) : ~Touches(log'[j], k) PROVE states'[i].K[k] = None
        <5>1. n + 1 \in 1 .. (i - 1) /\ (n + 1) - 1 = n /\ \A j \in 1 .. n : j \in 1 .. (i - 1)
          BY <2>1, <3>2
        <5>2. ~Touches(c, k) /\ \A j \in 1 .. n : ~Touches(log[j], k)
          BY <2>1, <4>4, <5>1
        <5>3. n + 1 \in 1 .. (n + 1)
          BY <2>1
        <5>4. Untouched(n + 1, k)
          BY <2>5, <5>3
        <5>5. states[n + 1].K[k] = None
          BY <5>1, <5>2, <5>4
        <5> QED BY <3>2, <4>3, <5>2, <5>5
      <4> QED BY <4>4
    <3> QED BY <2>1, <3>1, <3>2
  <2> QED BY <2>1, <2>6, <2>7 DEF Replayed
<1>2. ASSUME NEW n \in Nodes, ApplyNext(n) PROVE Replayed'
  <2> DEFINE i == applied[n] + 1
  <2>1. /\ UNCHANGED <<now, log, crashes, states>>
        /\ applied' = [applied EXCEPT ![n] = i] /\ i \in 1 .. Len(log) /\ log[i] \in Requests
    BY <1>2, ApplyShape DEF ApplyNext, history
  <2>2. Every(Blind) /\ Every(Determined)
    BY <2>1 DEF Every, Blind, Determined
  <2>3. PICK d : /\ db' = [db EXCEPT ![n] = d] /\ StringTags(d)
                 /\ \A k \in Keys : d.K[k] = After(db[n].K[k], now, log[i], k)
                 /\ \E t \in Start .. now : \A k \in Keys :
                      states[i + 1].K[k] = After(states[i].K[k], t, log[i], k)
    BY <1>2, <2>2, BlindApply
  <2>4. /\ \A m \in Nodes, k \in Keys : Mine(m, k) /\ Logged(m, k)
        /\ \A j \in 1 .. (Len(log) + 1), k \in Keys : Untouched(j, k)
    BY <2>2 DEF Replayed
  <2>5. Determined(log[i])
    <3>1. DOMAIN log = 1 .. Len(log)
      BY DEF TypeInv, TypeOK
    <3> QED BY <2>1, <2>2, <3>1 DEF Every
  <2>6. Timeless(db[n]) /\ Timeless(states[i])
    BY <1>0, <2>2 DEF NoLifetimes
  <2>7. ASSUME NEW k \in Keys
        PROVE  /\ d.K[k] = IF Touches(log[i], k) THEN Fixed(log[i], k) ELSE db[n].K[k]
               /\ states[i + 1].K[k]
                     = IF Touches(log[i], k) THEN Fixed(log[i], k) ELSE states[i].K[k]
    BY <2>3, <2>5, <2>6, AfterFixed DEF Timeless
  <2> HIDE DEF i
  <2>8. ASSUME NEW m \in Nodes, NEW k \in Keys PROVE Mine(m, k)' /\ Logged(m, k)'
    <3>1. CASE m # n
      <4>1. db'[m] = db[m] /\ applied'[m] = applied[m]
        BY <1>0, <2>1, <2>3, <3>1
      <4> QED BY <2>1, <2>4, <4>1
    <3>2. CASE m = n
      <4>1. db'[m] = d /\ applied'[m] = i
        BY <1>0, <2>1, <2>3, <3>2
      <4>2. CASE Touches(log[i], k)
        BY <2>1, <2>7, <4>1, <4>2
      <4>3. CASE ~Touches(log[i], k)
        <5>1. d.K[k] = db[n].K[k] /\ states[i + 1].K[k] = states[i].K[k]
          BY <2>7, <4>3
        <5>2. \A j \in 1 .. i : j = i \/ j \in 1 .. applied[n]
          BY <1>0 DEF i
        <5>3. Mine(n, k) /\ Logged(n, k) /\ states[applied[n] + 1] = states[i]
          BY <2>4 DEF i
        <5>4. Mine(m, k)'
          BY <2>1, <4>1, <4>3, <5>1, <5>2, <5>3
        <5>5. Logged(m, k)'
          BY <2>1, <4>1, <5>1, <5>3
        <5> QED BY <5>4, <5>5
      <4> QED BY <4>2, <4>3
    <3> QED BY <3>1, <3>2
  <2>9. \A j \in 1 .. (Len(log') + 1), k \in Keys : Untouched(j, k)'
    BY <2>1, <2>4
  <2> QED BY <2>8, <2>9 DEF Replayed
<1>3. ASSUME UNCHANGED <<log, states, db>>,
             \/ UNCHANGED applied
             \/ \E n \in Nodes : applied' = [applied EXCEPT ![n] = 0]
      PROVE  Replayed'
  <2>1. Every(Blind) /\ Every(Determined)
    BY <1>3 DEF Every, Blind, Determined
  <2>2. /\ \A m \in Nodes, k \in Keys : Mine(m, k) /\ Logged(m, k)
        /\ \A j \in 1 .. (Len(log) + 1), k \in Keys : Untouched(j, k)
    BY <2>1 DEF Replayed
  <2>3. \A m \in Nodes : applied'[m] = applied[m] \/ applied'[m] = 0
    BY <1>0, <1>3
  <2>4. ASSUME NEW m \in Nodes, NEW k \in Keys PROVE Mine(m, k)' /\ Logged(m, k)'
    <3>1. Logged(m, k)'
      BY <1>3, <2>2
    <3>2. Mine(m, k)'
      BY <1>3, <2>2, <2>3
    <3> QED BY <3>1, <3>2
  <2>5. \A j \in 1 .. (Len(log') + 1), k \in Keys : Untouched(j, k)'
    BY <1>3, <2>2
  <2> QED BY <2>4, <2>5 DEF Replayed
<1>4. \/ \E c \in Requests : Propose(c)
      \/ \E n \in Nodes : ApplyNext(n)
      \/ /\ UNCHANGED <<log, states, db>>
         /\ \/ UNCHANGED applied
            \/ \E n \in Nodes : applied' = [applied EXCEPT ![n] = 0]
  BY DEF Next, Elect, Replicate, Compact, Crash, Restart, Tick, history, vars
<1> QED BY <1>1, <1>2, <1>3, <1>4

\* A node that has applied the whole log holds what the log makes of every key.
LEMMA ReplayedConverges ==
    ASSUME TypeInv, OnlyStrings, Replayed, Every(Blind), Every(Determined)
    PROVE  ReplayConverges
<1> SUFFICES ASSUME NEW n \in up, applied[n] = Len(log)
             PROVE  View(db[n]) = View(states[Len(states)])
  BY DEF ReplayConverges
<1> DEFINE s == states[Len(states)]
<1>1. n \in Nodes /\ Len(log) \in Nat /\ Len(states) = Len(log) + 1
      /\ Len(log) + 1 \in 1 .. (Len(log) + 1) /\ (Len(log) + 1) - 1 = Len(log)
  BY DEF TypeInv, TypeOK
<1>2. s = states[Len(log) + 1] /\ StringTags(s) /\ StringTags(db[n])
  BY <1>1 DEF OnlyStrings
<1> HIDE DEF s
<1>3. ASSUME NEW k \in Keys PROVE db[n].K[k] = s.K[k]
  <2>1. CASE \A i \in 1 .. Len(log) : ~Touches(log[i], k)
    <3>1. db[n].K[k] = None
      BY <1>1, <2>1 DEF Replayed
    <3>2. s.K[k] = None
      BY <1>1, <1>2, <2>1 DEF Replayed
    <3> QED BY <3>1, <3>2
  <2>2. CASE ~ \A i \in 1 .. Len(log) : ~Touches(log[i], k)
    BY <1>1, <1>2, <2>2 DEF Replayed
  <2> QED BY <2>1, <2>2
<1>4. ASSUME NEW k \in Keys
      PROVE  /\ Exists(db[n], now, k) <=> Exists(s, now, k)
             /\ getExistingType(db[n], now, k) = "string"
             /\ getExistingType(s, now, k) = "string"
  BY <1>2, <1>3 DEF Exists, getExistingType, StringTags, Live
<1>5. View(db[n]) = View(s)
  BY <1>3, <1>4 DEF View
<1> QED BY <1>5 DEF s

\* Restarts do no harm to commands that do not look at what they overwrite and
\* set no lifetime: however often a node applied entries again, once it has applied
\* the whole log it shows its outcome.
THEOREM BlindReplayConverges ==
    Spec => [](Every(Blind) /\ Every(Determined) => ReplayConverges)
<1>1. TypeInv /\ BlindInv /\ Replayed
        => (Every(Blind) /\ Every(Determined) => ReplayConverges)
  BY ReplayedConverges DEF BlindInv
<1>2. DeterminedInv => NoLifetimes
  BY DEF DeterminedInv
<1>3. BlindInv => OnlyStrings
  BY DEF BlindInv
<1> QED BY <1>1, <1>2, <1>3, TypeInit, TypeStep, HistoryInit, HistoryStep, DeterminedInit,
           DeterminedStep, BlindInit, BlindStep, RestartInit, RestartStep, PTL DEF Spec
=============================================================================
