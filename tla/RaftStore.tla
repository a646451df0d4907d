----------------------------- MODULE RaftStore ------------------------------
(***************************************************************************)
(* The Raft log and stable store of one node (store/raft_store.go), in the *)
(* Badger database that also holds the data: one ordered keyspace, where   *)
(* the log lies under the prefix L between the values (K) and the stable   *)
(* keys, scripts (S) and type entries (T).  FirstIndex and LastIndex seek  *)
(* in that order.                                                          *)
(*                                                                         *)
(* hashicorp/raft, which calls the store, is external: its main goroutine  *)
(* stores and cuts back entries and records votes, each call one           *)
(* transaction; its snapshot goroutine compacts the log; FSM.Apply writes  *)
(* the data.  The process may die between any two transactions, and Badger *)
(* may fail any of them as a whole.  It keeps what was committed, unless   *)
(* the machine itself loses power.                                         *)
(***************************************************************************)
EXTENDS Integers

CONSTANTS
    Byte,          \* the number of values of a byte
    Others,        \* Badger keys of data and scripts
    Candidates,    \* who may ask for a vote
    Nil,           \* no entry, no value
    Data,          \* the content of a data or script entry
    MaxIndex,      \* bound on log indices
    MaxTerm,       \* bound on terms
    TrailingLogs,  \* entries a compaction leaves
    TxnLimit       \* Badger refuses a transaction of that many writes

PrefixK == 75
PrefixL == 76
PrefixS == 83
PrefixT == 84

\* An index is encoded in two bytes here, in eight in the code.
Indices == 0 .. (Byte * Byte - 1)
Terms   == 1 .. MaxTerm

StableNames  == {"CurrentTerm", "LastVoteTerm", "LastVoteCand"}
StableValues == Terms \cup Candidates

ASSUME RaftStoreAssumption ==
    /\ Byte \in Nat \ {0, 1, 2}
    /\ MaxIndex \in Nat /\ MaxIndex < Byte * Byte
    /\ MaxTerm \in Nat
    /\ TrailingLogs \in Nat \ {0}
    /\ TxnLimit \in Nat
    /\ Others \subseteq ({PrefixK, PrefixT} \X (0 .. Byte - 1) \X (0 .. Byte - 1))
                        \cup ({PrefixS} \X (0 .. Byte - 1) \X {0})
    /\ Nil \notin Terms \cup Candidates \cup {Data}
    /\ Nil \notin [index : Indices, term : Terms]
    /\ Nil \notin Int \X Int \X Int

VARIABLES
    kv,          \* the entries in Badger, by key
    up,          \* the process runs
    lastLog,     \* Raft's own record of its last index, in memory
    commit,      \* entries up to here are committed: Raft never cuts them back
    main,        \* what Raft's main goroutine is in the middle of
    snap,        \* the range the snapshot goroutine is about to delete
    granted,     \* history: the votes the node has answered with
    torn         \* history: since the start, entries were cut off and their
                 \* successors refused

vars == <<kv, up, lastLog, commit, main, snap, granted, torn>>

(***************************************************************************)
(* Keys, in Badger's order of bytes.                                       *)
(***************************************************************************)
\* Mutant: the index in little-endian order.
logKeyLittle(i) == <<PrefixL, i % Byte, i \div Byte>>

\* binary.BigEndian.PutUint64 behind the prefix, and back.
logKey(i)  == <<PrefixL, i \div Byte, i % Byte>>
indexOf(k) == k[2] * Byte + k[3]

stableKey(name) == CASE name = "CurrentTerm"  -> <<PrefixS, 0, 1>>
                     [] name = "LastVoteTerm" -> <<PrefixS, 1, 1>>
                     [] name = "LastVoteCand" -> <<PrefixS, 2, 1>>

LogKeys    == {PrefixL} \X (0 .. Byte - 1) \X (0 .. Byte - 1)
StableKeys == {stableKey(name) : name \in StableNames}
AllKeys    == Others \cup LogKeys \cup StableKeys

LessEq(j, k) ==
    \/ j[1] < k[1]
    \/ j[1] = k[1] /\ j[2] < k[2]
    \/ j[1] = k[1] /\ j[2] = k[2] /\ j[3] <= k[3]

Present(d) == {k \in AllKeys : d[k] # Nil}

\* Iterator.Seek of a one-byte key: forward to the smallest key not below it,
\* in reverse to the largest one not above it.
Seek(d, prefix) ==
    LET from  == {k \in Present(d) : k[1] >= prefix}
        least == {k \in from : \A j \in from : LessEq(k, j)}
    IN  IF least = {} THEN Nil ELSE CHOOSE k \in least : TRUE

SeekReverse(d, prefix) ==
    LET to       == {k \in Present(d) : k[1] < prefix}
        greatest == {k \in to : \A j \in to : LessEq(j, k)}
    IN  IF greatest = {} THEN Nil ELSE CHOOSE k \in greatest : TRUE

ValidForPrefix(k, prefix) == k # Nil /\ k[1] = prefix

(***************************************************************************)
(* The store: each operation is one transaction.                           *)
(***************************************************************************)
FirstIndex(d) ==
    LET k == Seek(d, PrefixL) IN IF ValidForPrefix(k, PrefixL) THEN indexOf(k) ELSE 0

\* Mutant: seeks the prefix itself, not the end of its range.
LastIndexNoEnd(d) ==
    LET k == SeekReverse(d, PrefixL)
    IN  IF ValidForPrefix(k, PrefixL) THEN indexOf(k) ELSE 0

LastIndex(d) ==
    LET k == SeekReverse(d, PrefixL + 1)
    IN  IF ValidForPrefix(k, PrefixL) THEN indexOf(k) ELSE 0

\* Nil for raft.ErrLogNotFound.
GetLog(d, i) == d[logKey(i)]

\* encodeLog keeps the entry's own index beside its term.
StoreLogs(d, lo, hi, t) ==
    [k \in AllKeys |->
        IF \E i \in lo .. hi : k = logKey(i)
        THEN [index |-> CHOOSE i \in lo .. hi : k = logKey(i), term |-> t]
        ELSE d[k]]

\* Mutant: the range is taken as exclusive.
DeleteRangeExclusive(d, min, max) ==
    [k \in AllKeys |-> IF \E i \in min .. (max - 1) : k = logKey(i)
                       THEN Nil ELSE d[k]]

\* The range is inclusive, whether or not its entries exist.
DeleteRange(d, min, max) ==
    [k \in AllKeys |-> IF \E i \in min .. max : k = logKey(i) THEN Nil ELSE d[k]]

\* Badger fails a larger transaction with ErrTxnTooBig, and writes nothing.
Fits(min, max) == max - min + 1 < TxnLimit

\* Mutant: the value found is not handed on.
GetNothing(d, name) == Nil

SetStable(d, name, v) == [d EXCEPT ![stableKey(name)] = v]
Get(d, name)          == d[stableKey(name)]
GetUint64(d, name)    == IF Get(d, name) = Nil THEN 0 ELSE Get(d, name)

(***************************************************************************)
(* Raft's calls.                                                           *)
(***************************************************************************)
Idle == [pc |-> "idle"]

Init == /\ kv = [k \in AllKeys |-> Nil]
        /\ up = TRUE /\ lastLog = 0 /\ commit = 0
        /\ main = Idle /\ snap = Idle /\ granted = {} /\ torn = FALSE

\* Entries of a leader's term reach the log behind its last one, which Raft
\* takes from memory.  If the store fails, nothing has changed.
AppendEntries(n, t) ==
    /\ up /\ main = Idle /\ lastLog + n <= MaxIndex
    /\ Fits(lastLog + 1, lastLog + n)
    /\ kv' = StoreLogs(kv, lastLog + 1, lastLog + n, t)
    /\ lastLog' = lastLog + n
    /\ UNCHANGED <<up, commit, main, snap, granted, torn>>

\* An entry, read like the one before it, conflicts with the leader's: the log
\* is cut back from it on, and only the next transaction stores what belongs
\* there.  If the first one fails, nothing follows.
Truncate(i) ==
    /\ up /\ main = Idle /\ commit < i /\ i <= lastLog
    /\ GetLog(kv, i) # Nil /\ (i > 1 => GetLog(kv, i - 1) # Nil)
    /\ Fits(i, lastLog)
    /\ kv' = DeleteRange(kv, i, lastLog)
    /\ main' = [pc |-> "conflict", at |-> i]
    /\ UNCHANGED <<up, lastLog, commit, snap, granted, torn>>

Overwrite(n, t) ==
    /\ main.pc = "conflict" /\ main.at + n - 1 <= MaxIndex
    /\ Fits(main.at, main.at + n - 1)
    /\ kv' = StoreLogs(kv, main.at, main.at + n - 1, t)
    /\ lastLog' = main.at + n - 1
    /\ main' = Idle
    /\ UNCHANGED <<up, commit, snap, granted, torn>>

\* Badger fails the transaction that was to follow: a vote is not answered,
\* and after a cut Raft returns with the last index it had before it.
Refused ==
    /\ main.pc \in {"conflict", "voteTerm", "voteCand"}
    /\ torn' = (torn \/ main.pc = "conflict")
    /\ main' = Idle
    /\ UNCHANGED <<kv, up, lastLog, commit, snap, granted>>

\* The entries are read to be applied; a missing one is a panic.
Commit(i) ==
    /\ up /\ main = Idle /\ commit < i /\ i <= lastLog
    /\ \A j \in (commit + 1) .. i : GetLog(kv, j) # Nil
    /\ commit' = i
    /\ UNCHANGED <<kv, up, lastLog, main, snap, granted, torn>>

\* A request for a vote: Raft records the term, then that it has voted in it,
\* then for whom, and only then answers.
RequestVote(t, c) ==
    /\ up /\ main = Idle /\ t > GetUint64(kv, "CurrentTerm")
    /\ kv' = SetStable(kv, "CurrentTerm", t)
    /\ main' = [pc |-> "voteTerm", term |-> t, cand |-> c]
    /\ UNCHANGED <<up, lastLog, commit, snap, granted, torn>>

\* A request in the current term: granted again to the candidate voted for,
\* refused to any other, and voted on if there was no vote yet.
RequestVoteAgain(c) ==
    LET t     == GetUint64(kv, "CurrentTerm")
        voted == /\ GetUint64(kv, "LastVoteTerm") = t
                 /\ Get(kv, "LastVoteCand") # Nil
    IN  /\ up /\ main = Idle /\ t > 0
        /\ IF voted
           THEN /\ Get(kv, "LastVoteCand") = c
                /\ granted' = granted \cup {<<t, c>>}
                /\ UNCHANGED main
           ELSE /\ main' = [pc |-> "voteTerm", term |-> t, cand |-> c]
                /\ UNCHANGED granted
        /\ UNCHANGED <<kv, up, lastLog, commit, snap, torn>>

PersistVoteTerm ==
    /\ main.pc = "voteTerm"
    /\ kv' = SetStable(kv, "LastVoteTerm", main.term)
    /\ main' = [main EXCEPT !.pc = "voteCand"]
    /\ UNCHANGED <<up, lastLog, commit, snap, granted, torn>>

PersistVoteCand ==
    /\ main.pc = "voteCand"
    /\ kv' = SetStable(kv, "LastVoteCand", main.cand)
    /\ granted' = granted \cup {<<main.term, main.cand>>}
    /\ main' = Idle
    /\ UNCHANGED <<up, lastLog, commit, snap, torn>>

\* compactLogs on the snapshot goroutine: FirstIndex is read in one
\* transaction, the range is deleted in another.
CompactBegin ==
    LET min == FirstIndex(kv)
    IN  /\ up /\ snap = Idle
        /\ \E max \in min .. commit :
             /\ max <= lastLog - TrailingLogs /\ max > 0
             /\ snap' = [pc |-> "delete", min |-> min, max |-> max]
        /\ UNCHANGED <<kv, up, lastLog, commit, main, granted, torn>>

CompactEnd ==
    /\ snap.pc = "delete"
    /\ \/ Fits(snap.min, snap.max) /\ kv' = DeleteRange(kv, snap.min, snap.max)
       \/ UNCHANGED kv
    /\ snap' = Idle
    /\ UNCHANGED <<up, lastLog, commit, main, granted, torn>>

\* FSM.Apply on its own goroutine writes or deletes data in the same database.
ApplyData(k) ==
    /\ up
    /\ kv' = [kv EXCEPT ![k] = IF @ = Nil THEN Data ELSE Nil]
    /\ UNCHANGED <<up, lastLog, commit, main, snap, granted, torn>>

Crash ==
    /\ up /\ up' = FALSE
    /\ main' = Idle /\ snap' = Idle
    /\ UNCHANGED <<kv, lastLog, commit, granted, torn>>

\* SetupRaft: without a snapshot (NewDiscardSnapshotStore) NewRaft reads every
\* entry from index 1 to LastIndex, and panics if one is missing.
Readable == \A i \in 1 .. LastIndex(kv) : GetLog(kv, i) # Nil

Restart ==
    /\ ~up /\ Readable
    /\ up' = TRUE /\ lastLog' = LastIndex(kv) /\ torn' = FALSE
    /\ UNCHANGED <<kv, commit, main, snap, granted>>

Next == \/ \E n \in 1 .. MaxIndex, t \in Terms :
              AppendEntries(n, t) \/ Overwrite(n, t)
        \/ \E i \in 1 .. MaxIndex : Truncate(i) \/ Commit(i)
        \/ \E t \in Terms, c \in Candidates : RequestVote(t, c)
        \/ \E c \in Candidates : RequestVoteAgain(c)
        \/ PersistVoteTerm \/ PersistVoteCand \/ Refused
        \/ CompactBegin \/ CompactEnd
        \/ \E k \in Others : ApplyData(k)
        \/ Crash \/ Restart

Spec == Init /\ [][Next]_vars

(***************************************************************************)
(* Properties.                                                             *)
(***************************************************************************)
Stored(d) == {i \in Indices : GetLog(d, i) # Nil}

\* Type invariant: log entries and stable values have their types, and each
\* log entry carries the index of its key.
TypeOK ==
    /\ DOMAIN kv = AllKeys
    /\ \A k \in LogKeys :
          kv[k] = Nil \/ kv[k] \in [index : {indexOf(k)}, term : Terms]
    /\ \A k \in Others : kv[k] \in {Nil, Data}
    /\ \A name \in StableNames : Get(kv, name) \in
          {Nil} \cup IF name = "LastVoteCand" THEN Candidates ELSE Terms
    /\ up \in BOOLEAN /\ lastLog \in 0 .. MaxIndex /\ commit \in 0 .. MaxIndex
    /\ granted \subseteq Terms \X Candidates /\ torn \in BOOLEAN

\* The store is the log Raft takes it for: FirstIndex and LastIndex are its
\* bounds whatever else the database holds, it is cut only at its ends, an
\* entry is never stored over another, and it has no hole, unless Badger
\* refused the entries that were to follow a cut; whichever transactions of
\* the goroutines interleave or fail, and wherever the process crashes.
Contract == INSTANCE LogStore WITH
    log    <- [i \in Stored(kv) |-> GetLog(kv, i)],
    first  <- FirstIndex(kv),
    last   <- LastIndex(kv),
    stable <- [name \in StableNames |-> Get(kv, name)],
    torn   <- torn

ImplementsLogStore == Contract!Spec

\* The last index Raft keeps in memory is never behind the one a restart would
\* read, and is that one except between the two transactions that resolve a
\* conflict and after the second of them was refused.
MemoryMatchesStore ==
    up /\ main.pc # "conflict" =>
        LastIndex(kv) <= lastLog /\ (~torn => LastIndex(kv) = lastLog)

\* A node answers at most one candidate of a term with its vote, although the
\* vote is recorded in three transactions and the process may die between them.
VotesOnce == \A v, w \in granted : v[1] = w[1] => v[2] = w[2]

(***************************************************************************)
(* The inductive invariant behind them.                                    *)
(***************************************************************************)
\* The goroutines are in one of their states; a process that is down has none.
PcOK ==
    /\ \/ main = Idle
       \/ up /\ main \in [pc : {"conflict"}, at : 1 .. MaxIndex]
       \/ up /\ main \in [pc : {"voteTerm", "voteCand"}, term : Terms,
                          cand : Candidates]
    /\ \/ snap = Idle
       \/ up /\ snap \in [pc : {"delete"}, min : Indices, max : 1 .. MaxIndex]

\* Nothing is stored behind the last index in memory.  What is cut back is not
\* committed; what is about to be deleted is the head of the log, is committed,
\* and ends before the last index.
Bounded ==
    /\ Stored(kv) \subseteq 1 .. MaxIndex
    /\ up => Stored(kv) \subseteq 1 .. lastLog
    /\ main.pc = "conflict" => /\ commit < main.at /\ main.at <= lastLog
                               /\ Stored(kv) \subseteq 1 .. (main.at - 1)
    /\ snap.pc = "delete" => /\ snap.min <= snap.max
                             /\ snap.max <= commit /\ snap.max < lastLog
                             /\ \A i \in Stored(kv) : snap.min <= i

\* The log begins at lo and has no hole.
LogFrom(lo) ==
    /\ lo <= commit + 1
    /\ main.pc = "conflict" => Stored(kv) = lo .. (main.at - 1)
    /\ up /\ main.pc # "conflict" =>
          /\ Stored(kv) = lo .. lastLog
          /\ lo <= lastLog \/ (lo = 1 /\ lastLog = 0)
    /\ ~up => \E hi \in 0 .. MaxIndex : Stored(kv) = lo .. hi

LogIsWindow == ~torn => \E lo \in 1 .. (MaxIndex + 1) : LogFrom(lo)

\* Votes are only granted up to the recorded term, and in it to the recorded
\* candidate; a vote on its way is the first one of its term.
VotesRecorded ==
    LET current == GetUint64(kv, "CurrentTerm")
        voted   == GetUint64(kv, "LastVoteTerm")
    IN  /\ voted <= current
        /\ \A v \in granted :
              v[1] <= voted /\ (v[1] = voted => Get(kv, "LastVoteCand") = v[2])
        /\ main.pc \in {"voteTerm", "voteCand"} =>
              main.term = current /\ \A v \in granted : v[1] # main.term
        /\ main.pc = "voteCand" => main.term = voted

IInv == TypeOK /\ PcOK /\ Bounded /\ LogIsWindow /\ VotesRecorded
=============================================================================
