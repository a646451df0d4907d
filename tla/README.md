# Badis in TLA+

Badis is a Redis-compatible server: each node parses RESP, replicates write
commands through Hashicorp Raft and applies them to a local BadgerDB. These
modules model the state machine and its keyspace, the handlers and scripts in
front of it, the replica set, the store Raft keeps its log in, the start of a
cluster and the routing between shards. TLC checks them on small instances.
TLAPS proves every safety property, and a refinement, for every value of the
constants, some of them under hypotheses that are stated; liveness is
model-checked only.

## The system

| Part | Source | State | Operations | Interacts with |
|---|---|---|---|---|
| State machine, writes | `store/fsm.go` (`Apply`, `applyCmdInTxn`) | Badger entries `K`+key (value) and `T`+key (type), each with its own expiry | 26 commands, one Badger transaction each | called by Raft for every committed entry; by scripts inside their transaction |
| State machine, reads | `store/fsm.go` (`GetString` ... `SIsMember`, `Keys`) | the same | 22 read methods, one View transaction each | called by the handlers on the local database, past Raft |
| Handlers, connections | `server/server.go` | per connection: client name and library | one handler per command: arity, options, reply | build the commands, write RESP |
| Lua scripts | `store/lua.go`, `server/lua_handlers.go` | script entries in Badger | `EVAL`, `EVALSHA`, `SCRIPT LOAD/EXISTS/FLUSH` | calls `applyCmdInTxn` in one transaction |
| Replica set | `server.go` (`applyCommand`, `SetupRaft`), `fsm.go` (`Snapshot`, `Persist`, `Restore`) | per node: log, applied index (in memory), database (on disk) | propose, apply, compact, crash, restart | Raft (external) |
| Raft log and stable store | `store/raft_store.go` | log entries and Raft's metadata, in the same Badger | `FirstIndex`, `LastIndex`, `GetLog`, `StoreLogs`, `DeleteRange`, `Set`, `Get` | called by Raft's goroutines |
| Start-up | `main.go`, `server.go` (`handleRaftJoin`) | Raft configuration | bootstrap, join with retries, stop | HTTP between nodes |
| Routing | `router/`, `config/slotmap.go`, `server.go` (`handleCmd`) | slot owners, client cache | locate, forward | proxies to other nodes |
| Gossip | `cluster/` | memberlist's | join, shutdown | nobody reads it |

What makes each part correct, and what is hard about it:

* *State machine.* A key has one type and every command and reader agrees on
  it; an expired key is gone for everybody; an emptied collection is deleted;
  replies tell what happened. Hard: the value and the type of a key are two
  Badger entries that expire separately, and expiries are rounded twice.
* *Handlers and scripts.* What reaches the Raft log can be applied on every
  replica; a lifetime means the same in all its forms; a script is all or
  nothing. Hard: the FSM indexes arguments it has not counted, absolute times
  are converted by two clocks, and scripts have a parser of their own.
* *Replica set.* All nodes execute one log, clients get its replies, and a node
  that was down ends up like the others. Hard: the database survives a crash
  and the applied index does not, commands read the local clock and Go's map
  order, reads go past the log.
* *Log store.* It must be what Raft believes it is after any sequence of
  stores, deletions, crashes and restarts, and refused transactions. Hard: it is
  found by seeking in a keyspace shared with the data, two goroutines change it,
  and Badger refuses a transaction with too many writes.
* *Start-up.* Every node ends up in the configuration once. Hard: the admin
  endpoint answers before Raft exists; requests overlap, answers get lost.
* *Routing.* A command that is acknowledged was executed, and not repeated
  without reason. Hard: stale slot maps, self-forwarding, retries.

`PROJECT.json` lists the hazards line by line.

## Modules

    Store      the keyspace and the helpers of fsm.go
      Commands   every command as (database, instant, command) -> outcomes
        Queries    every read method
          CommandsProofs   what each command keeps: lemmas for all that follow
          FSM        one node: Init, an action per command, Tick
            MCFSM      instances
            FSMProofs  theorems and proofs
            Handlers   what the handlers let through and build
              Scripts    a node that serves clients and scripts
                MCScripts, ScriptsProofs
          Replicas   the nodes of a shard over one Raft log
            MCReplicas, ReplicasProofs
    Glob       KEYS and redisGlobMatch
      MCGlob, GlobProofs
    LogStore   what Raft expects of its store (abstract)
    RaftStore  raft_store.go, under Raft's calls; implements LogStore
      MCRaftStore, RaftStoreProofs
    Join       start, bootstrap and join
      MCJoin, JoinProofs
    Router     slot maps, proxying, retries
      MCRouter, RouterProofs

**Store.** A database is a record of two functions, `K` and `T`, from keys to
entries or `None`; an entry has a value and an expiry in whole seconds, 0 for
none. A string is a sequence of chunks (words, integers, or `Raw`, the bytes of
an encoded collection); hashes, lists and sets are typed values, the kinds that
`encodeMsgpack` writes. Digits that `APPEND` adds to digits are two chunks and
no number, where the code would count on from them. The clock counts ticks:
`TicksPerMs` to a millisecond and `MsPerSec` milliseconds to a second. Badger is
external: `Live` is what its `Get` finds, `WithTTL` the expiry it computes,
rounded down to a second.

**Commands.** One operator per case of the switch, with its type check, its
decoding, the lifetime it passes on and the deletion of what it empties. An
error keeps the database, as Badger discards the transaction. `SPOP` yields a
set of outcomes, one per choice of members, because Go's map order is random.
`CommandSpace` is the set of commands the handlers of `server.go` build, with any
lifetime; the arity checks exclude commands without elements. That the handlers
build no others is `NothingPanics`, which is proved.

**Queries.** The readers, as operators on the database at an instant.

**FSM.** `Apply(c)` is `FSM.Apply`: one transaction. One action per command, and
`Tick` for time that passes between transactions. A transaction reads the clock
once in the model, where Badger may read it several times.

**Glob.** `Visit` is an iteration of `FSM.Keys`, on the snapshot its transaction
reads, with `redisGlobMatch` as a recursive function on positions: `MatchFrom` is
the code's `switch` at a place of pattern and name, given the answers at later
places. A pattern is made of items whose meaning is known, and spelled in bytes
for the code; the reference works on the items and follows all ways to match at
once. `IsItem` says what an item is: a star, `?`, an escaped byte, a class, or any
other byte; `IsTail` what makes a pattern malformed.

**Handlers.** A client's command is a name and arguments. `ArityOK`, `FormOK` and
`OptionsOK` are the early returns of the handlers, `Handle` the `store.Command`
they build, with `SET`'s loop over its options (the last one of a kind wins) and
the conversions of `EX`, `EXAT`, `PX` and `PXAT`, whose arithmetic wraps around
at the width of `MaxInt` as int64 does. `Malformed`, `Panics` and `Decode`
are what `applyCmdInTxn` makes of such a command: one without its arguments is
refused, or indexes past the end of a slice, which ends the process. `SYNC`
stands for both words `FLUSHDB` takes.

**Scripts.** A command is parsed when it arrives (`Receive`, `ReceiveScript`)
and applied when Raft has committed it (`Commit`, `Eval`, `ScriptLoad`, ...),
with time passing in between. A request that fails the checks of its handler
(arity, `numkeys`) is answered at once, changes nothing and is no action. A
script is the sequence of calls it makes; `runLua` runs it in one transaction
through `luaRedisCall` and `parseCommandForLua`. A call that fails ends the
script, a `pcall` does not, and a panic is caught by the interpreter; an error
discards the transaction. `SCRIPT FLUSH` may delete any of the scripts: its
deletes share the key buffer of Badger's iterator.

**Replicas.** Raft is external and abstracted to its contract: a log of
committed commands, stored by a quorum on commit; a leader that stores all of
it; followers that receive it in order. Entries that never commit are left out:
no node applies them. `Propose` is `applyCommand` up to `raft.Apply`,
`ApplyNext` is `FSM.Apply` on a node and, on the leader, the reply to the
waiting client; `Elect` fails the futures that wait. `Crash` (also an orderly
end of `main`) keeps database and log and loses the applied index; `Restart` is
`NewFSM` and `SetupRaft` with `NewDiscardSnapshotStore`: it applies from index 1
and cannot start if that entry was compacted. `Compact` follows a snapshot,
which was discarded, and drops the entries it covers except the last
`TrailingLogs` of the log. All nodes share one clock. `states` and `replies` are
history: the execution of the log in order, each command at the time of its
commit.

**LogStore, RaftStore.** `LogStore` is the contract of hashicorp/raft's
`LogStore` and `StableStore`: consecutive entries, extended and cut back at the
end and dropped at the head, with their bounds, and stable keys. `RaftStore` is
`raft_store.go` on Badger's ordered keyspace: the log under the prefix `L` between
values (`K`) and stable keys, scripts and types (`S`, `T`), keys as bytes,
`FirstIndex` and `LastIndex` as seeks. Raft's calls are external actions: the main
goroutine appends, cuts back and overwrites in separate transactions and records
a vote in three; the snapshot goroutine reads `FirstIndex` in one transaction and
deletes in another; `ApplyData` changes the neighbours. `Crash` may come between
any two. `StoreLogs` and `DeleteRange` are one transaction each, which Badger
refuses with `TxnLimit` writes or more (`Fits`); any transaction may also fail by
itself. One that comes first then leaves everything as it was. One that follows
another leaves half of the work (`Refused`): a vote that is not answered, or a log
that was cut back without its new entries. In the second case Raft goes on with
the last index it had before the cut (`torn`), and its next append may leave a
hole, until a restart reads the index anew, or finds the hole and fails. The
contract allows a hole then and only then. The refinement mapping (`Contract`)
takes the log from the stored keys and its bounds from the seeks.

**Join.** `StartAdmin`, `SetupRaft`, `Bootstrap`, `Ask` and `Hear` are the
stages of `main`; `Check`, `Search`, `AddVoter` and `Added` those of a request
in `handleRaftJoin`, each request on a goroutine of its own. Raft's
configuration change is external: it takes effect when appended, one at a time,
and is committed by a majority of the new configuration. Processes crash and
restart, answers get lost.

**Router.** A handler is known by its command and the path it took; `Route` is
`handleCmd` with `LocateKey` and `getClient`, and `Execute` the local handler,
which may answer an error whether or not the command has taken effect. Slot maps
change node by node. go-redis is external: it gives up an attempt and sends the
command again (`Retry`), while the attempt goes on at the other node.

## Runs

| Run | Checks | Instance |
|---|---|---|
| `fsm_lifetimes` | `TagSound`, `DecodeNeverFails`, `GhostsAreInvisible`, `LifetimeErosion`, `ReadersAgree`, `NoResurrection`, `TypesOutlivedByExpire` | one key that takes every type, with all commands that set, keep or drop a lifetime; the clock runs for several seconds of 2 x 2 ticks |
| `fsm_data` | `TypeOK`, `NonEmptyCollections`, `CountsAreTruthful`, `PopsConserve`, `RangesTile` | two keys, two words, all commands and options without time; int64 cut to 3 bits; strings and lists of up to 5; repeated, negative, zero and too large arguments |
| `glob` | `KeysAreExact`, `RefusedWhenReached` | all patterns of up to 4 of 13 items, well formed or with one of 3 malformed ends, on three databases |
| `scripts` | `ServerTypeOK`, `NothingPanics`, `LifetimeFormsAgree`, `CallsAgree`, `TagSound`, `DeadlinesHold` | one connection, two keys that are words too; every write command in good form and bad, 12 scripts; three seconds |
| `replicas_order` | `PrefixConsistency`, `WritesAreLinearizable`, `FollowersExpireLate` | 3 nodes, 3 entries, 2 elections, 3 seconds; `INCR`, `SET NX`, `DEL`, `HSET` (they fail on each other) and `SET` with lifetimes |
| `replicas_replay` | `TypeOK`, `ReplayConverges`, `NoGapInReplay`, `EventuallyConverged` | 3 nodes, 2 entries, 1 crash, 2 elections, compaction; `SET`, `MSET`, `HSET`, `DEL` (they overwrite, or fail) |
| `raft_store` | `TypeOK`, `MemoryMatchesStore`, `VotesOnce`, `ImplementsLogStore` | indices up to 4 in bytes of 3 values, 2 terms, 2 candidates, data right before the log and stable keys behind it, transactions that are refused or fail, crashes without bound |
| `join` | `TypeOK`, `AddedMeansCommitted`, `MembersStay`, `EventuallyServes`, `LeaderAdmits` | 3 nodes, 2 tries, 2 crashes, 3 elections |
| `router` | `TypeOK`, `AckedWasExecuted`, `OnceUnlessRetried`, `EveryCommandIsAnswered` | 2 nodes, 2 attempts, 2 hops, 3 changes of a slot map, 1 stop |

What they show, beyond their names:

* `TypesOutlivedByExpire`: a live collection loses its type entry, after which it is
  answered as a string, only if an `EXPIRE` lengthened its life.
* `DeadlinesHold`: an `EXAT` or `PXAT` expiry is late by no more than Raft's delay
  and never early, though it is computed by one clock and applied by another. Of
  several lifetimes in one `SET` the last one counts (`LastDeadline`).
* `LifetimeFormsAgree`: six ways to give a string a lifetime end in one expiry.
* `CallsAgree`: for commands that name their key first, `redis.call` does what a
  client's command does, on every reachable database; the others are in the
  run `scripts_calls`.
* `PrefixConsistency` and `WritesAreLinearizable` hold for logs without lifetimes
  and `SPOP` (`Determined`), `FollowersExpireLate` for commands that do not read
  what they overwrite (`Blind`), lifetimes included. Outside of these, see
  *Divergences*.
* `ReplayConverges` holds for commands that overwrite and fails for those that
  build on what they find, which is why it appears in two runs.
* `MemoryMatchesStore` and `ImplementsLogStore`: seeking among foreign keys,
  crashes, overlapping compaction and refused transactions leave Raft's log whole
  and its last index right, with one exception: entries that Badger refuses after
  the log was cut back for them.
* `OnceUnlessRetried`: contradictory slot maps send a command around and do not
  repeat it; only an attempt that was given up may.
* `LeaderAdmits`: a node that asks a lasting leader becomes a member even if
  other changes are under way and its answer is lost.

The bounds, all named constants: one tick less than a millisecond and one
millisecond less than a second are the smallest clock in which both roundings
lose something, and lifetimes of up to two seconds let each of the two entries
of a key expire first. One key suffices where no command relates two keys. Two
words give a collection a first, a last and a removed element. Three nodes are
the smallest group with a quorum that leaves someone behind; two entries suffice
for one to overwrite, delete or refuse what the other wrote, three for commands
that build on each other. In bytes of three values index 3 is the first to carry
into the higher byte, so that byte order and numeric order could differ; a
`TxnLimit` of 3 lets ranges and stores be refused. The largest key before the
log is the only one there that a seek can meet. Two tries are the first, which
may fail, and one more; with two crashes the seed and a joiner may each be down
once in the middle of a change. A change that is lost with its leader takes a
fourth node and more states than the run allows. Two hops close a circle between
two nodes, one of which is named as `main.go` does (by node ID) and takes its
own slots for foreign. Scripts have one connection: handlers only meet in the
Raft log, whose order `replicas_order` has. `MaxInt = 15` leaves the times of
that run free of overflow. Requests are a subset of `CommandSpace` per question.

Deadlock is checked for FSM and Glob, where something is always possible; the
other instances stop at their bounds. Symmetry over nodes is used for invariants
only, symmetry over candidates in `raft_store`, whose properties are safety
properties that name none of them.

Each passing property has a mutant (an operator marked `Mutant` in the modules)
that breaks it: a dropped type check, a forgotten lifetime, an off-by-one, a
little-endian index, a future that is not waited for, a context without a
deadline.

### Divergences

Three runs are expected to fail; each shows a place where the code does not do
what a document or a comment says (`findings` in `PROJECT.json`):

| Run | Property | What happens |
|---|---|---|
| `replicas_restart` | `ReplayConverges` | a restarted node counts `INCR` twice: the log is applied again to a database that survived |
| `scripts_calls` | `ScriptedCommandsAgree` | a scripted `EXPIRE` loses its seconds and expires the key at once |
| `join_defaults` | `JoinedMeansMember` | both nodes of the README's example are `local-node`: the second is told it has joined and is in no configuration |

Others are within the models, and the properties above are stated around them:
`SPOP` takes different members on different nodes; a replica that lags behind an
expiry computes another counter; a follower answers without an acknowledged
write; a hash whose type entry expires first is answered as a string, after an
`EXPIRE` that lengthened its life (`TypesOutlivedByExpire`); `INCR` wraps around at
the ends of int64 where Redis answers an error; entries that are refused after a
cut leave Raft with a stale last index, and a node whose log gets a hole that way
cannot restart; each
mutation of a key moves its expiry up to a second closer (`LifetimeErosion` is
that bound); `SET PX` below a second may expire in the second it is written; a
compacted node cannot restart, as its snapshot was discarded.

## Fairness

* `EventuallyConverged` (`Replicas`): weak fairness of `Replicate(n)` and
  `ApplyNext(n)`. Raft runs a replication goroutine per follower and an apply
  goroutine per node, which retry until they succeed. The property assumes that
  from some point on a leader stays and has the entries its followers lack.
* `EventuallyServes`, `LeaderAdmits` (`Join`): weak fairness of the steps of a
  running `main` and of each stage of a request (a goroutine that runs, or a
  connection that breaks), of the commit of a configuration a majority stores,
  and of a leader without majority stepping down. `http.Get` has no timeout: the
  answer comes because the handler's future ends. None of starts, crashes,
  elections or lost answers.
* `EveryCommandIsAnswered` (`Router`): weak fairness of the node the client is
  connected to (`Route`, `Execute`, `Reply`) and of its deadline (`Timeout`: the
  context of `handleCmd` has five seconds). None of other nodes.

## Proofs

The theorems hold for every value of the constants that satisfies the
assumptions of the modules, all of which TLC evaluates on the runs:
`ClockAssumption` (units are positive), `NoneAssumption` (`None` is no entry),
`RequestsAssumption` and `ReplicasAssumption` (requests are commands the
handlers build; the clock starts after the first second of the epoch and no
`EXPIRE` reaches back to it, where an expiry of 0 would read as none),
`OptionsAssumption` (the words of `SET`'s options differ), `InputsAssumption`
(what an accepted command has in the place of a key, a text or a word is one),
`BodiesAssumption` (a script is a sequence of calls with any arguments),
`GlobAssumption` (patterns are made of items and end in at most one malformed
place), `JoinAssumption`, `RouterAssumption` (names and addresses are given,
bounds are positive) and `RaftStoreAssumption` (a byte has more than two values,
indices fit, `Nil` is none of the values). Hypotheses of a single theorem are
below.

### FSM

For every set of keys, words and requests, every `MaxInt` and every granularity
of the clock (`FSMProofs`):

| Theorem | Statement |
|---|---|
| `Invariant` | `Spec => []IInv` |
| `TypeCorrect` | `Spec => []TypeOK` |
| `TagsAreSound` | `Spec => []TagSound` |
| `CollectionsAreFilled` | `Spec => []NonEmptyCollections` |
| `DecodingSucceeds` | `Spec => []DecodeNeverFails` |
| `LifetimesErode` | `Spec => []LifetimeErosion` |
| `NothingResurrects` | `Spec => NoResurrection` |
| `ReadersAlwaysAgree` | `Spec => []ReadersAgree` |
| `RangesAlwaysTile` | `Spec => []RangesTile` |
| `PopsAlwaysConserve` | `Spec => [](NoneEnding => PopsConserve)`, finitely many words |
| `CountsAreAlwaysTruthful` | `Spec => [](NoneEnding => CountsAreTruthful)`, finitely many keys and words |
| `GhostsStayInvisible` | `Spec => []GhostsAreInvisible` |
| `TypesAreOutlivedByExpireOnly` | `Spec => TypesOutlivedByExpire` |

`IInv` is the conjunction of `TypeOK`, `TagSound` and `NonEmptyCollections`. Each
needs the others: whether a type entry stays truthful depends on what
`getExistingType` may return for the stored value, and that a command empties a
collection can only be judged on a well-typed one. `CommandsProofs` has a lemma
`...Good` per operator of `Commands`, which shows that its outcome satisfies the
invariant if its database does; lemmas about `setValue`, `Delete`, `Replace` and
`ReplaceOrDelete` carry most of it. The other properties are about a state and
the outcomes of a command in it, and follow from `IInv`: `LifetimeErosion` from the
arithmetic of the two roundings, `ReadersAgree` from `TagSound`, the counts from
cardinalities of what the readers find before and after.

`NoneEnding` says that no key is in the last second of its life. It cannot be
left out: a pop rewrites what remains with the rest of the lifetime, which may
round to an expiry that is reached already, and then the rest is gone with it.
The run has no lifetimes and does not need it.

`GhostsAreInvisible` is a simulation: two databases are `Twin`s if they agree on
their live keys, and every command takes twins to twins and answers them alike.
The database and the one without its expired entries are twins.

`TypesOutlivedByExpire` goes through the commands: all but `EXPIRE` and `PERSIST`
leave the two entries of a key alone, delete both, or write both with one
lifetime (`CommandsWriteTogether`), `PERSIST` makes both last while it finds the
type (`PersistLasts`), and an `EXPIRE` that sets the value's expiry no later than
it was cannot outlive a type that lasted as long.

### KEYS

For every set of items and malformed tails, every number of items in a pattern
and every set of keys (`GlobProofs`):

| Theorem | Statement |
|---|---|
| `MatchIsReached` | `redisGlobMatch(Pattern, name)` is the reference's verdict |
| `ClassesListTheirMembers` | a class lists the bytes of its single members and ranges |
| `KeysAreAlwaysExact` | `Spec => []KeysAreExact` |
| `RefusalsAreRight` | `Spec => []RefusedWhenReached` |

The code goes forward through the bytes and backtracks at stars; the reference
goes item by item and keeps all lengths that can be reached. They meet in the
places where items begin (`PatternPlaced`): what the matcher answers there for a
rest of the name depends on the item and on its answers at the next place
(`ItemAnswer`, `StarStep`, `EndAnswer`), and a way is alive if the reference can
go on from it (`WaysGoOn`). `OneVerdict` takes the last place at which the two
differ. Stars need the most care: the code stops at the first place where the
rest does not fail, which may be a refusal instead of a match; that this cannot
hide a match is because the rest of a malformed pattern never matches. The
inductive invariant `GlobInv` says that a call in progress has a pattern of
items, a position in the snapshot and the two properties for the keys visited.

A class means what `Listed` reads between its own brackets (`IsItem`);
`ClassInPlace` shows that it reads the same within a pattern, and
`ClassesListTheirMembers` what it reads. The run compares the classes with bytes
that are listed one by one.

### Handlers and scripts

For every set of connections, inputs and scripts (`ScriptsProofs`):

| Theorem | Statement |
|---|---|
| `NothingEverPanics` | `ServerSpec => []NothingPanics` |
| `CallsAlwaysAgree` | `ServerSpec => []CallsAgree` |
| `DeadlinesAlwaysHold` | `ServerSpec => DeadlinesHold`, if clock and deadlines fit in `MaxInt` milliseconds |
| `LifetimeFormsAlwaysAgree` | `ServerSpec => [](((now \div TicksPerSec) + 2) * MsPerSec <= MaxInt => LifetimeFormsAgree)` |
| `TagsStaySound` | `ServerSpec => []TagSound` |
| `ServerTypesHold` | `ServerSpec => []ServerTypeOK`, if `TypedScripts` and `NoEarlyExpiry` |

`NothingEverPanics` discharges the assumption of FSM on its requests: whatever a
client sends, what its handler puts into the log decodes into `CommandSpace`. Its
invariant `Serving` says this of each command in flight, which waits from
`Receive` to `Commit`. `DeadlinesHold` relates the instant a command was parsed to
the instant it is applied; its invariant `InOrder` says that every command in
flight is the one its handler built when it came, and that the database keeps a
`Shape` under scripts too: a type entry names a kind, and one that names a
collection is truthful. `Shape` is weaker than FSM's invariant
because scripts pass arguments that no handler lets through, and it is what is
left of it then. The hypotheses on times are where int64 arithmetic in
milliseconds stops being that of integers.

`ServerTypesHold` is about types alone: scripts may leave empty collections, so
FSM's invariant is not available. `Sorted` is what a command needs to leave a typed
database (`ApplyTyped`); the handlers' commands are sorted (`ClientSorted`), and so
are those that `parseCommandForLua` makes of a `TypedCall`, missing arguments
included (`CallIsTyped`, `DecodedSorted`); a script is followed call by call
(`ScriptKeepsTypes`). The invariant is `TypesInOrder`. Two hypotheses remain:
`TypedScripts`, because a script may put an integer or an option's word among the
members of a set, which the code accepts and the model's values do not have; and
`NoEarlyExpiry`, as an `EXPIRE` before the epoch has no expiry in the natural
numbers. The scripts and inputs of the run satisfy both.

`SET`'s options and the calls of a script are recursive functions on positions.
What they compute is not proved by induction, which the provers cannot
instantiate, but by the least position that breaks the claim.

### Replicas

For every number of nodes, entries, elections and crashes (`ReplicasProofs`):

| Theorem | Statement |
|---|---|
| `TypeCorrect` | `Spec => []TypeOK` |
| `ReplayHasNoGap` | `Spec => []NoGapInReplay` |
| `ReplicasAreConsistent` | `Spec => [](crashes = 0 => PrefixConsistency)` |
| `RepliesAreConsistent` | `Spec => [](crashes = 0 => WritesAreLinearizable)` |
| `LifetimesEndLate` | `Spec => [](crashes = 0 => FollowersExpireLate)` |
| `BlindReplayConverges` | `Spec => [](Every(Blind) /\ Every(Determined) => ReplayConverges)` |

`TypeInv` (types, good databases, every node up while none has crashed, and
`NoGapInReplay` itself) carries the first two; `History` says that `states` and
`replies` are an execution of the log. `DeterminedInv` adds that no entry expires
and that each node is at the state of its applied prefix, which holds because a
determined command is a function of the database alone. `BlindInv` says that a
node has the strings of that state with expiries that are no earlier, and
`Replayed` that after a restart a key of a node is as in the state of its applied
prefix or has not been touched by that prefix, and is touched by the log if it
holds anything. The hypotheses cannot be dropped: `replicas_restart` shows a
counter that a restart changes, and *Divergences* the requests that are left out.

### Log store

For every byte size, set of neighbouring keys, set of candidates and all bounds
(`RaftStoreProofs`):

| Theorem | Statement |
|---|---|
| `Invariant` | `Spec => []IInv` |
| `TypeCorrect` | `Spec => []TypeOK` |
| `MemoryMatches` | `Spec => []MemoryMatchesStore` |
| `VotesAreUnique` | `Spec => []VotesOnce` |
| `Refinement` | `Spec => ImplementsLogStore` |

`IInv` is `TypeOK /\ PcOK /\ Bounded /\ LogIsWindow /\ VotesRecorded`. That the log
is a window is not inductive by itself: a compaction deletes a range it computed
earlier, and only stays at the head of the log because that range is committed,
begins no later than the log and ends before the last entry, while a conflict
cuts off uncommitted entries only (`LogFrom`). It holds until a store is refused
after a cut. `Bounded` holds even then: nothing is stored behind the last index in
memory, so that an append never meets an entry and a cut takes a whole suffix;
this is what is left of the contract while `torn`. One vote per term needs the
order of the three records: the term, then that a vote was cast in it, then for
whom. The lemmas `Coding`, `Order` and `Bounds` show that big-endian keys sort like
their indices and that `FirstIndex` and `LastIndex` are the bounds of the stored
indices whatever lies around them; one lemma `...Inv` per action preserves the
invariant, and one `...Step` per action maps it to a step of `LogStore` or a
stutter.

### Join and routing

For every number of nodes, tries, crashes and elections (`JoinProofs`), and of
nodes, commands, attempts, hops and changes of the slot maps (`RouterProofs`):

| Theorem | Statement |
|---|---|
| `TypeCorrect` (both) | `Spec => []TypeOK` |
| `AddedNodesAreMembers` | `Spec => []AddedMeansCommitted`, if `DistinctIDs` |
| `MembersAreKept` | `Spec => MembersStay`, if `DistinctIDs` |
| `AnswersAreTrue` | `Spec => []AckedWasExecuted` |
| `ExecutedOnce` | `Spec => []OnceUnlessRetried` |

Membership needs that a change only adds servers (`ConfigGrows`), that a handler
that waits for one has its node in the configuration, and that an answer on its
way tells of a committed one. `DistinctIDs` is what the operator has to set;
`join_defaults` shows what happens otherwise. The router's `SafetyInv` says that of
a command which nobody gave up one handler is at work and the others wait for
it, so it has not been executed before, and that a handler about to answer OK
knows of an execution.

### Model-checked only

* `EventuallyConverged`, `EventuallyServes`, `LeaderAdmits` and
  `EveryCommandIsAnswered`: the prover handles neither fairness nor `ENABLED`.
* The three properties of *Divergences*, which do not hold.
* `ReplayConverges` with `HSET` in the log, which fails on a string
  (`replicas_replay`): `BlindReplayConverges` is about strings.

## Not modelled

* Gossip: a wrapper around memberlist; nothing reads the members it learns.
* RESP: framing, the conversion of replies, `CLIENT`, `HELLO`, and `SMISMEMBER`,
  which announces its array before it reads. The read handlers check their
  arity and frame the answers of `Queries`.
* Lua's interpreter, scripts that call `EVAL` or `SCRIPT`, `KEYS`, `ARGV` and the
  parsing of `numkeys`.
* Raft's protocol, entries that never commit, partitions of a leader.
* Loss of power: Badger runs without `SyncWrites`; only the process dies here.
* Multi-key commands across shards (they route by their first key), CRC16: a
  slot is a given function of the command. `main.go` never fills the slot map.
* The msgpack wire format, logging and options.

## What could come next

* Scripts that put integers among fields, elements and members: the collections
  of `Store` would hold chunks, as its strings do, and `TypedScripts` could go.
* `Replicas`: entries that never commit, and a leader that is cut off.
* `Router`: the other keys of a multi-key command, on the shard of the first.
