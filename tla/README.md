# Sangria in TLA+

Sangria is a distributed transactional key-value store with an adaptive commit
protocol: a range may keep its lock until a transaction commits (Traditional),
give it up as soon as the transaction has prepared (Pipelined), or choose from
the load (Adaptive). This directory models its concurrent parts, checks them
with TLC on small instances, and proves their safety with TLAPS for every size of
those instances. One safety property, `Serializable`, and all liveness are only
model-checked.

## The system

| Part | Source | State | Operations |
|---|---|---|---|
| Range lock | `rangeserver/src/range_manager/lock_table.rs` | holder, two queues, soft-released set | acquire, wait for holder, release, soft release, clean |
| Range manager | `rangeserver/src/range_manager/impl.rs` | prepare records, pending commit table, load state | get, prefetch, prepare, abort, commit of a batch, load, unload |
| Prefetching buffer | `rangeserver/src/prefetching_buffer.rs` | fetched values, state and channel of each key | request, fetch complete/failed, upsert, delete, transaction complete |
| Write-ahead log | `rangeserver/src/wal/cassandra.rs` | buffer, offsets, log rows and metadata row | sync, append, flush, trim |
| Memtable cache | `rangeserver/src/cache/memtabledb.rs` | ring of memtables, latest epoch | upsert, delete, get, clear, register a callback |
| Range server | `rangeserver/src/server.rs`, `warden_handler.rs` | table of managers, assigned ranges, known transactions | load on demand, unload, warden updates, start and forget a transaction, dispatch of messages |
| Range client | `coordinator-rangeclient/src/`, `rangeclient/src/client.rs`, `common/src/network/` | the oracle's two caches, pool of clients, a connection per request | resolve a key, send a request, receive its answer |
| Universe | `universe/src/`, `common/src/key_range.rs` | rows of keyspaces | create, get, list |
| Frontend | `frontend/src/frontend.rs` | transaction table, a mutex per transaction, count of open clients | start, get, put, delete, abort, commit, read-modify-write |
| Coordinator | `coordinator/src/transaction.rs` | state, participants, dependencies | get, put, del, abort, commit |
| Resolver | `resolver/src/core/` | dependency counts, groups per range, waiting transactions | commit, register, group-commit cycle |
| Transaction state store | `tx_state_store/src/` | one status per transaction | start, commit, batch commit, abort |
| Warden | `warden/src/` | versions of the assignment, ready servers, streams | read base ranges, compute, persist, publish, register, stream |

A transaction gets its values from ranges, each of which makes it wait for the
range's lock. Commit prepares all participants in parallel. A range answers
with the transactions this one depends on: those whose uncommitted values it
read or overwrote. With no dependency the coordinator records the commit and
tells the ranges itself. With some, the resolver does so in group commits once
they are resolved. Clients reach the coordinator through the frontend, which
serialises the calls on one transaction by a mutex. The coordinator finds the
range of a key in the keyspace's row, which the universe wrote, and sends its
request over a connection of its own. The warden decides which server loads
which range.

What is hard here: handlers of a range interleave at every await; the lock is
given up before the transaction commits; group-commit cycles overlap; flushes
overtake each other and may fail halfway; servers take ranges over from each
other by a row in the database; streams break and are noticed late; clients
give up halfway; cached routes outlive what they were read from. The list
`hazards` in `PROJECT.json` gives the places in the code.

## Modules

**`LockTableState`, `LockTable`, `RangeLock`.** Each method runs under one write
lock and is one step. `LockTableState` has the methods as operators, which the
range modules reuse. `LockTable` lets any caller call anything. `RangeLock` is
the abstract lock: one owner, never idle while wanted, passed only to someone
who asked. `Abstract` in `LockTable` is the refinement mapping.

**`RangeState`, `RangeManager`.** `RangeState` has the pending state and the pure
parts of the handlers, among them the early-release heuristic with the code's
thresholds. `RangeManager` has a step for the code between two awaits another
handler can observe: `get*`, `prepare*`, `abort*`, `commit*`. A value is the
transaction that put it. The callers do what the coordinator and the resolver
guarantee. A commit call is sent after those of the dependencies of its batch,
or with them (`MayCommit`); it need not find them answered, so calls overlap. A
scenario fixes the commit strategy, the heuristic, the work of each transaction
and the transactions in `mayFail`, whose abort may meet or overtake a get or a
prepare of theirs that is being served, or still on its way.

**`GroupCommit`, `Resolver`.** Every map of the group commit has its own lock, so
the steps of an add and of several cycles interleave. `Resolver` adds the
dependency counts, notification and registration. A round of the loop of
`register_committed_transactions` pops a transaction and visits its dependents
(`popResolved`), in every order, as a hash set may; `resolveAll` is what the loop
leaves behind. A batch may fail, in the state store (which may have recorded it
all the same) or at its range, and a client may give up while it waits
(`giveUp`); the notification that then panics ends the task that sends it, with
what it had not notified yet.

**`CommitProtocol`.** Coordinators, ranges, the state store and the resolver
together, the store by the operators of `TxStateStore`. A range server knows a
transaction from its first get there to its first commit there, and refuses to
prepare one it does not know. A range has one key and takes one step each to wait
for its lock, to prepare and to commit; its abort takes two, as the lock may
change hands between them. A scenario has a program for every transaction, a
server for every range and the transactions in `mayFail`. The task that prepares
one of those may panic (`preparePanics`): the coordinator aborts it although
ranges may have prepared it, released its locks early and let others read what it
wrote. Calls on their way are still served, and the abort calls race them. After
a refused prepare the coordinator panics without an abort. The resolver is
reduced to what `Resolver` shows of it: a transaction waits for the dependencies
in `pending`; a registration makes ready, at once, the least set of transactions
with nothing else to wait for (`newReady`), and a range sees each after those of
the set it depends on (`behind`). This reduction is argued, not checked by a
refinement.

**`TxStateStore`.** What each statement of the state store does to the status of a
transaction. Its commit is unconditional; only the abort is a conditional write.

**`Frontend`.** Any client may send any request on any transaction it has heard
of, at any time. A request is one step per await: find the transaction, wait for
its mutex, call the coordinator, and for a commit sample the number of clients,
prepare, decide or go through the resolver, remove, count down. The coordinator
is its state, its two buffers and their copy sent with the prepares; the ranges
only answer or fail. `drop` ends a handler at an await, as the server does when
the client is gone; the mutex is released and nothing else undone.

**`PrefetchingBuffer`.** The buffer with `prefetch`, the end of commit, and what
`get` would see. A value is the number of its commit. Commits hold the range's
state for reading only, so several may be between storage and the buffer. The one
call of `process_transaction_complete`, in `abort`, is commented out: eviction is
modelled as an operation the buffer offers, for transactions whose prefetches have
returned.

**`Wal`.** Several servers with a buffer each, one table. A flush is five steps:
drain, give out offsets, write entries, write metadata, read back. Every call
may fail with or without effect, and a server may crash. Nothing in the server
calls `trim_before_offset` yet; its caller is assumed to ask for an offset up to
the end of the log, which the code does not check: one beyond it would move the
first offset past the next one.

**`MemTable`.** The ring with its byte counts. The server does not use
`MemTableDB` yet, so this is a model of the cache by itself. The cache has one
writer and readers behind a lock, so each call is one step. A write is known by
its position in the history of accepted writes; `get` is a set, because the order
of two writes of a key in one epoch is the skip list's.

**`Universe`, `RangeClient`.** `Universe` has the rows, the conditional creation,
whose acknowledgement may be lost, and the three readings of a range's bounds:
the oracle's, the warden's and the range server's. `RangeClient` follows a call
from the oracle's caches, both with the strings they are keyed with, through the
pool, the connection and the server's message loop to the answer (a get or a
prepare of a key outside the range it was sent to is refused, other answers are
arbitrary), while
keyspaces are created and the server starts, is cancelled or crashes.

**`RangeLoading`.** One range, several servers. Tasks go through
`maybe_load_and_get_range`, `load` and the statements on the lease row, holding
the lock of the table where the code does.

**`Warden`.** The assignment loop, split at its database call; registration;
streams over a channel that keeps one version; and the range server's end,
which disconnects and restarts.

Definitions described as a *faulty variant* are not part of the model: each is a
plausible mistake in the definition after it, and TLC refutes a property with it.

## Runs

State counts are from TLC with two workers.

| Run | States | Shows |
|---|---|---|
| `lock_table` | 101,461 | No request is lost or answered twice, the lock is not idle while wanted, grants are in order, every request is answered, `RangeLock` is refined |
| `range_manager` | 765,414 | Two-phase locking holds, no read-modify-write is lost unless commits of its key overlap, no handler panics, dirty reads become dependencies, log order follows dependencies, finished transactions leave nothing, all end |
| `resolver` | 152,631 | No assertion fails, ranges apply once, "done" means applied everywhere, a sole dependency is applied first, all commit if nobody fails |
| `commit_protocol` | 849,880 | Atomic, recoverable and serializable (with blind writes, in each range), also when a transaction is aborted after others have read what it wrote; all end but those that wait for one that was given up |
| `frontend` | 565,082 | A transaction ends in one way, nothing is written after it prepares, the count of clients never goes below zero, every request is answered |
| `prefetching_buffer` | 200,348 | Reads are fresh unless a put raced a fetch or another commit, no panic, every prefetch returns |
| `wal` | 259,232 | No holes, acknowledged records are in the log while nothing failed, every append is answered |
| `memtable` | 454,510 | A read finds the latest write up to its epoch or nothing; what is newer than every clear is found |
| `range_client` | 1,139,909 | A request goes to the range its keyspace was created with, no get or prepare finds its key out of range, every call ends |
| `warden` | 3,113,413 | No range forgotten, servers up to date hold their ranges, a late disconnect does no harm to a server that has not restarted |
| `range_loading` | 1,003,850 | Leaders have distinct numbers and disjoint leases apart from the ownership race below; every load returns |

`resolver_order` ends in a counterexample, where the code differs from a comment
in it: a transaction counts as resolved once it is in a group, so a dependent of
two transactions may be applied before one of them. `SoleDependencyFirst`, in
the passing run, is what holds of the order.

### Properties with a precondition

Some properties hold only outside a case that the model contains and in which
the code does not give the guarantee. They must not be read as covering it.

- `HoldsLock` excludes `LockStolen`, `NoLostUpdate` and `FinishedLeavesNothing`
  hold under `NoneOvertaken`, and `EveryTransactionEnds` of `RangeManager` allows
  `Stuck`: `abort` checks the holder, waits for a flush and then releases whoever
  holds the lock. When it overtakes a prepare of its own transaction that gives
  the lock up, early or because it only read, the next holder loses the lock and
  an update may be lost. A get whose handler was dropped may be granted the lock
  after the abort, and keep it.
  `WalFollowsDependencies` leaves out `LockStolen` and transactions aborted in
  a call, whose prepare goes on without the lock: it may append its record after
  one that depends on it has, or depend on one that is not yet appended.
  `Stuck` also allows a commit refused by storage (every delete is: six values
  for five markers).
- `NoLostUpdate` excludes the keys in `overlapped`: keys of a commit that was sent
  while the commit of a change it depends on was under way. The resolver sends
  such calls in a diamond of dependencies (`resolver_order`); the two may reach
  storage in the wrong order, which loses an update, or the buffer, from which
  the next get reads.
- `Recoverable` is about transactions that the coordinator committed or a range
  applied. The resolver answers a transaction without writes at once
  (`resolver.rs:72-76`), whatever it has read: it is told that it committed
  although what it read may be aborted afterwards. `Serializable` leaves such
  transactions out (`Misled`).
- `Serializable` excludes `Exposed`: an abort call that overtakes the prepare of
  its transaction has released the lock of another, or an aborted transaction had
  kept the lock of a range and cleared the pending entry of an earlier change,
  which the next reader then misses.
- `EveryTransactionEnds` of `CommitProtocol` allows `Stranded`: transactions that
  wait for one whose coordinator has given it up with a lock held (a refused
  prepare, a prepare served after the abort) or that depend on one that was
  aborted after they had read from it, which the resolver never registers. It also
  allows `Entangled`: a transaction that writes a range it has not read may be
  blocked there by one that already depends on it and waits for it at the resolver.
- `Serializable` asks for one order of all transactions unless one of them writes
  a range it has not read; then for one order in each range. A read-only
  participant gives its lock up while the blind write still waits for its own.
  It is claimed of the run's three transactions only. Four that depend on each
  other as a diamond refute it: the last is made ready by the second of its
  dependencies while the commit of the first is still on its way to the range,
  overtakes it there and is overwritten by it. This is the case that
  `resolver_order` shows in the resolver itself.
- `NoPanic`, `NoLostUpdate` and `FinishedLeavesNothing` of `RangeManager` are
  checked, and proved, where all keys of a request decide alike on early release
  (`EvenDecisions` in `RangeManagerProofs`), as a comment in `prepare` says they
  do. Under LockContention with writes of several keys they may differ: the lock
  then follows one key and the pending table the others, and the first two
  properties are false of the code. `HoldsLock`, `DirtyReadsAreDependencies` and
  `WalFollowsDependencies` need no such condition.
- `NoPanic` of `Resolver` leaves out the notification of a client that has given
  up, whose unwrap does fail. `EveryTransactionCommits` is about behaviours
  without a fault.
- `RoutedAsCreated` and `NeverOutOfRange` exclude `Clash`: the caches' strings
  have no separator, and keys are looked up under one string and stored under
  another, so two strings may be equal by accident.
- A keyspace created without ranges is meant to cover all keys, but the oracle
  takes an empty upper bound as the smallest key and finds none in it; such calls
  end without a range. So no property says that every key has one.
- `ListedInItsRegion` (proved) excludes another cloud called by a public cloud's
  name: it is read back as the public one.
- `EveryCallEnds` excludes `Stranded`: a request that is accepted before the
  server listens is given to nobody, and no side has a timeout.
- `NeverStale` and `KeptUntilCleared` exclude `Ambiguous`, two writes of a key in
  one epoch, and the writer's epochs never decrease, which the cache relies on
  and does not check. The callback is given the epoch of the new table, where a
  comment speaks of the full one; nothing depends on it.
- `LeadersAreExclusive` excludes `stray`: two servers that start from the same
  leader number both read back the number they wanted, and both load the range.
  Leader numbers differ among the other managers even then; leases are claimed to
  be disjoint only while no manager is stray.
- `FreshUnlessRaced` excludes `raced`: a put during a fetch is overwritten by
  the older value; commits of a key that overlap may tell the buffer in the wrong
  order; a deleted key nobody requested stays in the buffer.
- `AckedUnlessFailed` holds while no database call has failed and one server has
  synced, since the result of a flush is ignored.
- `StaysRegistered` excludes servers that have restarted: their epochs start
  again, so an old disconnect can unregister the new connection.
- `Synchronised` is about streams that have sent an update. A stream opened
  between two versions sends nothing.
- `NoRangeLost` says that a range has an assignee, not that the assignee is there:
  after a pass whose assignment could not be stored, the ranges of a server that
  has gone stay with it until the set of ready servers changes again.
- The warden may give a removed server its ranges back: its heap of candidates
  still has it. So no property says that only ready servers are assigned ranges.
- `ClientsCounted` is one-sided. Aborts, failed commits and dropped handlers
  leave the count too high, and a read-modify-write that fails halfway leaves
  its transaction in the table.
- `OneFetchPerKey` (proved) excludes keys whose fetch has failed.

### Bounds

- `lock_table`: 3 transactions, 5 calls. Two waiters and a second call of the
  holder suffice for every queue operation.
- `range_manager`: 3 transactions, 2 keys, 15 scenarios. `Plain` has each
  strategy with 4 workloads (read-modify-writes, a write of two keys, blind and
  read-only, a delete) and loads 0 and 5000, so that Adaptive decides both ways.
  `Contended` has the LockContention heuristic with one key per write and loads
  on both sides of its threshold; its thresholds of waiting requests are lowered
  to 0 and 1, which two waiters reach. `Overtaken` has the racing abort of a
  writer, beside a transaction that depends on it and one on the other key,
  `OvertakenReader` that of a read-only transaction beside two writers.
- `resolver`: 4 transactions in a chain, a closure, a fan-in and a diamond, on 2
  ranges; 2 faults, so that a client can give up in a batch that also fails.
- `commit_protocol`: 3 transactions, 2 ranges, 9 scenarios: 4 sets of programs on
  two servers; blind writes on one server; a blind write that a server which was
  not read from refuses; and 3 in which the first transaction's prepare may panic,
  after others have read what it wrote, after it has hidden a change, or so that
  its abort finds a lock it has just given up. The strategies are Traditional and
  Adaptive; with the load 0 Adaptive releases as Pipelined does, and the
  coordinator does not tell the two apart. All programs read their ranges in one
  order, because wait-die is disabled in the code and opposite orders deadlock.
  There are no deletes: a delete-only participant is never sent the commit. Three
  transactions do not make the diamond of `resolver_order`.
- `frontend`: 2 transactions, 1 key, 4 requests of any kind, 1 dropped handler.
  Four requests are a start, two that race on its transaction and one after
  them. The window of client samples has one element.
- `prefetching_buffer`: 3 transactions, 1 key, 3 commits that may all overlap;
  keys are independent.
  Deletes are accepted here, although Cassandra's batch refuses them, so that
  the buffer's own `delete` is exercised.
- `wal`: 2 servers, 2 entries, 1 failure, 1 crash.
- `memtable`: 3 tables of 24 bytes, values of 2 and 15 bytes, 2 keys, epochs up
  to 2, 4 writes. Two small entries fit in a table and a large one only alone, so
  four large ones go round the ring to a table that was cleared.
- `range_client`: 2 calls, 2 of 3 keyspaces at a time, 2 keys, 1 crash. The
  letters are chosen so that both kinds of `Clash` happen, and the layouts have
  touching, overlapping, unbounded and no ranges. Gets and prepares are both sent
  to ranges with an empty bound.
- `warden`: 2 servers, 2 ranges (symmetric), 2 versions, 2 epochs, 1 failure, 1
  restart. The smallest bounds with a stream that lags.
- `range_loading`: 3 tasks on 2 servers, 3 updates, 1 failure.

Deadlock is checked except in `warden` and `range_loading`, which stop when
their bounds are used up. Where a bounded system ends, a stuttering step
(`Quiet`, `Idle` or `Done`), enabled only when everything is over, keeps that end
from counting as a deadlock.

### Fairness

Handlers and background work are tokio tasks, so a task that can go on
eventually does. Most modules state weak fairness of "some task takes a step",
which is weaker than fairness of each task and suffices: their tasks come to an
end, so that one cannot starve another for ever.
`Wal` states it per server for the flush timer and for sync. `LockTable` assumes
that a holder releases, which the range manager's handlers have to provide.
`RangeClient` assumes that some call goes on when one can; that the server is
accepting or listening is not assumed, since a call to a server that is down
fails. `MemTable` and `Warden` have no liveness property.
Client aborts, failures, crashes, disconnects and trims are never fair.

## Proofs

`LockTableProofs` proves for every set of transactions and channels:

- `TypeCorrect`, `RequestsAreKept` (`NoLostRequest`), `LockIsNeverIdle`
  (`NoIdleLock`): invariants of `Spec`;
- `GrantsInOrderHolds`: the action property `GrantsInOrder`;
- `Refinement`: `Spec` implies `RefinesRangeLock`.

The only assumptions are that `None` is not a transaction and that channels are
natural numbers. The three invariants are proved together as `IInv`, which adds
`Numbered`: the channel of the i-th request is i. It is needed because a fresh
request must be known to be in no queue; without it `Append` could break
injectivity. `Invariance` has one lemma per method; `StepRefines` uses `IInv` on
both sides of a step. The lemmas on `Append` and `Tail` say what they do to the
range and the injectivity of a sequence. `GrantsInOrder` follows from `Numbered`
and the injectivity of the queues: the head of a queue is its oldest request.

`RangeManagerProofs` proves the six invariants of `RangeManager` for any
transactions, keys and set of scenarios, from `RangeManagerAssumption`,
`ThresholdAssumption` and those of the lock table. Four inductive invariants
build on each other.

- `LockInv` gives `HoldsLock`. `Requests` ties every queued or granted request to
  the place of its handler, `Calls` gives a transaction one commit call, `Owner`
  says why the holder holds, and `Exclusive`, unless the lock was stolen, that
  nobody in a critical section is without it. `HoldsLock` alone is not inductive:
  a release is harmless only if whoever calls it (an abort that has checked, a
  commit that has checked) still is the holder.
- `RecordInv` gives `DirtyReadsAreDependencies`. It ties the prepare records, the
  pending table, the log and the calls of commit to where each transaction is,
  and says that what storage and the buffer hold was applied by someone.
- `WalInv` adds that dependencies are logged before the lock is given up, and
  gives `WalFollowsDependencies`.
- `OrderInv` and `ValueInv` are about the order in which the changes of a key are
  published (`Precedes`). The pending entry names the last of them
  (`PendingIsLast`); one that is not retired is followed by a pending one or by a
  transaction that keeps the lock (`PendingOrKept`); a transaction depends on the
  changes before its own, or on one that follows them (`DependsOnChangers`); so
  they are sent to commit in that order (`CommitsInOrder`), and arrive in it for
  keys whose commits never overlapped. A read of such a key then finds the last
  published change (`ReadsLast`), whether it is in the pending table, the buffer
  or storage, and storage is written in order (`AppliedInOrder`). They give
  `FinishedLeavesNothing`, `NoPanic` and `NoLostUpdate` in behaviours with
  `EvenDecisions`, `NoPanic` as long as no abort has overtaken a prepare.

`NextLock` and `NextRecords` hold one lemma per step of a handler as their own
named steps, because nothing else uses them.

`WalProofs` proves `NoHoles` and `AckedUnlessFailed` for any servers and entries
and any number of failures and crashes, from `WalAssumption` (`None` is no
number, server, log state or flush; the bounds are numbers). `HoleInv`: a flush
holds the state lock, so the state counts its entries (`FlushLocks`); past its
first batch its rows are there (`FlushFilled`); and all rows up to the metadata's
next offset are there or trimmed. The condition of the metadata update (`IF
next_offset`) joins the flush's rows to those. `AckInv` adds, while one
server writes and nothing has failed, that state and metadata agree up to the
flush under way (`Agrees`), that no entry is in two batches (`WaitingApart`) and
that rows beyond the metadata belong to that flush or to one cut short by a crash
(`Covered`).

`ResolverProofs` proves `NoPanic`, `AppliedOnce`, `DoneMeansApplied` and
`SoleDependencyFirst` of `Resolver`, for any finite sets of transactions and of
ranges, any dependencies and writes (cyclic ones too) and any faults, from
`GroupAssumption` and `WorkloadAssumption`. `IInv` follows a transaction that the
resolver has made ready. At a range it writes it is in one place: the call of
`add_transactions` under way (`AddingOK`), the range's group (`GroupsOK`), a
batch of one cycle (`HeldOK`) or what the range has applied (`AppliedOK`).
`CountOK` says that `num_pending_participant_commits` is the number of ranges it
has not come back from, plus the times it is among the returned ones, plus the
times cycles have collected it and not counted yet; so no subtraction wraps and
one cycle finds it finished, after its last range. `Counted` says that
`num_dependencies` is the number of transactions that have it as a dependent,
`HasSender` that whoever will be notified has a sender, `RegisteredOK` that only
what is applied everywhere is registered, and `InOrder` that in each place the
sole dependency of a transaction stands before it. `AppliedOnce` alone is not
inductive, because cycles overlap and nothing else keeps two of them from holding
one transaction. Two loops need an induction of their own, done by least
counterexample: what `pushed` picks from a vector (`Picked`), and the rounds of
`resolveAll` (`Cascade`): the counts are those of `Counted` in every round, what
became ready is in the list once, and after its sole dependency.

`CommitProtocolProofs` proves `Atomic` and `Recoverable` for any transactions,
ranges, programs and strategies, from `ScenarioAssumption` and `NoneAssumption`.
`Phases` says of every transaction that it is undecided and applied nowhere, or
decided, and then each range it put to has applied it or is about to. `Sealed`
says that what is recorded committed or ready is decided, so that no abort, of a
client or after a panic, comes later. `ReadsKnown`
says that what was read is committed or a dependency, `SentInOrder` that what is
sent to ranges has no dependency or is ready, and that the dependencies of a
ready transaction are registered or ready, and `WaitsForAll` that a waiting one
waits for all its other dependencies. `Recoverable` alone says nothing of a
transaction that has read and not been applied. That `newReady` is closed in this
sense is read off its definition as a least set.

`CoordinatorProofs`, on the frontend, proves `OneOutcome`, `NothingAfterPrepare`
and `ClientsCounted` for any finite sets of transactions and keys, any number of
requests and of dropped handlers (`FrontendAssumption`). In `IInv`, `AtCall` ties
where a handler is to the call it is making; `Alone` says that a transaction
being started is known to no other handler; `Ending` and `Life` relate the
handlers that end a transaction to its state and its row; `OneCommits` says that
one handler at most is past the state check of a commit. The answers alone are
not inductive: between the state check and the answer a handler gives the mutex
up, and only `Ending` remembers what it will say. `Listed` says when a committing
handler has taken the transaction out of the table, so that each counts down
once. The count itself is kept apart: each step is shown to be a `CountStep`,
which changes the count by at most one, together with the set of transactions it
covers, and `Covered` follows from that with the library's facts on cardinality.
The frames and the steps that do not end a transaction come first, then those
that do.

`CoordinatorProofs`, on `RC`, the range client, proves `RoutedAsCreated`,
`NeverOutOfRange`, `OneClient` and `ListedInItsRegion` for any keyspaces,
layouts, keys, calls and crashes, from `UniverseAssumption`, `CloudAssumption`
and `ClientAssumption`. `ClientIInv`: `Directory` says that rows are what their
creation asked for and are never replaced, `InfoCache` and `KeyCache` what
strings the caches have entries for, `Resolving` that a call has its keyspace's
range or a clash, `Answering` that only a waiting call has a connection or an
answer, `Pooled` that its client is the pooled one. The lemma `WardenAccepts` has
the heart of `NeverOutOfRange`: the warden's reading of bounds only drops some of
the oracle's.

`RangeCacheProofs`, on the memtable cache, proves `NeverStale` and
`KeptUntilCleared` for any number and size of tables, keys and accepted writes,
from `MemTableAssumption` (there is a table; lengths and epochs are numbers).
`Age` is the distance of a table from the mutable one on the walk of `get`.
`Ordered` says that the tables in use are the first on that walk and hold ever
older writes, `Bounded` that the epochs of a table enclose those of its entries,
and `Dropped` that a write in no table was cleared, with all before it. The walk
stops at the first table with an entry for it, and `Ordered` is what makes that
entry the newest. A switch to the next table of the ring turns every age by one:
the farthest table becomes the mutable one, which is why it has to be free.

`RangeCacheProofs`, on `PB`, the prefetching buffer, proves, for all
transactions, keys and numbers of commits, that types are kept, that no unwrap
fails (`NeverPanics`), that a key has one fetch (`FetchIsSingle`) and that reads
are fresh (`ReadsAreFresh`), each with the precondition given above. `None` is
assumed not to be a number, and the bound on commits to be one. `BufferIInv` adds
to these `Requests` (the key of a running call is requested, so it is not evicted
under the call), `Numbers` (the running calls for a key have one fetch number,
that of its state), `Unfailed` (while no fetch of a key has failed nobody retries
and there is one fetch), `Latest` (of the commits of a key that are under way,
the last one has what storage has, unless the buffer was told out of order) and
`Fresh` (outside the commits of a key the buffer agrees with storage, and what a
fetch has read is storage's value or will be ignored). Freshness of the buffer
alone is not inductive: nothing would constrain the value a call carries from its
read to `fetch_complete`.

`AssignmentProofs`, on `RL`, the loading of ranges, proves types and
`OwnershipIsExclusive` (`LeadersAreExclusive`) for any servers, tasks and
failures, from `LoadingAssumption`. `LoadingIInv`: `Loaders` says a manager is
loaded by one task only and has no outcome before; `Numbers` that leaders, from
their update of the row on, have different numbers up to the row's; `Leases` that
the leader with the row's number knows the row's lease and all leases given
before end earlier. `Leases` holds as long as no stray manager has gone on
(`Clean`), which is weaker than `stray = {}` because a stray manager may still be
found out by its second read.

`AssignmentProofs`, on the warden, proves `StaysRegistered`, `Synchronised` and
`NoRangeLost` for any servers, ranges and bounds, from `RankAssumption` and
`RangeAssumption` (finitely many ranges; `None` is no server). `StreamsAreOld`
and `EpochsAreLast` order epochs: a stream is never newer than its server's last
epoch. `Delivered` follows an update through the inbox: its last message, or else
the ranges held, are the current version's. `NoRangeLost` has an invariant of its
own, `RangeInv`: the version a pass has computed and not yet published keeps
every assignee and gives one to base ranges only (`Kept`). That the loop over the
ranges computes such a version is an induction over its steps, which the lemma
`AssignKeeps` does by least counterexample: the first step that would break
`Kept` has a predecessor that does not. Each step takes an entry from a heap that
is not empty, so there is a least loaded one (`LeastLoadedIsEntry`).

Three modules have the proofs of two components each. The second is instantiated
there, and what its module assumes of constants is a hypothesis of its theorems
(`ASSUME PB!BoundAssumption PROVE PB!Spec => []PB!NoPanic`); its
own run checks that assumption on the run's constants.

Proved and not model-checked by a run: the type invariants, `NoIdleLock`,
`OneFetchPerKey`, `OneClient` and `ListedInItsRegion`.

Model-checked only:

- liveness, which is out of the prover's reach;
- `Serializable` of `CommitProtocol`, which is false of four transactions (see
  above), so that no theorem for every set of transactions can state it;
- `DependenciesFirst` of `Resolver`, which the code violates.

## Not modelled

- Replay of the log on load and renewal of leases: absent or commented out in
  the code.
- Coordinator panics on errors of the state store and of commit calls; a refused
  prepare and a prepare task that panics are modelled.
- A panic inside `load_inner`, for a row of the database that is missing or
  malformed. The manager would stay in `Loading`, whose sender keeps the channel
  open, so that those who wait for the load would wait on.
- Incremental assignments, which a range server accepts and the warden never
  sends.
- A client of the resolver that gives up while its transaction is being added to
  the groups; one that gives up while it waits is modelled.
- The frontend's sampling of the resolver's load: the load is arbitrary in
  `CommitProtocol`. Its creation of keyspaces only forwards to `Universe`.
- A read of part of a message, which panics the reader; the UDP network; the
  refresh of a range's host, which is a `todo!()`; the host is fixed.
- The prefetch service, which uses the first key of a request only.
- Epoch publishers: the reader in use is a counter of its process.
- Statistics, message encodings, schema, deployment, load generators.

## Plan

1. A refinement from `Resolver` to the readiness rule used in `CommitProtocol`.
2. The scenarios for which `Serializable` holds of any number of transactions:
   those in which a transaction has one dependency at a time.
3. Recovery properties: a failed load can be tried again; a reconnected server
   learns its ranges; two servers never load with one leader number.
4. Deletes and opposite lock orders in `CommitProtocol`.
