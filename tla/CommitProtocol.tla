--------------------------- MODULE CommitProtocol ---------------------------
(***************************************************************************)
(* The commit protocol from end to end: coordinators                       *)
(* (coordinator/src/transaction.rs), the ranges they read and write, the   *)
(* transaction state store (tx_state_store) and the resolver.              *)
(*                                                                         *)
(* A range is reduced to one key, so a key stands for its range: reads     *)
(* and writes of a transaction in a range are reads and writes of the key, *)
(* and lock[k] is the lock of the range.  RangeManager shows what a range  *)
(* does step by step; here a range takes one step where it waits for its   *)
(* lock, one where it prepares and one where it commits.  The resolver is  *)
(* reduced to what Resolver shows of it: a transaction is made ready once  *)
(* its dependencies are registered or made ready themselves, and a range   *)
(* sees it after those it is made ready with.                              *)
(***************************************************************************)
EXTENDS RangeState, TxStateStore

CONSTANTS Scenarios,      \* [program, hosting, mayFail]: a program for every transaction,
                          \* a server for every range, and the transactions whose calls
                          \* may be given up while they are served
          Strategies, Loads, Server

VARIABLES
    strategy, scenario,     \* fixed by Init
    \* ranges
    lock, granted, pending_prepare_records, pending_commit_table, store, applied,
    transaction_table,      \* server -> transactions it knows
    \* coordinators
    state,                  \* Running, Preparing, Aborted, Committed
    participant,            \* transaction -> range -> what it is doing there
    aborts,                 \* abort calls, [tx, range, at]
    readset,                \* transaction -> range -> writer of the value read
    dependencies,
    any_early_lock_releases,
    load,                   \* resolver load the commit call carries, which only the
                            \* adaptive strategy looks at
    \* transaction state store
    status,
    \* resolver
    ready, resolved_transactions,
    pending,                \* dependencies a transaction still waits for
    behind,                 \* dependencies it was made ready with
    \* history
    stolen,                 \* ranges whose lock was released by another than its holder
    hid                     \* transactions that cleared the pending entry of another

rangeVars == <<lock, granted, pending_prepare_records, pending_commit_table, store, applied,
               transaction_table>>
coordVars == <<state, participant, aborts, readset, dependencies, any_early_lock_releases, load>>
resolverVars == <<ready, resolved_transactions, pending, behind>>
history == <<stolen, hid>>
vars == <<strategy, scenario, rangeVars, coordVars, status, resolverVars, history>>

(* A program: the ranges read, in order, and those put to and deleted in.  *)
Program == [gets : Seq(Key), puts : SUBSET Key, deletes : SUBSET Key]

ASSUME ScenarioAssumption ==
    \A s \in Scenarios : /\ s.program \in [Transaction -> Program]
                         /\ s.hosting \in [Key -> Server]
                         /\ s.mayFail \subseteq Transaction

program == scenario.program
Hosting == scenario.hosting

Participants(tx) ==
    Range(program[tx].gets) \cup program[tx].puts \cup program[tx].deletes
HasReads(tx, r) == r \in Range(program[tx].gets)
Writes(tx, r) == r \in program[tx].puts \cup program[tx].deletes

(* What the coordinator calls has_writes when it commits: deletes do not   *)
(* count.                                                                  *)
SentCommit(tx) == program[tx].puts

work == [tx \in Transaction |-> [reads |-> Range(program[tx].gets),
                                 puts |-> program[tx].puts,
                                 deletes |-> program[tx].deletes]]

Init ==
    /\ strategy \in Strategies
    /\ scenario \in Scenarios
    /\ lock = [r \in Key |-> newLockTable]
    /\ granted = {}
    /\ pending_prepare_records = [r \in Key |-> {}]
    /\ pending_commit_table = [r \in Key |-> None]
    /\ store = [r \in Key |-> None]
    /\ applied = [r \in Key |-> << >>]
    /\ transaction_table = [s \in Server |-> {}]
    /\ state = [tx \in Transaction |-> "Running"]
    /\ participant = [tx \in Transaction |-> [r \in Key |-> "none"]]
    /\ readset = [tx \in Transaction |-> << >>]
    /\ dependencies = [tx \in Transaction |-> {}]
    /\ any_early_lock_releases = [tx \in Transaction |-> FALSE]
    /\ load = [tx \in Transaction |-> None]
    /\ status = [tx \in Transaction |-> start_transaction("absent")]
    /\ ready = {}
    /\ resolved_transactions = {}
    /\ pending = [tx \in Transaction |-> {}]
    /\ behind = [tx \in Transaction |-> {}]
    /\ aborts = {}
    /\ stolen = {}
    /\ hid = {}

At(tx, r, there) == participant' = [participant EXCEPT ![tx][r] = there]

LockCall(tx, r, call) == [transaction |-> tx, channel |-> <<call, r>>]

Acquire(tx, r, call) ==
    LET q == LockCall(tx, r, call)
    IN  /\ lock' = [lock EXCEPT ![r] = afterAcquire(@, q)]
        /\ granted' = IF grantedAtOnce(lock[r], q) THEN granted \cup {q} ELSE granted

Granted(tx, r, call) == LockCall(tx, r, call) \in granted

(* The range server's transaction table: a get enters the transaction, a   *)
(* commit at one of the server's ranges removes it.  Nothing else does.    *)
maybe_start_transaction(tx, s) ==
    transaction_table' = [transaction_table EXCEPT ![s] = @ \cup {tx}]

get_transaction_info(tx, s) == tx \in transaction_table[s]

remove_transactions(ids, s) ==
    transaction_table' = [transaction_table EXCEPT ![s] = @ \ ids]

---------------------------------------------------------------------------
(* Running: the program's gets, one at a time                              *)

nextGet(tx) == program[tx].gets[Cardinality(DOMAIN readset[tx]) + 1]
GetsDone(tx) == DOMAIN readset[tx] = Range(program[tx].gets)

get(tx, r) ==
    /\ state[tx] = "Running" /\ ~GetsDone(tx) /\ r = nextGet(tx)
    /\ participant[tx][r] = "none"
    /\ Acquire(tx, r, "get")
    /\ At(tx, r, "get")
    /\ maybe_start_transaction(tx, Hosting[r])
    /\ UNCHANGED <<strategy, scenario, pending_prepare_records, pending_commit_table, store,
                   applied, state, aborts, readset, dependencies, any_early_lock_releases, load,
                   status, resolverVars, history>>

getReply(tx, r) ==
    LET writer == pending_commit_table[r]
        dirty  == strategy # "Traditional" /\ writer # None
    IN  /\ participant[tx][r] = "get" /\ Granted(tx, r, "get")
        /\ granted' = granted \ {LockCall(tx, r, "get")}
        /\ readset' = [readset EXCEPT ![tx] =
                          Insert(@, r, IF dirty THEN writer ELSE store[r])]
        /\ dependencies' = IF dirty
                           THEN [dependencies EXCEPT ![tx] = readDependencies(@, writer)]
                           ELSE dependencies
        /\ At(tx, r, "read")
        /\ UNCHANGED <<strategy, scenario, lock, pending_prepare_records,
                       pending_commit_table, store, applied, transaction_table, state, aborts,
                       any_early_lock_releases, load, status, resolverVars, history>>

(* record_abort: every participant is called.                              *)
record_abort(tx, ranges) ==
    /\ state' = [state EXCEPT ![tx] = "Aborted"]
    /\ aborts' = aborts \cup [tx : {tx}, range : ranges, at : {"check"}]
    /\ status' = [status EXCEPT ![tx] = abort_transaction(@)]
    /\ UNCHANGED <<strategy, scenario, rangeVars, participant, readset, dependencies,
                   any_early_lock_releases, load, resolverVars, history>>

(* The client gives up before it commits; a get of a handler that has been *)
(* dropped may still be going on.                                          *)
BetweenGets(tx) == \A r \in Key : participant[tx][r] # "get"

Touched(tx) == {r \in Key : participant[tx][r] # "none"}

(* Faulty variant: check_still_running is left out.                        *)
abortUnchecked(tx) ==
    /\ state[tx] # "Aborted" /\ BetweenGets(tx)
    /\ record_abort(tx, Touched(tx))

abort(tx) ==
    /\ state[tx] = "Running"
    /\ BetweenGets(tx) \/ tx \in scenario.mayFail
    /\ record_abort(tx, Touched(tx))

Holds(tx, r) == isCurrentlyHolding(lock[r], {tx})

Release(r, violatable) ==
    /\ lock' = [lock EXCEPT ![r] = afterRelease(@, violatable)]
    /\ granted' = granted \cup grantedByRelease(lock[r])

(* History: tx releases the lock of the range.                             *)
Steals(tx, r) ==
    stolen' = IF lock[r].current_holder \in {tx, None} THEN stolen ELSE stolen \cup {r}

(* An abort call at the range: it looks whether the transaction holds the  *)
(* lock, and releases the lock when the record of the abort is durable.    *)
abortAtRange(a) ==
    /\ a.at = "check"
    /\ aborts' = (aborts \ {a}) \cup
                     (IF get_transaction_info(a.tx, Hosting[a.range]) /\ Holds(a.tx, a.range)
                      THEN {[a EXCEPT !.at = "release"]} ELSE {})
    /\ UNCHANGED <<strategy, scenario, rangeVars, state, participant, readset, dependencies,
                   any_early_lock_releases, load, status, resolverVars, history>>

abortRelease(a) ==
    /\ a.at = "release"
    /\ Release(a.range, FALSE)
    /\ Steals(a.tx, a.range)
    /\ aborts' = aborts \ {a}
    /\ UNCHANGED <<strategy, scenario, pending_prepare_records, pending_commit_table, store,
                   applied, transaction_table, state, participant, readset, dependencies,
                   any_early_lock_releases, load, status, resolverVars, hid>>

---------------------------------------------------------------------------
(* Preparing: one call per participant, all in parallel                    *)

commit(tx) ==
    /\ state[tx] = "Running" /\ BetweenGets(tx) /\ GetsDone(tx)
    /\ state' = [state EXCEPT ![tx] = "Preparing"]
    /\ participant' = [participant EXCEPT ![tx] =
                          [r \in Key |-> IF r \in Participants(tx) THEN "prepare"
                                         ELSE "finished"]]
    /\ \E l \in Loads : load' = [load EXCEPT ![tx] = IF strategy = "Adaptive" THEN l ELSE None]
    /\ UNCHANGED <<strategy, scenario, rangeVars, aborts, readset, dependencies,
                   any_early_lock_releases, status, resolverVars, history>>

(* A server refuses to prepare a transaction it does not know, and a range *)
(* that was read one that has lost the lock.                               *)
LockKept(tx, r) == HasReads(tx, r) => Holds(tx, r)

Accepts(tx, r) == get_transaction_info(tx, Hosting[r]) /\ LockKept(tx, r)

(* The coordinator panics when it meets the answer and the transaction     *)
(* stays as it is.                                                         *)
prepareRefused(tx, r) ==
    /\ participant[tx][r] = "prepare" /\ ~Accepts(tx, r)
    /\ At(tx, r, "refused")
    /\ UNCHANGED <<strategy, scenario, rangeVars, state, aborts, readset, dependencies,
                   any_early_lock_releases, load, status, resolverVars, history>>

prepareReadOnly(tx, r) ==
    /\ participant[tx][r] = "prepare" /\ ~Writes(tx, r)
    /\ Accepts(tx, r)
    /\ Release(r, FALSE)
    /\ At(tx, r, "prepared")
    /\ UNCHANGED <<strategy, scenario, pending_prepare_records, pending_commit_table, store,
                   applied, transaction_table, state, aborts, readset, dependencies,
                   any_early_lock_releases, load, status, resolverVars, history>>

prepareAcquire(tx, r) ==
    /\ participant[tx][r] = "prepare" /\ Writes(tx, r)
    /\ Accepts(tx, r)
    /\ Acquire(tx, r, "prepare")
    /\ At(tx, r, "acquire")
    /\ UNCHANGED <<strategy, scenario, pending_prepare_records, pending_commit_table, store,
                   applied, transaction_table, state, aborts, readset, dependencies,
                   any_early_lock_releases, load, status, resolverVars, history>>

(* The range decides, publishes the record and the pending entry, releases *)
(* the lock if it decided so, and answers.                                 *)
prepareReply(tx, r) ==
    LET early == doEarlyLockRelease(strategy, "OpenClients", lock[r], load[tx], 0)
        q     == LockCall(tx, r, "prepare")
    IN  /\ participant[tx][r] = "acquire" /\ Granted(tx, r, "prepare")
        /\ pending_prepare_records' = [pending_prepare_records EXCEPT ![r] = @ \cup {tx}]
        /\ IF strategy = "Traditional"
           THEN UNCHANGED <<dependencies, pending_commit_table>>
           ELSE /\ dependencies' = [dependencies EXCEPT ![tx] =
                                       @ \cup writeDependencies(pending_commit_table, {r})]
                /\ pending_commit_table' =
                      pendingAfterPrepare(pending_commit_table, tx, [k \in {r} |-> early])
        /\ lock' = IF early THEN [lock EXCEPT ![r] = afterRelease(@, TRUE)] ELSE lock
        /\ granted' = (granted \ {q}) \cup (IF early THEN grantedByRelease(lock[r]) ELSE {})
        /\ any_early_lock_releases' = [any_early_lock_releases EXCEPT ![tx] = @ \/ early]
        /\ At(tx, r, "prepared")
        /\ IF early THEN Steals(tx, r) ELSE UNCHANGED stolen
        /\ hid' = IF ~early /\ pending_commit_table[r] # None THEN hid \cup {tx} ELSE hid
        /\ UNCHANGED <<strategy, scenario, store, applied, transaction_table, state, aborts,
                       readset, load, status, resolverVars>>

(* The task of a prepare call panics before all have answered: the         *)
(* transaction is aborted although ranges may have prepared it, and given  *)
(* their locks up.  Calls that have been sent are still served.            *)
Outstanding == {"prepare", "acquire", "prepared", "refused"}

preparePanics(tx) ==
    /\ state[tx] = "Preparing" /\ tx \in scenario.mayFail
    /\ Participants(tx) # {}
    /\ \A r \in Participants(tx) : participant[tx][r] \in Outstanding
    /\ record_abort(tx, Participants(tx))

(* A coordinator that has given up drops its tasks: a call that was not    *)
(* sent yet never is.                                                      *)
prepareDropped(tx, r) ==
    /\ participant[tx][r] = "prepare"
    /\ state[tx] = "Aborted" \/ \E q \in Key : participant[tx][q] = "refused"
    /\ At(tx, r, "dropped")
    /\ UNCHANGED <<strategy, scenario, rangeVars, state, aborts, readset, dependencies,
                   any_early_lock_releases, load, status, resolverVars, history>>

---------------------------------------------------------------------------
(* Prepared everywhere *)

AllPrepared(tx) ==
    /\ state[tx] = "Preparing"
    /\ \A r \in Participants(tx) : participant[tx][r] = "prepared"

ViaResolver(tx) == strategy # "Traditional" /\ dependencies[tx] # {}

(* The participants that are told to commit; the others are done with.     *)
Sent(tx) == [r \in Key |-> IF r \in SentCommit(tx) THEN "commit" ELSE "finished"]

(* The coordinator commits the transaction itself.                         *)
decide(tx) ==
    /\ AllPrepared(tx) /\ ~ViaResolver(tx)
    /\ status' = [status EXCEPT ![tx] = commit_transaction(@)]
    /\ state' = [state EXCEPT ![tx] = "Committed"]
    /\ participant' = [participant EXCEPT ![tx] = Sent(tx)]
    /\ UNCHANGED <<strategy, scenario, rangeVars, aborts, readset, dependencies,
                   any_early_lock_releases, load, resolverVars, history>>

(* Faulty variants: dependencies resolved in the meantime are waited for;  *)
(* aborted ones are not.                                                   *)
unresolvedUnchecked(tx) == dependencies[tx]

unresolvedUnlessAborted(tx) ==
    {d \in dependencies[tx] \ resolved_transactions : status[d] # "aborted"}

unresolved(tx) == dependencies[tx] \ resolved_transactions

(* The resolver is called.  A transaction without writes is answered at    *)
(* once, one with nothing left to wait for is ready at once; the state     *)
(* stays Preparing in all cases.                                           *)
resolveNow(tx) ==
    /\ AllPrepared(tx) /\ ViaResolver(tx)
    /\ SentCommit(tx) = {} \/ unresolved(tx) = {}
    /\ ready' = IF SentCommit(tx) = {} THEN ready ELSE ready \cup {tx}
    /\ participant' = [participant EXCEPT ![tx] = Sent(tx)]
    /\ UNCHANGED <<strategy, scenario, rangeVars, state, aborts, readset, dependencies,
                   any_early_lock_releases, load, status, resolved_transactions, pending,
                   behind, history>>

resolveLater(tx) ==
    /\ AllPrepared(tx) /\ ViaResolver(tx)
    /\ SentCommit(tx) # {} /\ unresolved(tx) # {}
    /\ pending' = [pending EXCEPT ![tx] = unresolved(tx)]
    /\ participant' = [participant EXCEPT ![tx] = [r \in Key |-> "resolver"]]
    /\ UNCHANGED <<strategy, scenario, rangeVars, state, aborts, readset, dependencies,
                   any_early_lock_releases, load, status, ready, resolved_transactions,
                   behind, history>>

(* commit at the range: upsert, retire the pending state, release.  The    *)
(* group commit records the transaction as committed before it calls one.  *)
commitAtRange(tx, r) ==
    /\ participant[tx][r] = "commit"
    /\ \A d \in behind[tx] : participant[d][r] # "commit"
    /\ store' = [store EXCEPT ![r] = tx]
    /\ applied' = [applied EXCEPT ![r] = Append(@, tx)]
    /\ pending_commit_table' =
          [pending_commit_table EXCEPT ![r] =
              pendingAfterCommit(pending_commit_table, <<tx>>, work)[r]]
    /\ pending_prepare_records' = [pending_prepare_records EXCEPT ![r] = @ \ {tx}]
    /\ LET released == IF Holds(tx, r) THEN afterRelease(lock[r], FALSE)
                       ELSE lock[r]
       IN  lock' = [lock EXCEPT ![r] = afterCleanSoftReleased(released, {tx})]
    /\ granted' = granted \cup (IF Holds(tx, r)
                                THEN grantedByRelease(lock[r]) ELSE {})
    /\ remove_transactions({tx}, Hosting[r])
    /\ At(tx, r, "finished")
    /\ status' = [status EXCEPT ![tx] = commit_transaction(@)]
    /\ UNCHANGED <<strategy, scenario, state, aborts, readset, dependencies,
                   any_early_lock_releases, load, resolverVars, history>>

Finished(tx) == \A r \in Key : participant[tx][r] = "finished"

(* The transactions that a registration makes ready: the least set closed  *)
(* under having nothing else to wait for.                                  *)
waiting == {t \in Transaction : pending[t] # {}}

newReady(tx) ==
    {t \in waiting :
        \A ts \in SUBSET waiting :
           (\A u \in waiting : pending[u] \subseteq ts \cup {tx} => u \in ts) => t \in ts}

(* register_committed_transactions, by the coordinator if some range gave  *)
(* its lock up early, by the resolver's group commit otherwise.  The       *)
(* transactions it makes ready are grouped for their ranges in one call,   *)
(* each after those it depends on.                                         *)
register(tx) ==
    LET new == newReady(tx)
    IN  /\ Finished(tx) /\ status[tx] = "committed"
        /\ tx \notin resolved_transactions
        /\ any_early_lock_releases[tx] \/ tx \in ready
        /\ resolved_transactions' = resolved_transactions \cup {tx}
        /\ ready' = ready \cup new
        /\ pending' = [t \in Transaction |-> IF t \in new THEN {}
                                             ELSE pending[t] \ (new \cup {tx})]
        /\ behind' = [t \in Transaction |-> IF t \in new THEN dependencies[t] \cap new
                                            ELSE behind[t]]
        /\ participant' = [t \in Transaction |-> IF t \in new THEN Sent(t)
                                                 ELSE participant[t]]
        /\ UNCHANGED <<strategy, scenario, rangeVars, state, aborts, readset, dependencies,
                       any_early_lock_releases, load, status, history>>

---------------------------------------------------------------------------

coordinatorStep(tx) ==
    commit(tx) \/ decide(tx) \/ resolveNow(tx) \/ resolveLater(tx) \/ register(tx)

rangeStep(tx, r) ==
    \/ get(tx, r)
    \/ getReply(tx, r)
    \/ prepareRefused(tx, r)
    \/ prepareReadOnly(tx, r)
    \/ prepareAcquire(tx, r)
    \/ prepareReply(tx, r)
    \/ prepareDropped(tx, r)
    \/ commitAtRange(tx, r)

abortStep == \E a \in aborts : abortAtRange(a) \/ abortRelease(a)

(* A transaction none of whose calls can go on by itself.                  *)
Rests(tx) ==
    /\ \A a \in aborts : a.tx # tx
    /\ \A r \in Key : /\ participant[tx][r] \notin {"prepare", "commit"}
                      /\ ~Granted(tx, r, "get") /\ ~Granted(tx, r, "prepare")

(* Given up by its coordinator, whatever it still holds                    *)
GivenUp(tx) ==
    /\ Rests(tx)
    /\ state[tx] = "Aborted" \/ \E r \in Key : participant[tx][r] = "refused"

WaitsFor(tx, u) ==
    \/ u \in pending[tx]
    \/ \E r \in Key : participant[tx][r] \in {"get", "acquire"} /\ Holds(u, r)

(* A transaction that writes a range it has not read gives locks up before *)
(* it has the lock of this one.  It may come to depend, there, on one that *)
(* depends on it already: all of them wait for ever.                       *)
WritesBlindly(tx) == ~(program[tx].puts \subseteq Range(program[tx].gets))

Entangled(tx) ==
    \E ts \in SUBSET Transaction :
       /\ tx \in ts /\ \E u \in ts : WritesBlindly(u)
       /\ \A u \in ts : Rests(u) /\ \E v \in ts : WaitsFor(u, v)

(* Waiting for one that is given up, or for one that waits for such a one, *)
(* and so on: for its lock, or at the resolver for its commit.             *)
Stranded(tx) ==
    \A ts \in SUBSET Transaction :
       (\A u \in Transaction :
           \/ GivenUp(u)
           \/ Entangled(u)
           \/ Rests(u) /\ \E v \in ts : WaitsFor(u, v)
           => u \in ts) => tx \in ts

Over(tx) == Rests(tx) /\ (Finished(tx) \/ Stranded(tx))

AllOver == \A tx \in Transaction : Over(tx)

Quiet == AllOver /\ UNCHANGED vars

Next ==
    \/ \E tx \in Transaction : coordinatorStep(tx)
    \/ \E tx \in Transaction : abort(tx) \/ preparePanics(tx)
    \/ \E tx \in Transaction, r \in Key : rangeStep(tx, r)
    \/ abortStep
    \/ Quiet

Spec == Init /\ [][Next]_vars

(* Calls are delivered and tasks run; clients go on.  No behaviour repeats *)
(* a state.                                                                *)
FairSpec ==
    /\ Spec
    /\ WF_vars(\/ abortStep
               \/ \E tx \in Transaction :
                     coordinatorStep(tx) \/ \E r \in Key : rangeStep(tx, r))

---------------------------------------------------------------------------

(* All or nothing: an aborted transaction is applied nowhere, and when a   *)
(* transaction is over, every range it put to has applied it, once.        *)
Applied(tx, r) == tx \in Range(applied[r])

Atomic ==
    \A tx \in Transaction :
       /\ state[tx] = "Aborted" => \A r \in Key : ~Applied(tx, r)
       /\ Finished(tx) /\ state[tx] # "Aborted" => \A r \in program[tx].puts : Applied(tx, r)
       /\ \A r \in Key : IsInjective(applied[r])

(* No committed transaction has read from one that fails: when the         *)
(* coordinator has committed a transaction, or a range has applied it, all *)
(* that it read is recorded committed or has been made ready by the        *)
(* resolver, and is never aborted, although transactions are aborted after *)
(* ranges have let others read what they wrote.  The resolver answers a    *)
(* transaction without writes at once, whatever it has read: such a one is *)
(* not recorded committed, and may have read what is then aborted.         *)
Recoverable ==
    \A tx \in Transaction : state[tx] = "Committed" \/ (\E r \in Key : Applied(tx, r)) =>
       \A r \in DOMAIN readset[tx] :
          LET writer == readset[tx][r]
          IN  writer # None => /\ state[writer] # "Aborted"
                               /\ status[writer] = "committed" \/ writer \in ready

(* The transactions that committed could have run one after another, in an *)
(* order that explains every value read and the final value of every key.  *)
(* With blind writes there is such an order for each range, not always one *)
(* for all of them.  Left out are transactions that the resolver answered  *)
(* at once and that have read what was never committed.                    *)
Misled(tx) ==
    \E r \in DOMAIN readset[tx] :
       readset[tx][r] # None /\ status[readset[tx][r]] # "committed"

Survivors == {tx \in Transaction : Finished(tx) /\ state[tx] # "Aborted" /\ ~Misled(tx)}

LastBefore(order, i, r) ==
    LET writers == {j \in 1..(i - 1) : r \in program[order[j]].puts}
    IN  IF writers = {} THEN None ELSE order[Max(writers)]

Explains(order, r) ==
    /\ \A i \in 1..Len(order) :
          r \in DOMAIN readset[order[i]] => readset[order[i]][r] = LastBefore(order, i, r)
    /\ store[r] = LastBefore(order, Len(order) + 1, r)

(* An abort that overtakes a prepare can release the lock of another, and  *)
(* an aborted transaction that had kept the lock leaves the change that it *)
(* hid without an entry: the next reader misses it.                        *)
Exposed == stolen # {} \/ \E tx \in hid : state[tx] = "Aborted"

Serializable ==
    LET orders == Bijection(1..Cardinality(Survivors), Survivors)
    IN  AllOver /\ ~Exposed =>
           \/ \E order \in orders : \A r \in Key : Explains(order, r)
           \/ /\ \E tx \in Transaction : WritesBlindly(tx)
              /\ \A r \in Key : \E order \in orders : Explains(order, r)

(* Every transaction comes to its end, unless it waits for one that was    *)
(* given up with a lock held, or with a change that others depend on.      *)
EveryTransactionEnds == <>[]AllOver
=============================================================================
