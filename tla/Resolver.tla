------------------------------ MODULE Resolver ------------------------------
(***************************************************************************)
(* The resolver (resolver/src/core/resolver.rs) with its group commit, and *)
(* the coordinators that use it (the Adaptive | Pipelined arm of commit in *)
(* coordinator/src/transaction.rs).  A prepared transaction that depends   *)
(* on others is handed to the resolver; one that depends on nobody is      *)
(* committed by its coordinator, which then registers it.                  *)
(***************************************************************************)
EXTENDS GroupCommit

CONSTANTS Workloads,       \* [depends, writes]: what each transaction depends on and writes
          MaxFaults        \* bound on clients that give up and ranges that fail

ASSUME WorkloadAssumption ==
    \A w \in Workloads : /\ w.depends \in [Transaction -> SUBSET Transaction]
                         /\ w.writes \in [Transaction -> SUBSET ParticipantRange]

VARIABLES
    depends,                 \* transaction -> transactions it depends on
    num_dependencies,        \* info_per_transaction, 0 and {} when absent
    dependents,
    resolved_transactions,
    waiting_transactions,    \* transactions with a sender to be notified
    registering,             \* calls of register_committed_transactions not served yet
    coordinator,             \* what each transaction's coordinator is doing
    panicked                 \* an unwrap or an assert of the resolver failed

resolverVars == <<num_dependencies, dependents, resolved_transactions>>
vars == <<writes, depends, groupVars, effectVars, resolverVars, waiting_transactions,
          registering, coordinator, panicked>>

Init ==
    /\ \E w \in Workloads : depends = w.depends /\ writes = w.writes
    /\ GroupInit
    /\ num_dependencies = [tx \in Transaction |-> 0]
    /\ dependents = [tx \in Transaction |-> {}]
    /\ resolved_transactions = {}
    /\ waiting_transactions = {}
    /\ registering = {}
    /\ coordinator = [tx \in Transaction |-> "prepared"]
    /\ panicked = FALSE

(* The write lock of the resolver's state is free.                         *)
Unlocked == adding = None

CoordinatorGoes(tx, there) == coordinator' = [coordinator EXCEPT ![tx] = there]

(* Transactions whose coordinator was dropped while it waited              *)
gone == {tx \in Transaction : coordinator[tx] = "gone"}

Faults == Cardinality(gone) + (IF failed = {} THEN 0 ELSE 1)

---------------------------------------------------------------------------
(* The coordinator of a transaction without dependencies                   *)

directRecord(tx) ==
    /\ coordinator[tx] = "prepared" /\ depends[tx] = {}
    /\ committed' = committed \cup {tx}
    /\ CoordinatorGoes(tx, "committing")
    /\ UNCHANGED <<writes, depends, groupVars, applied, failed, resolverVars,
                   waiting_transactions, registering, panicked>>

directApply(tx, r) ==
    /\ coordinator[tx] = "committing"
    /\ r \in writes[tx] /\ tx \notin Range(applied[r])
    /\ applied' = [applied EXCEPT ![r] = Append(@, tx)]
    /\ UNCHANGED <<writes, depends, groupVars, committed, failed, resolverVars,
                   waiting_transactions, registering, coordinator, panicked>>

(* All ranges have answered: the call is spawned, nobody waits for it.  A  *)
(* transaction that others depend on has given a lock up early, which is   *)
(* the coordinator's condition for the call.                               *)
directRegister(tx) ==
    /\ coordinator[tx] = "committing"
    /\ \A r \in writes[tx] : tx \in Range(applied[r])
    /\ registering' = registering \cup {<<tx>>}
    /\ CoordinatorGoes(tx, "done")
    /\ UNCHANGED <<writes, depends, groupVars, effectVars, resolverVars,
                   waiting_transactions, panicked>>

---------------------------------------------------------------------------
(* commit *)

(* A read-only transaction has no commit phase; its dependencies are       *)
(* ignored.                                                                *)
commitReadOnly(tx) ==
    /\ coordinator[tx] = "prepared" /\ depends[tx] # {}
    /\ writes[tx] = {}
    /\ CoordinatorGoes(tx, "done")
    /\ UNCHANGED <<writes, depends, groupVars, effectVars, resolverVars,
                   waiting_transactions, registering, panicked>>

(* Faulty variant: dependencies resolved in the meantime are not told      *)
(* apart.                                                                  *)
unresolvedUnchecked(tx) == depends[tx]

unresolved(tx) == depends[tx] \ resolved_transactions

commit(tx) ==
    /\ coordinator[tx] = "prepared" /\ depends[tx] # {}
    /\ writes[tx] # {}
    /\ Unlocked
    /\ dependents' = [d \in Transaction |-> IF d \in unresolved(tx)
                                            THEN dependents[d] \cup {tx}
                                            ELSE dependents[d]]
    /\ num_dependencies' = [num_dependencies EXCEPT ![tx] = Cardinality(unresolved(tx))]
    /\ waiting_transactions' = waiting_transactions \cup {tx}
    /\ IF unresolved(tx) = {}
       THEN addTransactions(<<tx>>) /\ UNCHANGED cycles
       ELSE UNCHANGED groupVars
    /\ CoordinatorGoes(tx, "waiting")
    /\ UNCHANGED <<writes, depends, effectVars, resolved_transactions, registering, panicked>>

---------------------------------------------------------------------------
(* register_committed_transactions *)

(* The loop over new_resolved_dependencies.  Its state is the stack of     *)
(* resolved transactions, the two maps and the list of ready ones; a step  *)
(* pops a transaction and visits its dependents in some order, each once:  *)
(* those that are left without a dependency are ready, and are resolved as *)
(* far as their own dependents are concerned.                              *)

(* Faulty variant: the newest ready transaction goes first.                *)
pushNewestFirst(ready, order) == order \o ready

pushReady(ready, order) == ready \o order

top(s) == s.stack[Len(s.stack)]

Visited(s, tx, left) ==
    LET found == s.dependents[tx]
    IN  {[stack      |-> SubSeq(s.stack, 1, Len(s.stack) - 1) \o order,
          num        |-> [d \in Transaction |-> IF d \in found THEN s.num[d] - 1 ELSE s.num[d]],
          dependents |-> [s.dependents EXCEPT ![tx] = left],
          ready      |-> pushReady(s.ready, order),
          assert     |-> s.assert /\ \A d \in found : s.num[d] > 0] :
            order \in orders({d \in found : s.num[d] = 1})}

(* Faulty variant: the dependents are not moved out of the map.            *)
popResolvedKeeping(s) ==
    IF s.stack = << >> THEN {s}
    ELSE Visited(s, top(s), s.dependents[top(s)])

popResolved(s) ==
    IF s.stack = << >> THEN {s} ELSE Visited(s, top(s), {})

(* Every transaction is pushed at most once more than it is registered.    *)
resolveAll(ids) ==
    LET start  == [stack |-> ids, num |-> num_dependencies, dependents |-> dependents,
                   ready |-> << >>, assert |-> TRUE]
        rounds == Len(ids) + Cardinality(Transaction)
        after[n \in 0..rounds] ==
            IF n = 0 THEN {start} ELSE UNION {popResolved(s) : s \in after[n - 1]}
    IN  after[rounds]

register_committed_transactions(ids) ==
    /\ Unlocked
    /\ resolved_transactions' = resolved_transactions \cup Range(ids)
    /\ \E s \in resolveAll(ids) :
          /\ num_dependencies' = s.num
          /\ dependents' = s.dependents
          /\ panicked' = (panicked \/ ~s.assert)
          /\ IF s.ready = << >>
             THEN UNCHANGED groupVars
             ELSE addTransactions(s.ready) /\ UNCHANGED cycles
    /\ registering' = registering \ {ids}
    /\ UNCHANGED <<writes, depends, effectVars, waiting_transactions, coordinator>>

---------------------------------------------------------------------------
(* The client of a waiting transaction gives up: the handler that waits is *)
(* dropped, and the receiving end of its channel with it.                  *)
giveUp(tx) ==
    /\ coordinator[tx] = "waiting" /\ Unlocked
    /\ Faults < MaxFaults
    /\ CoordinatorGoes(tx, "gone")
    /\ UNCHANGED <<writes, depends, groupVars, effectVars, resolverVars, waiting_transactions,
                   registering, panicked>>

(* trigger_commit, once its cycle is over: notify whoever waits, in order, *)
(* then spawn the registration.  The task panics at the first whose        *)
(* receiver is gone: nobody after it is notified, nothing is registered.   *)
notified(txs) ==
    {txs[i] : i \in {n \in 1..Len(txs) : \A m \in 1..n : txs[m] \notin gone}}
unnotifiable(txs) ==
    {txs[i] : i \in {n \in 1..Len(txs) : /\ txs[n] \in gone
                                         /\ \A m \in 1..(n - 1) : txs[m] \notin gone}}

notify(c) ==
    LET told == notified(c.finished)
        dead == unnotifiable(c.finished)
    IN  /\ c.at = "notify"
        /\ cycles' = cycles \ {c}
        /\ waiting_transactions' = waiting_transactions \ (told \cup dead)
        /\ coordinator' = [tx \in Transaction |-> IF tx \in told THEN "done" ELSE coordinator[tx]]
        /\ panicked' = (panicked \/ ~(told \cup dead \subseteq waiting_transactions))
        /\ registering' = IF dead # {} \/ c.finished = << >> THEN registering
                          ELSE registering \cup {c.finished}
        /\ UNCHANGED <<writes, depends, adding, group_per_participant,
                       num_pending_participant_commits, non_empty_groups,
                       returned_transactions, effectVars, resolverVars>>

---------------------------------------------------------------------------

others == <<depends, resolverVars, waiting_transactions, registering, coordinator, panicked>>

groupCommitStep == groupStep /\ UNCHANGED others

rangeFails ==
    /\ failed = {} /\ Faults < MaxFaults
    /\ \E c \in cycles : \E b \in c.batches : failBatch(c, b)
    /\ UNCHANGED others

coordinatorStep(tx) ==
    \/ directRecord(tx)
    \/ \E r \in ParticipantRange : directApply(tx, r)
    \/ directRegister(tx)
    \/ commitReadOnly(tx)
    \/ commit(tx)

resolverStep ==
    \/ \E ids \in registering : register_committed_transactions(ids)
    \/ \E c \in cycles : notify(c)

Done == \A tx \in Transaction : coordinator[tx] = "done"

(* Everything is committed, or waits for what a fault has stopped.         *)
Quiet == /\ Done \/ Faults > 0
         /\ UNCHANGED vars

Next ==
    \/ \E tx \in Transaction : coordinatorStep(tx)
    \/ groupCommitStep
    \/ rangeFails
    \/ \E tx \in Transaction : giveUp(tx)
    \/ resolverStep
    \/ Quiet

Spec == Init /\ [][Next]_vars

(* All of these are tokio tasks, and the coordinators go on: while one of  *)
(* them can run, one of them runs.  No behaviour repeats a state.          *)
FairSpec ==
    /\ Spec
    /\ WF_vars((\E tx \in Transaction : coordinatorStep(tx)) \/ groupCommitStep \/ resolverStep)

---------------------------------------------------------------------------

(* No assert, unwrap or subtraction of the resolver fails, but for the     *)
(* send to a client that has given up: a dependent still has a dependency  *)
(* to lose, a finished transaction still has its sender, and counts never  *)
(* go below zero.                                                          *)
NoPanic ==
    /\ ~panicked
    /\ \A c \in cycles : c.at = "count" =>
          \A tx \in Transaction : countDown(tx, c.finished) >= 0

(* A range applies a transaction at most once.                             *)
AppliedOnce == \A r \in ParticipantRange : IsInjective(applied[r])

(* Whoever is told that a transaction is committed can rely on it: it is   *)
(* recorded, and every range it writes has applied it.                     *)
DoneMeansApplied ==
    \A tx \in Transaction : coordinator[tx] = "done" =>
       \A r \in writes[tx] : tx \in committed /\ tx \in Range(applied[r])

Before(d, tx, r) ==
    \A i \in 1..Len(applied[r]) : applied[r][i] = tx =>
       \E j \in 1..(i - 1) : applied[r][j] = d

(* A range applies a transaction after the one it depends on, if it is the *)
(* only one.                                                               *)
SoleDependencyFirst ==
    \A tx, d \in Transaction :
       depends[tx] = {d} => \A r \in writes[d] : Before(d, tx, r)

(* A range applies a transaction after all those it depends on (the        *)
(* comment in register_committed_transactions).                            *)
DependenciesFirst ==
    \A tx \in Transaction : \A d \in depends[tx] : \A r \in writes[d] : Before(d, tx, r)

(* Every transaction's coordinator is answered, unless a range failed or a *)
(* client gave up.                                                         *)
EveryTransactionCommits == <>(Faults > 0 \/ Done)
=============================================================================
