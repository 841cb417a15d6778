---------------------------- MODULE GroupCommit ----------------------------
(***************************************************************************)
(* Group commit (resolver/src/core/group_commit.rs): transactions ready to *)
(* commit are grouped by participant range; a commit cycle empties all     *)
(* groups it finds non-empty, one task per range, and then counts which    *)
(* transactions have committed in every range they write.                  *)
(*                                                                         *)
(* Every map has a lock of its own, so the steps of an add and of several  *)
(* cycles interleave.  add_transactions is only called under the write     *)
(* lock of the resolver's state: there is one add at a time.               *)
(***************************************************************************)
EXTENDS Naturals, Sequences, FiniteSets, Functions

CONSTANTS Transaction, ParticipantRange, None

(* A call of add_transactions: what it adds, and the groups it has still   *)
(* to extend                                                               *)
AddCall == [txs : Seq(Transaction), extend : SUBSET ParticipantRange]

ASSUME GroupAssumption ==
    IsFiniteSet(Transaction) /\ IsFiniteSet(ParticipantRange) /\ None \notin AddCall

VARIABLES
    writes,             \* transaction -> ranges it has writes in
    adding,             \* the call of add_transactions in progress, or None
    group_per_participant,
    num_pending_participant_commits,   \* transaction -> count, 0 when absent
    non_empty_groups,
    returned_transactions,
    cycles,             \* commit cycles in progress
    committed,          \* transactions recorded in the transaction state store
    applied,            \* per range, the order in which it applied transactions
    failed              \* transactions of a batch whose task panicked

groupVars == <<adding, group_per_participant, num_pending_participant_commits,
               non_empty_groups, returned_transactions, cycles>>
effectVars == <<committed, applied, failed>>

GroupInit ==
    /\ adding = None
    /\ group_per_participant = [r \in ParticipantRange |-> << >>]
    /\ num_pending_participant_commits = [tx \in Transaction |-> 0]
    /\ non_empty_groups = {}
    /\ returned_transactions = << >>
    /\ cycles = {}
    /\ committed = {}
    /\ applied = [r \in ParticipantRange |-> << >>]
    /\ failed = {}

---------------------------------------------------------------------------
(* add_transactions *)

(* The elements of a vector at some of its positions, pushed in order      *)
pushed(txs, positions) ==
    LET upTo[n \in 0..Len(txs)] ==
            IF n = 0 THEN << >>
            ELSE IF n \in positions THEN Append(upTo[n - 1], txs[n])
            ELSE upTo[n - 1]
    IN  upTo[Len(txs)]

(* The orders in which a loop over a hash set may meet its members         *)
orders(S) == Bijection(1..Cardinality(S), S)

(* The transactions of txs that have writes in r, in the order of txs      *)
groupOf(txs, r) == pushed(txs, {i \in 1..Len(txs) : r \in writes[txs[i]]})

rangesOf(txs) == UNION {writes[tx] : tx \in Range(txs)}

(* The call begins: it groups the transactions and stores the counts.      *)
addTransactions(txs) ==
    /\ adding = None
    /\ adding' = [txs |-> txs, extend |-> rangesOf(txs)]
    /\ num_pending_participant_commits' =
          [tx \in Transaction |-> IF tx \in Range(txs)
                                  THEN Cardinality(writes[tx])
                                  ELSE num_pending_participant_commits[tx]]
    /\ UNCHANGED <<group_per_participant, non_empty_groups, returned_transactions>>

(* One task per range extends the range's group.                           *)
extendGroup(r) ==
    /\ adding # None /\ r \in adding.extend
    /\ group_per_participant' =
          [group_per_participant EXCEPT ![r] = @ \o groupOf(adding.txs, r)]
    /\ adding' = [adding EXCEPT !.extend = @ \ {r}]
    /\ UNCHANGED <<writes, num_pending_participant_commits, non_empty_groups,
                   returned_transactions, cycles, effectVars>>

(* The groups are marked non-empty, the call returns and its caller spawns *)
(* a commit cycle.  A cycle is named after the first transaction added.    *)
newCycle(tx) == [of |-> tx, at |-> "spawned", take |-> {}, batches |-> {}, finished |-> << >>]

markNonEmpty ==
    /\ adding # None /\ adding.extend = {}
    /\ non_empty_groups' = non_empty_groups \cup rangesOf(adding.txs)
    /\ cycles' = cycles \cup {newCycle(Head(adding.txs))}
    /\ adding' = None
    /\ UNCHANGED <<writes, group_per_participant, num_pending_participant_commits,
                   returned_transactions, effectVars>>

---------------------------------------------------------------------------
(* commit: one cycle *)

Becomes(c, d) == cycles' = (cycles \ {c}) \cup {d}

commitSnapshot(c) ==
    /\ c.at = "spawned"
    /\ Becomes(c, [c EXCEPT !.at = "run", !.take = non_empty_groups])
    /\ UNCHANGED <<writes, adding, group_per_participant, num_pending_participant_commits,
                   non_empty_groups, returned_transactions, effectVars>>

(* Faulty variant: the group is committed and stays.                       *)
takeGroupKeeping(c, r) ==
    /\ c.at = "run" /\ r \in c.take
    /\ LET batch == [range |-> r, txs |-> group_per_participant[r], at |-> "record"]
       IN  Becomes(c, [c EXCEPT !.take = @ \ {r},
                                !.batches = IF batch.txs = << >> THEN @ ELSE @ \cup {batch}])
    /\ non_empty_groups' = non_empty_groups \ {r}
    /\ UNCHANGED <<writes, adding, group_per_participant, num_pending_participant_commits,
                   returned_transactions, effectVars>>

(* The task of range r takes the group and unmarks it in one critical      *)
(* section; an empty group is nothing to commit.                           *)
takeGroup(c, r) ==
    /\ c.at = "run" /\ r \in c.take
    /\ LET batch == [range |-> r, txs |-> group_per_participant[r], at |-> "record"]
       IN  Becomes(c, [c EXCEPT !.take = @ \ {r},
                                !.batches = IF batch.txs = << >> THEN @ ELSE @ \cup {batch}])
    /\ group_per_participant' = [group_per_participant EXCEPT ![r] = << >>]
    /\ non_empty_groups' = non_empty_groups \ {r}
    /\ UNCHANGED <<writes, adding, num_pending_participant_commits, returned_transactions,
                   effectVars>>

BatchMoves(c, b, there) ==
    Becomes(c, [c EXCEPT !.batches = (@ \ {b}) \cup {[b EXCEPT !.at = there]}])

(* try_batch_commit_transactions                                           *)
recordBatch(c, b) ==
    /\ b \in c.batches /\ b.at = "record"
    /\ committed' = committed \cup Range(b.txs)
    /\ BatchMoves(c, b, "apply")
    /\ UNCHANGED <<writes, adding, group_per_participant, num_pending_participant_commits,
                   non_empty_groups, returned_transactions, applied, failed>>

(* commit_transactions at the range                                        *)
applyBatch(c, b) ==
    /\ b \in c.batches /\ b.at = "apply"
    /\ applied' = [applied EXCEPT ![b.range] = @ \o b.txs]
    /\ BatchMoves(c, b, "return")
    /\ UNCHANGED <<writes, adding, group_per_participant, num_pending_participant_commits,
                   non_empty_groups, returned_transactions, committed, failed>>

(* The transaction state store, which may have recorded the batch all the  *)
(* same, or the range answers with an error: the task panics, the cycle    *)
(* goes on without it.                                                     *)
failBatch(c, b) ==
    /\ b \in c.batches /\ b.at \in {"record", "apply"}
    /\ failed' = failed \cup Range(b.txs)
    /\ committed' = committed \/ committed' = committed \cup Range(b.txs)
    /\ Becomes(c, [c EXCEPT !.batches = @ \ {b}])
    /\ UNCHANGED <<writes, adding, group_per_participant, num_pending_participant_commits,
                   non_empty_groups, returned_transactions, applied>>

returnBatch(c, b) ==
    /\ b \in c.batches /\ b.at = "return"
    /\ returned_transactions' = returned_transactions \o b.txs
    /\ Becomes(c, [c EXCEPT !.batches = @ \ {b}])
    /\ UNCHANGED <<writes, adding, group_per_participant, num_pending_participant_commits,
                   non_empty_groups, effectVars>>

---------------------------------------------------------------------------
(* All tasks have been joined.  What every cycle has returned so far is    *)
(* taken, and counted down in a later critical section; what reaches zero  *)
(* has finished.                                                           *)
takeReturned(c) ==
    /\ c.at = "run" /\ c.take = {} /\ c.batches = {}
    /\ Becomes(c, [c EXCEPT !.at = "count", !.finished = returned_transactions])
    /\ returned_transactions' = << >>
    /\ UNCHANGED <<writes, adding, group_per_participant, num_pending_participant_commits,
                   non_empty_groups, effectVars>>

timesIn(tx, txs) == Cardinality({i \in 1..Len(txs) : txs[i] = tx})

countDown(tx, txs) == num_pending_participant_commits[tx] - timesIn(tx, txs)

finishedAmong(txs) ==
    pushed(txs, {i \in 1..Len(txs) : /\ countDown(txs[i], txs) = 0
                                     /\ \A j \in (i + 1)..Len(txs) : txs[j] # txs[i]})

(* Faulty variant: the first range to return finishes the transaction.     *)
collectAtOnce(c) ==
    /\ c.at = "count"
    /\ Becomes(c, [c EXCEPT !.at = "notify", !.finished = CHOOSE q \in orders(Range(@)) : TRUE])
    /\ num_pending_participant_commits' =
          [tx \in Transaction |-> IF tx \in Range(c.finished)
                                  THEN 0 ELSE num_pending_participant_commits[tx]]
    /\ UNCHANGED <<writes, adding, group_per_participant, non_empty_groups,
                   returned_transactions, effectVars>>

collectFinished(c) ==
    /\ c.at = "count"
    /\ Becomes(c, [c EXCEPT !.at = "notify", !.finished = finishedAmong(@)])
    /\ num_pending_participant_commits' =
          [tx \in Transaction |-> countDown(tx, c.finished)]
    /\ UNCHANGED <<writes, adding, group_per_participant, non_empty_groups,
                   returned_transactions, effectVars>>

groupStep ==
    \/ \E r \in ParticipantRange : extendGroup(r)
    \/ markNonEmpty
    \/ \E c \in cycles :
          \/ commitSnapshot(c)
          \/ \E r \in ParticipantRange : takeGroup(c, r)
          \/ \E b \in c.batches : recordBatch(c, b) \/ applyBatch(c, b) \/ returnBatch(c, b)
          \/ takeReturned(c)
          \/ collectFinished(c)
=============================================================================
