----------------------------- MODULE RangeState -----------------------------
(***************************************************************************)
(* The pending state of one loaded range                                   *)
(* (rangeserver/src/range_manager/impl.rs) and what the handlers do to it. *)
(*                                                                         *)
(* A transaction's writes to the range are fixed by "work": the keys it    *)
(* reads, puts and deletes.  The value a transaction puts is the           *)
(* transaction itself, so a stored value names its writer.                 *)
(***************************************************************************)
EXTENDS LockTableState, FiniteSetsExt

CONSTANTS Key,
          LoadLow, LoadMid, LoadMax,          \* 50, 200, 5000 in the code
          ClientsMid, ClientsHigh,            \* 50, 100
          ContentionMid, ContentionHigh       \* 20, 40

ASSUME ThresholdAssumption ==
    /\ {LoadLow, LoadMid, LoadMax, ClientsMid, ClientsHigh, ContentionMid, ContentionHigh}
          \subseteq Nat
    /\ LoadLow <= LoadMid /\ LoadMid <= LoadMax

CommitStrategy == {"Traditional", "Pipelined", "Adaptive"}
Heuristic == {"OpenClients", "LockContention"}

(* What a transaction does in this range; put and del keep the two write   *)
(* sets disjoint.                                                          *)
Work == {w \in [reads : SUBSET Key, puts : SUBSET Key, deletes : SUBSET Key] :
            w.puts \cap w.deletes = {}}

(* PrepareRecord.changes: the keys a transaction changes                   *)
changes(w) == w.puts \cup w.deletes

(* A map with one more entry, or another value for it                      *)
Insert(map, k, value) == [x \in DOMAIN map \cup {k} |-> IF x = k THEN value ELSE map[x]]

(* pending_commit_table: key -> last transaction that updated it           *)
PendingCommitTable == [Key -> Transaction \cup {None}]

---------------------------------------------------------------------------
(* do_early_lock_release.  The contention proxy is the number of open      *)
(* clients the request carries, or the waiters and soft releases counted   *)
(* in the lock table at the moment of the call.                            *)
thresholds(load, proxy, mid, high) ==
    CASE load >= LoadMax                    -> FALSE
      [] load >= LoadMid /\ load < LoadMax  -> proxy > high
      [] load >= LoadLow /\ load < LoadMid  -> proxy > mid
      [] OTHER                              -> TRUE

(* get_num_waiters_and_pending *)
numWaitersAndPending(lt) == Len(lt.waiting_to_acquire) + Cardinality(lt.soft_released)

doEarlyLockRelease(strategy, heuristic, lt, load, clients) ==
    CASE strategy = "Pipelined"   -> TRUE
      [] strategy = "Traditional" -> FALSE
      [] OTHER -> IF heuristic = "OpenClients"
                  THEN thresholds(load, clients, ClientsMid, ClientsHigh)
                  ELSE thresholds(load, numWaitersAndPending(lt),
                                  ContentionMid, ContentionHigh)

---------------------------------------------------------------------------
(* get: the dependencies of a transaction that read a pending value        *)

(* Faulty variant: the value is returned, the dependency is not.           *)
readWithoutDependency(deps, dependency) == deps

readDependencies(deps, dependency) == deps \cup {dependency}

(* prepare, under the write lock of pending_state: the write-write         *)
(* dependencies found, and the table afterwards.  early gives the decision *)
(* for each changed key.                                                   *)

writeDependencies(pending, keys) == {pending[k] : k \in keys} \ {None}

(* Faulty variant: the entry of a key whose lock is kept is not cleared.   *)
pendingKeptWithLock(pending, tx, early) ==
    [k \in Key |-> IF k \in DOMAIN early /\ early[k] THEN tx ELSE pending[k]]

pendingAfterPrepare(pending, tx, early) ==
    [k \in Key |-> CASE k \notin DOMAIN early -> pending[k]
                     [] k \in DOMAIN early /\ early[k] -> tx
                     [] OTHER -> None]

(* commit: for each key the last transaction of the batch that changes it. *)
changersOf(k, batch, work) == {i \in 1..Len(batch) : k \in changes(work[batch[i]])}

(* Faulty variant: the first transaction of the batch wins.                *)
firstChanger(k, batch, work) == batch[Min(changersOf(k, batch, work))]

lastChanger(k, batch, work) == batch[Max(changersOf(k, batch, work))]

changedKeys(batch, work) == {k \in Key : changersOf(k, batch, work) # {}}

(* batch_upsert of the merged changes: puts are written first; a merged    *)
(* delete binds six values to a statement with five markers, so the batch  *)
(* of deletes is refused and the call returns an error.                    *)
isDelete(k, batch, work) == k \in work[lastChanger(k, batch, work)].deletes

storeAfterUpsert(store, batch, work) ==
    [k \in Key |-> IF k \in changedKeys(batch, work) /\ ~isDelete(k, batch, work)
                   THEN lastChanger(k, batch, work)
                   ELSE store[k]]

upsertFails(batch, work) == \E k \in changedKeys(batch, work) : isDelete(k, batch, work)

(* Faulty variant: the entry goes although a later writer has prepared.    *)
pendingClearedByAnyCommit(pending, batch, work) ==
    [k \in Key |-> IF k \in changedKeys(batch, work) THEN None ELSE pending[k]]

(* The entry of a key goes when its last writer of this batch is still the *)
(* last one to have prepared.                                              *)
pendingAfterCommit(pending, batch, work) ==
    [k \in Key |-> IF /\ k \in changedKeys(batch, work)
                      /\ pending[k] = lastChanger(k, batch, work)
                   THEN None
                   ELSE pending[k]]
=============================================================================
