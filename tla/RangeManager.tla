---------------------------- MODULE RangeManager ----------------------------
(***************************************************************************)
(* The handlers of one loaded range (rangeserver/src/range_manager/        *)
(* impl.rs): get, prepare, abort and commit.  Handlers hold only the read  *)
(* half of the manager's state lock, so they interleave at every await;    *)
(* each step below is the code between two awaits that another handler can *)
(* observe.                                                                *)
(*                                                                         *)
(* The callers are modelled by what coordinator/src/transaction.rs and the *)
(* resolver guarantee: a transaction reads its keys one after another,     *)
(* then prepares once, and is then either committed or was aborted before  *)
(* it prepared.  The call that commits it is sent after the calls of the   *)
(* transactions it depends on, or with them; sent calls overlap.           *)
(*                                                                         *)
(* The abort of a transaction in mayFail may also meet a get or a prepare  *)
(* that is under way, or overtake it: its coordinator aborts it when the   *)
(* task that prepares another range panics (the answer RangeIsNotLoaded    *)
(* makes it panic), or when its client has dropped a get and aborts.       *)
(***************************************************************************)
EXTENDS RangeState

CONSTANT Scenarios
(* A scenario: the commit strategy and heuristic the range is configured   *)
(* with, the work of each transaction, what a prepare may carry (resolver  *)
(* load and open clients), and the transactions whose abort may meet a     *)
(* call that is under way.                                                 *)
Scenario == [strategy : CommitStrategy, heuristic : Heuristic, work : [Transaction -> Work],
             requests : SUBSET [load : Nat, clients : Nat], mayFail : SUBSET Transaction]

ASSUME RangeManagerAssumption ==
    /\ Scenarios \subseteq Scenario
    /\ {"get", "decide"} \subseteq Channel
    /\ Cardinality(Transaction) \in Nat

VARIABLES
    scenario,                  \* fixed by Init
    lock,                      \* the lock table
    granted,                   \* lock requests signalled, not yet received
    pending_prepare_records,   \* transactions whose record is kept
    pending_commit_table,
    store,                     \* value per key; a value is its writer
    buffer,                    \* prefetch_store: what commits have put there
    applied,                   \* history: the batches that stored a key, in order
    wal,                       \* history: order of the appended records
    pc,                        \* where each transaction's get or prepare is
    key,                       \* the key a get is about
    from,                      \* what it read: key -> writer
    request,                   \* load and clients its prepare carries
    early,                     \* early lock release decided so far, per key
    released_lock_early,
    dependencies,
    aborting,                  \* where each transaction's abort is
    commits,                   \* commit calls sent and not yet answered
    overlapped,                \* history: keys with overlapping commits
    panicked                   \* a handler hit an unwrap or a panic!

handlerVars == <<pc, key, from, request, early, released_lock_early, dependencies>>
pendingVars == <<pending_prepare_records, pending_commit_table>>
storeVars == <<store, buffer, applied>>
vars == <<scenario, lock, granted, handlerVars, pendingVars, storeVars, wal,
          aborting, commits, overlapped, panicked>>

strategy == scenario.strategy
work == scenario.work

Reads(tx) == work[tx].reads
Changes(tx) == changes(work[tx])
HasReads(tx) == Reads(tx) # {}
Request(tx) == [transaction |-> tx, channel |-> pc[tx]]

Init ==
    /\ scenario \in Scenarios
    /\ lock = newLockTable
    /\ granted = {}
    /\ pending_prepare_records = {}
    /\ pending_commit_table = [k \in Key |-> None]
    /\ store = [k \in Key |-> None]
    /\ buffer = [k \in Key |-> None]
    /\ applied = [k \in Key |-> << >>]
    /\ wal = << >>
    /\ pc = [tx \in Transaction |-> "active"]
    /\ key = [tx \in Transaction |-> None]
    /\ from = [tx \in Transaction |-> << >>]
    /\ request = [tx \in Transaction |-> None]
    /\ early = [tx \in Transaction |-> << >>]
    /\ released_lock_early = [tx \in Transaction |-> FALSE]
    /\ dependencies = [tx \in Transaction |-> {}]
    /\ aborting = [tx \in Transaction |-> "no"]
    /\ commits = {}
    /\ overlapped = {}
    /\ panicked = FALSE

Goto(tx, there) == pc' = [pc EXCEPT ![tx] = there]

(* acquire_range_lock up to its await                                      *)
Acquire(q) ==
    /\ lock' = afterAcquire(lock, q)
    /\ granted' = IF grantedAtOnce(lock, q) THEN granted \cup {q} ELSE granted

(* Lock table's release, its signals included                              *)
Release(violatable) ==
    /\ lock' = afterRelease(lock, violatable)
    /\ granted' = granted \cup grantedByRelease(lock)

---------------------------------------------------------------------------
(* get *)

(* The caller has not given the transaction up, or the call was on its way *)
Called(tx) == aborting[tx] = "no" \/ tx \in scenario.mayFail

get(tx, k) ==
    /\ pc[tx] = "active" /\ Called(tx)
    /\ k \in Reads(tx) \ DOMAIN from[tx]
    /\ Goto(tx, "get")
    /\ key' = [key EXCEPT ![tx] = k]
    /\ Acquire([transaction |-> tx, channel |-> "get"])
    /\ UNCHANGED <<scenario, from, request, early, released_lock_early, dependencies,
                   pendingVars, storeVars, wal, aborting, commits, panicked, overlapped>>

(* Nobody takes the answer of a get whose transaction was aborted.         *)
ReadFrom(tx, writer) ==
    /\ from' = [from EXCEPT ![tx] = Insert(@, key[tx], writer)]
    /\ Goto(tx, IF aborting[tx] = "no" THEN "active" ELSE "dropped")

(* The lock is ours: look for a pending writer of the key, and read its    *)
(* prepare record.                                                         *)
getPending(tx) ==
    LET dependency == pending_commit_table[key[tx]]
        found      == strategy # "Traditional" /\ dependency # None
    IN  /\ pc[tx] = "get" /\ Request(tx) \in granted
        /\ granted' = granted \ {Request(tx)}
        /\ \/ /\ ~found
              /\ Goto(tx, "getStorage")
              /\ UNCHANGED <<from, dependencies, panicked>>
           \/ /\ found
              /\ dependency \in pending_prepare_records
              /\ key[tx] \in Changes(dependency)
              /\ ReadFrom(tx, dependency)
              /\ dependencies' = [dependencies EXCEPT ![tx] = readDependencies(@, dependency)]
              /\ UNCHANGED panicked
           \/ /\ found
              /\ dependency \notin pending_prepare_records \/ key[tx] \notin Changes(dependency)
              /\ panicked' = TRUE
              /\ Goto(tx, "panicked")
              /\ UNCHANGED <<from, dependencies>>
        /\ UNCHANGED <<scenario, lock, key, request, early, released_lock_early,
                       pendingVars, storeVars, wal, aborting, commits, overlapped>>

(* The prefetching buffer comes before storage.                            *)
getStorage(tx) ==
    /\ pc[tx] = "getStorage"
    /\ ReadFrom(tx, IF buffer[key[tx]] # None THEN buffer[key[tx]] ELSE store[key[tx]])
    /\ UNCHANGED <<scenario, lock, granted, key, request, early, released_lock_early,
                   dependencies, pendingVars, storeVars, wal, aborting, commits, panicked,
                   overlapped>>

---------------------------------------------------------------------------
(* prepare *)

(* The checks before any lock is taken; a read-only participant goes on to *)
(* give its lock up.                                                       *)
prepare(tx) ==
    /\ pc[tx] = "active" /\ Called(tx)
    /\ DOMAIN from[tx] = Reads(tx)
    /\ IF HasReads(tx) /\ ~isCurrentlyHolding(lock, {tx})
       THEN Goto(tx, "lockLost")
       ELSE Goto(tx, IF Changes(tx) = {} THEN "releaseReadOnly" ELSE "acquire")
    /\ \E r \in scenario.requests : request' = [request EXCEPT ![tx] = r]
    /\ UNCHANGED <<scenario, lock, granted, key, from, early, released_lock_early,
                   dependencies, pendingVars, storeVars, wal, aborting, commits, panicked,
                   overlapped>>

prepareReadOnly(tx) ==
    /\ pc[tx] = "releaseReadOnly"
    /\ IF HasReads(tx) THEN Release(FALSE) ELSE UNCHANGED <<lock, granted>>
    /\ Goto(tx, "committed")
    /\ UNCHANGED <<scenario, key, from, request, early, released_lock_early,
                   dependencies, pendingVars, storeVars, wal, aborting, commits, panicked,
                   overlapped>>

prepareAcquire(tx) ==
    /\ pc[tx] = "acquire"
    /\ Acquire([transaction |-> tx, channel |-> "decide"])
    /\ Goto(tx, "decide")
    /\ UNCHANGED <<scenario, key, from, request, early, released_lock_early,
                   dependencies, pendingVars, storeVars, wal, aborting, commits, panicked,
                   overlapped>>

(* One call of do_early_lock_release per changed key, each of which awaits *)
(* the lock table.                                                         *)
prepareDecide(tx, k) ==
    /\ pc[tx] = "decide" /\ Request(tx) \in granted
    /\ k \in Changes(tx) \ DOMAIN early[tx]
    /\ early' = [early EXCEPT ![tx] =
                    Insert(@, k, doEarlyLockRelease(strategy, scenario.heuristic, lock,
                                                    request[tx].load, request[tx].clients))]
    /\ UNCHANGED <<scenario, lock, granted, pc, key, from, request,
                   released_lock_early, dependencies, pendingVars, storeVars, wal,
                   aborting, commits, panicked, overlapped>>

(* The critical section on pending_state                                   *)
publish(tx) ==
    /\ pc[tx] = "decide" /\ Request(tx) \in granted
    /\ DOMAIN early[tx] = Changes(tx)
    /\ pending_prepare_records' = pending_prepare_records \cup {tx}
    /\ IF strategy = "Traditional"
       THEN UNCHANGED <<dependencies, pending_commit_table>>
       ELSE /\ dependencies' = [dependencies EXCEPT
                  ![tx] = @ \cup writeDependencies(pending_commit_table, Changes(tx))]
            /\ pending_commit_table' = pendingAfterPrepare(pending_commit_table, tx, early[tx])
    /\ Goto(tx, "append")
    /\ UNCHANGED <<scenario, key, from, request, early, released_lock_early,
                   storeVars, wal, aborting, commits, panicked, overlapped>>

(* Faulty variant: the lock is given up before the record is appended.     *)
publishAndRelease(tx) ==
    /\ publish(tx)
    /\ lock' = afterRelease(lock, TRUE)
    /\ granted' = (granted \ {Request(tx)}) \cup grantedByRelease(lock)

preparePublish(tx) ==
    /\ publish(tx)
    /\ granted' = granted \ {Request(tx)}
    /\ UNCHANGED lock

prepareAppend(tx) ==
    /\ pc[tx] = "append"
    /\ wal' = Append(wal, tx)
    /\ Goto(tx, "release")
    /\ UNCHANGED <<scenario, lock, granted, key, from, request, early,
                   released_lock_early, dependencies, pendingVars, storeVars, aborting,
                   commits, panicked, overlapped>>

(* The decision of the first key, in the hash map's order, counts for all. *)
prepareRelease(tx) ==
    /\ pc[tx] = "release"
    /\ \E first \in Changes(tx) :
          /\ released_lock_early' = [released_lock_early EXCEPT ![tx] = early[tx][first]]
          /\ IF early[tx][first] THEN Release(TRUE) ELSE UNCHANGED <<lock, granted>>
    /\ Goto(tx, "flush")
    /\ UNCHANGED <<scenario, key, from, request, early, dependencies, pendingVars,
                   storeVars, wal, aborting, commits, panicked, overlapped>>

(* The prepare record has been flushed: the reply goes out.                *)
prepareFlushed(tx) ==
    /\ pc[tx] = "flush"
    /\ Goto(tx, "prepared")
    /\ request' = [request EXCEPT ![tx] = None]
    /\ early' = [early EXCEPT ![tx] = << >>]
    /\ UNCHANGED <<scenario, lock, granted, key, from, released_lock_early,
                   dependencies, pendingVars, storeVars, wal, aborting, commits, panicked,
                   overlapped>>

---------------------------------------------------------------------------
(* abort.  Called once, before the transaction prepares, or while a call   *)
(* of a transaction in mayFail is being served.                            *)

Serving == {"get", "getStorage", "releaseReadOnly", "acquire", "decide", "append", "release",
            "flush", "prepared"}

(* Faulty variant: the lock is released whoever holds it.                  *)
abortUnchecked(tx) ==
    /\ aborting[tx] = "no"
    /\ pc[tx] = "active"
    /\ aborting' = [aborting EXCEPT ![tx] = "release"]
    /\ UNCHANGED <<scenario, lock, granted, handlerVars, pendingVars, storeVars, wal,
                   commits, panicked, overlapped>>

abort(tx) ==
    /\ aborting[tx] = "no"
    /\ pc[tx] = "active" \/ (tx \in scenario.mayFail /\ pc[tx] \in Serving)
    /\ aborting' = [aborting EXCEPT ![tx] =
                        IF isCurrentlyHolding(lock, {tx}) THEN "release" ELSE "done"]
    /\ UNCHANGED <<scenario, lock, granted, handlerVars, pendingVars, storeVars, wal,
                   commits, panicked, overlapped>>

(* The abort record has been appended and flushed.                         *)
abortRelease(tx) ==
    /\ aborting[tx] = "release"
    /\ Release(FALSE)
    /\ aborting' = [aborting EXCEPT ![tx] = "done"]
    /\ UNCHANGED <<scenario, handlerVars, pendingVars, storeVars, wal, commits,
                   panicked, overlapped>>

---------------------------------------------------------------------------
(* commit of a batch                                                       *)

Committed(tx) == pc[tx] = "committed"

Sent(tx) == pc[tx] \in {"committing", "committed"}

(* What the coordinator and the resolver promise about a batch: prepared   *)
(* transactions, each after everything it depends on in the group of the   *)
(* range.  A group is cut into batches, and the call of one need not be    *)
(* answered, or even have arrived, when the next is sent: a transaction    *)
(* that becomes ready when its last dependency is pushed may follow one    *)
(* whose batch is in flight.                                               *)
MayCommit(batch) ==
    /\ \A i \in 1..Len(batch) :
          /\ pc[batch[i]] = "prepared" /\ aborting[batch[i]] = "no"
          /\ \A d \in dependencies[batch[i]] :
                Sent(d) \/ \E j \in 1..(i - 1) : batch[j] = d
    /\ strategy = "Traditional" => Len(batch) = 1

Batches == {b \in UNION {[1..n -> Transaction] : n \in 1..Cardinality(Transaction)} :
               IsInjective(b)}

(* The keys the batch changes while another call commits a change of the   *)
(* key that it depends on                                                  *)
Overlaps(batch) ==
    {k \in Key :
        \E tx \in Range(batch) :
           /\ k \in Changes(tx)
           /\ \E d \in dependencies[tx] : pc[d] = "committing" /\ k \in Changes(d)}

commit(batch) ==
    /\ MayCommit(batch)
    /\ commits' = commits \cup {[batch |-> batch, at |-> "collect"]}
    /\ pc' = [tx \in Transaction |-> IF tx \in Range(batch) THEN "committing" ELSE pc[tx]]
    /\ overlapped' = overlapped \cup Overlaps(batch)
    /\ UNCHANGED <<scenario, lock, granted, key, from, request, early,
                   released_lock_early, dependencies, pendingVars, storeVars, wal,
                   aborting, panicked>>

Advance(c, there) == commits' = (commits \ {c}) \cup {[c EXCEPT !.at = there]}

(* The call has arrived and the commit record is durable: collect the      *)
(* prepare records, or panic.                                              *)
commitCollect(c) ==
    /\ c.at = "collect"
    /\ IF Range(c.batch) \subseteq pending_prepare_records
       THEN Advance(c, "upsert") /\ UNCHANGED panicked
       ELSE Advance(c, "panicked") /\ panicked' = TRUE
    /\ UNCHANGED <<scenario, lock, granted, handlerVars, pendingVars, storeVars, wal,
                   aborting, overlapped>>

commitUpsert(c) ==
    /\ c.at = "upsert"
    /\ store' = storeAfterUpsert(store, c.batch, work)
    /\ applied' = [k \in Key |-> IF k \in changedKeys(c.batch, work) /\ ~isDelete(k, c.batch, work)
                                  THEN applied[k] \o c.batch ELSE applied[k]]
    /\ Advance(c, IF upsertFails(c.batch, work) THEN "failed" ELSE "buffer")
    /\ UNCHANGED <<scenario, lock, granted, handlerVars, pendingVars, buffer, wal,
                   aborting, panicked, overlapped>>

(* Nothing is deleted when the upsert has succeeded: every change is a put. *)
commitBuffer(c) ==
    /\ c.at = "buffer"
    /\ buffer' = [k \in Key |-> IF k \in changedKeys(c.batch, work)
                                THEN lastChanger(k, c.batch, work) ELSE buffer[k]]
    /\ Advance(c, "retire")
    /\ UNCHANGED <<scenario, lock, granted, handlerVars, pendingVars, store, applied,
                   wal, aborting, panicked, overlapped>>

commitRetire(c) ==
    /\ c.at = "retire"
    /\ pending_commit_table' =
          IF strategy = "Traditional"
          THEN pending_commit_table
          ELSE pendingAfterCommit(pending_commit_table, c.batch, work)
    /\ pending_prepare_records' = pending_prepare_records \ Range(c.batch)
    /\ Advance(c, "holder")
    /\ UNCHANGED <<scenario, lock, granted, handlerVars, storeVars, wal, aborting,
                   panicked, overlapped>>

(* Faulty variant: only the first transaction of the batch may hold it.    *)
commitCheckFirst(c) ==
    /\ c.at = "holder"
    /\ Advance(c, IF isCurrentlyHolding(lock, {c.batch[1]}) THEN "release" ELSE "clean")
    /\ UNCHANGED <<scenario, lock, granted, handlerVars, pendingVars, storeVars, wal,
                   aborting, panicked, overlapped>>

(* get_current_holder_id, and release in a later critical section          *)
commitCheckHolder(c) ==
    /\ c.at = "holder"
    /\ Advance(c, IF isCurrentlyHolding(lock, Range(c.batch)) THEN "release" ELSE "clean")
    /\ UNCHANGED <<scenario, lock, granted, handlerVars, pendingVars, storeVars, wal,
                   aborting, panicked, overlapped>>

commitRelease(c) ==
    /\ c.at = "release"
    /\ Release(FALSE)
    /\ Advance(c, "clean")
    /\ UNCHANGED <<scenario, handlerVars, pendingVars, storeVars, wal, aborting,
                   panicked, overlapped>>

commitClean(c) ==
    /\ c.at = "clean"
    /\ lock' = afterCleanSoftReleased(lock, Range(c.batch))
    /\ commits' = commits \ {c}
    /\ pc' = [tx \in Transaction |-> IF tx \in Range(c.batch) THEN "committed" ELSE pc[tx]]
    /\ UNCHANGED <<scenario, granted, key, from, request, early, released_lock_early,
                   dependencies, pendingVars, storeVars, wal, aborting, panicked, overlapped>>

---------------------------------------------------------------------------

(* A step of a handler that has been called                                *)
getStep(tx) == getPending(tx) \/ getStorage(tx)

prepareStep(tx) ==
    \/ prepareReadOnly(tx)
    \/ prepareAcquire(tx)
    \/ \E k \in Key : prepareDecide(tx, k)
    \/ preparePublish(tx)
    \/ prepareAppend(tx)
    \/ prepareRelease(tx)
    \/ prepareFlushed(tx)

commitStep ==
    \E c \in commits : \/ commitCollect(c)
                       \/ commitUpsert(c)
                       \/ commitBuffer(c)
                       \/ commitRetire(c)
                       \/ commitCheckHolder(c)
                       \/ commitRelease(c)
                       \/ commitClean(c)

(* Calls that arrive                                                       *)
callGet(tx) == \E k \in Key : get(tx, k)
callCommit == \E batch \in Batches : commit(batch)

(* Nothing is left to do, or a commit was refused by storage and returned  *)
(* an error with the lock still held, or a get or a prepare was being      *)
(* served when its transaction was aborted: the range stays as it is.      *)
Finished(tx) == Committed(tx) \/ aborting[tx] = "done"
Stuck ==
    \/ \E c \in commits : c.at = "failed"
    \/ \E tx \in Transaction : aborting[tx] = "done" /\ pc[tx] # "active"
Idle == (Stuck \/ \A tx \in Transaction : Finished(tx)) /\ UNCHANGED vars

Next ==
    \/ \E tx \in Transaction :
          callGet(tx) \/ getStep(tx) \/ prepare(tx) \/ prepareStep(tx)
             \/ abort(tx) \/ abortRelease(tx)
    \/ callCommit
    \/ commitStep
    \/ Idle

Spec == Init /\ [][Next]_vars

(* Handlers are tokio tasks: while one can run, some task runs.  The       *)
(* coordinator goes on to its next call, and commits what has prepared.    *)
(* No behaviour repeats a state, so nothing stronger is needed.            *)
Progress ==
    \/ \E tx \in Transaction :
          callGet(tx) \/ getStep(tx) \/ prepare(tx) \/ prepareStep(tx) \/ abortRelease(tx)
    \/ callCommit
    \/ commitStep

FairSpec == Spec /\ WF_vars(Progress)

---------------------------------------------------------------------------

(* A transaction that is aborted although a call of it is being served     *)
AbortedInCall(tx) == aborting[tx] # "no" /\ pc[tx] # "active"
NoneOvertaken == \A tx \in Transaction : ~AbortedInCall(tx)

(* Its release may then hit another holder, if its prepare has given the   *)
(* lock up, early or because it only read.                                 *)
LockStolen ==
    \E tx \in Transaction :
       AbortedInCall(tx) /\ (released_lock_early[tx] \/ pc[tx] = "committed")

(* Two-phase locking: between being granted the lock and giving it up (at  *)
(* an early release, at the end of commit or in abort) a transaction is    *)
(* the holder; no other handler's release takes the lock from it.  The one *)
(* that may is the abort of a transaction whose prepare gives the lock up  *)
(* between the abort's check of the holder and its release.                *)
InCriticalSection(tx) ==
    /\ aborting[tx] \in {"no", "release"}
    /\ \/ pc[tx] = "active" /\ from[tx] # << >>
       \/ pc[tx] \in {"get", "decide"} /\ (Request(tx) \in granted \/ from[tx] # << >>)
       \/ pc[tx] \in {"getStorage", "dropped", "append", "release"}
       \/ pc[tx] \in {"releaseReadOnly", "acquire"} /\ HasReads(tx)
       \/ pc[tx] \in {"flush", "prepared"} /\ ~released_lock_early[tx]
       \/ /\ pc[tx] = "committing" /\ ~released_lock_early[tx]
          /\ \E c \in commits : tx \in Range(c.batch) /\ c.at # "clean"

HoldsLock ==
    LockStolen \/ \A tx \in Transaction : InCriticalSection(tx) => lock.current_holder = tx

(* No read-modify-write is lost: of the transactions that changed a key,   *)
(* in storage order, one that also read it comes right after the one it    *)
(* read the key from.  One may be lost only by an abort that overtakes a   *)
(* call, or when the commits of two changes of the key, one of which       *)
(* depends on the other, overlap: they may then reach storage in one order *)
(* and the prefetching buffer in the other, or both in the wrong one.      *)
NoLostUpdate ==
    NoneOvertaken =>
    \A k \in Key \ overlapped : \A i \in 1..Len(applied[k]) :
       LET tx     == applied[k][i]
           writer == from[tx][k]
           Changed(j) == k \in Changes(applied[k][j])
       IN  k \in Reads(tx) \cap Changes(tx) =>
              IF writer = None
              THEN \A j \in 1..(i - 1) : ~Changed(j)
              ELSE \E j \in 1..(i - 1) :
                      /\ applied[k][j] = writer /\ Changed(j)
                      /\ \A between \in (j + 1)..(i - 1) : ~Changed(between)

(* get never reads a pending writer that has no prepare record for the     *)
(* key, and commit always finds the records of its batch.                  *)
NoPanic == ~panicked

(* A value read before its writer reached storage makes the writer a       *)
(* dependency, so that the resolver can order the two.                     *)
DirtyReadsAreDependencies ==
    \A tx \in Transaction : \A k \in DOMAIN from[tx] :
       LET writer == from[tx][k]
       IN  writer # None => \/ writer \in dependencies[tx]
                            \/ writer \in Range(applied[k])

(* The write-ahead log holds a transaction's prepare record after those of *)
(* the transactions it depends on: append happens before the early         *)
(* release.  A prepare that goes on after its transaction was aborted has  *)
(* no lock, and may be anywhere.                                           *)
WalFollowsDependencies ==
    LockStolen \/ \A i \in 1..Len(wal) : \A d \in dependencies[wal[i]] :
       \/ AbortedInCall(wal[i]) \/ AbortedInCall(d)
       \/ \E j \in 1..(i - 1) : wal[j] = d

(* A transaction that is over has left nothing behind: no prepare record,  *)
(* pending entry, soft release, queued request or lock.  An abort that     *)
(* meets a call does.                                                      *)
FinishedLeavesNothing ==
    NoneOvertaken => \A tx \in Transaction : Finished(tx) =>
       /\ tx \notin pending_prepare_records
       /\ tx \notin Range(pending_commit_table)
       /\ tx \notin lock.soft_released
       /\ tx # lock.current_holder
       /\ \A q \in Range(lock.waiting_to_acquire) : q.transaction # tx

(* Every transaction comes to its end, unless a commit failed in storage   *)
(* or an abort met a call, and the lock was kept.                          *)
EveryTransactionEnds ==
    <>(Stuck \/ \A tx \in Transaction : Finished(tx))
=============================================================================
