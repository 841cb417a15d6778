----------------------------- MODULE LockTable -----------------------------
(***************************************************************************)
(* The lock of one range as a component on its own: any caller may call    *)
(* any method of lock_table.rs at any time.  Channels are numbered in the  *)
(* order they are created, one per call.                                   *)
(***************************************************************************)
EXTENDS LockTableState

ASSUME ChannelAssumption == Channel \subseteq Nat

VARIABLES state,       \* the table, a LockState
          issued,      \* requests whose channel has been created, in order
          acquiring,   \* those of them made by acquire()
          signalled    \* requests whose receiver can proceed

vars == <<state, issued, acquiring, signalled>>

fresh(q) == q.channel = Len(issued) + 1

Init ==
    /\ state = newLockTable
    /\ issued = << >>
    /\ acquiring = {}
    /\ signalled = {}

maybe_wait_for_current_holder(q) ==
    /\ fresh(q)
    /\ issued' = Append(issued, q)
    /\ state' = afterMaybeWait(state, q)
    /\ signalled' = IF state.current_holder = None THEN signalled \cup {q} ELSE signalled
    /\ UNCHANGED acquiring

acquire(q) ==
    /\ fresh(q)
    /\ issued' = Append(issued, q)
    /\ acquiring' = acquiring \cup {q}
    /\ state' = afterAcquire(state, q)
    /\ signalled' = IF grantedAtOnce(state, q) THEN signalled \cup {q} ELSE signalled

release(mark_as_violatable) ==
    /\ state' = afterRelease(state, mark_as_violatable)
    /\ signalled' = signalled \cup signalledByRelease(state)
    /\ UNCHANGED <<issued, acquiring>>

clean_soft_released(tx_ids) ==
    /\ state' = afterCleanSoftReleased(state, tx_ids)
    /\ UNCHANGED <<issued, acquiring, signalled>>

Next ==
    \/ \E q \in LockRequest : maybe_wait_for_current_holder(q)
    \/ \E q \in LockRequest : acquire(q)
    \/ \E mark \in BOOLEAN : release(mark)
    \/ \E tx_ids \in SUBSET Transaction : clean_soft_released(tx_ids)

Spec == Init /\ [][Next]_vars

(* A holder gives the lock up eventually: the obligation of commit, abort  *)
(* and prepare in the range manager.                                       *)
FairSpec == Spec /\ WF_vars(state.current_holder # None /\ release(FALSE))

---------------------------------------------------------------------------

TypeOK ==
    /\ state \in LockState
    /\ issued \in Seq(LockRequest)
    /\ acquiring \in SUBSET LockRequest
    /\ signalled \in SUBSET LockRequest

(* No receiver blocks for ever on a dropped channel and no sender is used  *)
(* twice: every request ever made is either signalled or in exactly one    *)
(* queue, once.                                                            *)
NoLostRequest ==
    LET acq == state.waiting_to_acquire
        rel == state.waiting_for_release
    IN  /\ Range(issued) = signalled \cup Range(acq) \cup Range(rel)
        /\ signalled \cap (Range(acq) \cup Range(rel)) = {}
        /\ Range(acq) \subseteq acquiring
        /\ Range(rel) \cap acquiring = {}
        /\ IsInjective(acq)
        /\ IsInjective(rel)

(* The lock is never idle while somebody waits for it (release passes it   *)
(* on in the same critical section).                                       *)
NoIdleLock ==
    state.current_holder = None =>
        /\ state.waiting_to_acquire = << >>
        /\ state.waiting_for_release = << >>

(* Acquire requests of one queue are served in the order they were made:   *)
(* when a request that had to wait is signalled, every acquire made before *)
(* it has been signalled too.                                              *)
GrantsInOrder ==
    [][\A i, j \in 1..Len(issued) :
          (/\ i < j
           /\ issued[i] \in acquiring
           /\ issued[j] \in acquiring
           /\ issued[j] \in signalled' \ signalled)
          => issued[i] \in signalled']_vars

(* Every request is answered once holders give the lock up.                *)
EveryRequestAnswered ==
    \A q \in LockRequest : q \in Range(issued) ~> q \in signalled

(* The table implements a work-conserving lock: forget the order of the    *)
(* queue, the soft releases and the callers that only wait for a release.  *)
Abstract == INSTANCE RangeLock
                WITH Request  <- LockRequest,
                     Owner    <- Transaction,
                     holder   <- state.current_holder,
                     waiting  <- Range(state.waiting_to_acquire),
                     granted  <- signalled \cap acquiring

(* Every behaviour of the table is one of RangeLock: a lock has one owner, *)
(* is never idle while wanted, and passes only to one who asked.           *)
RefinesRangeLock == Abstract!Spec
=============================================================================
