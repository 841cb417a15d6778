--------------------------- MODULE LockTableState ---------------------------
(***************************************************************************)
(* The transaction lock of one range                                       *)
(* (rangeserver/src/range_manager/lock_table.rs): its state and what each  *)
(* of its methods does to it.                                              *)
(*                                                                         *)
(* Despite its name the table is a single lock.  Every method of the code  *)
(* runs under the write half of one RwLock, so each method is one atomic   *)
(* step.  LockTable is the table as a component of its own; the range      *)
(* manager's modules use the operators below inside their own actions.     *)
(*                                                                         *)
(* A request carries a oneshot channel, used once: "signalled" requests    *)
(* are those whose sender has been consumed by send(()).                   *)
(***************************************************************************)
EXTENDS Naturals, Sequences, Functions

CONSTANTS Transaction,   \* transaction identifiers (Uuid)
          Channel,       \* oneshot channels
          None           \* Option::None

ASSUME NoneAssumption == None \notin Transaction

(* LockRequest: the transaction and the channel to signal *)
LockRequest == [transaction : Transaction, channel : Channel]

(* State of the table: holder, the two queues, and the transactions that   *)
(* gave the lock up before they committed.                                 *)
LockState == [current_holder      : Transaction \cup {None},
              waiting_for_release : Seq(LockRequest),
              waiting_to_acquire  : Seq(LockRequest),
              soft_released       : SUBSET Transaction]

newLockTable == [current_holder      |-> None,
                 waiting_for_release |-> << >>,
                 waiting_to_acquire  |-> << >>,
                 soft_released       |-> {}]

---------------------------------------------------------------------------
(* The methods as operators: the table after the call, and the requests    *)
(* whose channels the call signals.                                        *)

afterMaybeWait(lt, q) ==
    IF lt.current_holder = None
    THEN lt
    ELSE [lt EXCEPT !.waiting_for_release = Append(@, q)]

afterAcquire(lt, q) ==
    CASE lt.current_holder = None          -> [lt EXCEPT !.current_holder = q.transaction]
      [] lt.current_holder = q.transaction -> lt
      [] OTHER                             -> [lt EXCEPT !.waiting_to_acquire = Append(@, q)]

grantedAtOnce(lt, q) == lt.current_holder \in {None, q.transaction}

(* Faulty variants of afterRelease, used to confirm that the properties    *)
(* can fail: the lock is not passed on; it passes to the youngest waiter.  *)
releaseWithoutHandOver(lt, mark_as_violatable) ==
    [lt EXCEPT !.current_holder = None, !.waiting_for_release = << >>]

releaseToYoungest(lt, mark_as_violatable) ==
    LET waiting == lt.waiting_to_acquire
        n       == Len(waiting)
    IN  [lt EXCEPT !.current_holder = IF n = 0 THEN None ELSE waiting[n].transaction,
                   !.waiting_for_release = << >>,
                   !.waiting_to_acquire = IF n = 0 THEN @ ELSE SubSeq(@, 1, n - 1)]

afterRelease(lt, mark_as_violatable) ==
    LET waiting == lt.waiting_to_acquire
        idle    == waiting = << >>
    IN  [current_holder      |-> IF idle THEN None ELSE Head(waiting).transaction,
         waiting_for_release |-> << >>,
         waiting_to_acquire  |-> IF idle THEN << >> ELSE Tail(waiting),
         soft_released       |-> IF mark_as_violatable /\ lt.current_holder # None
                                 THEN lt.soft_released \cup {lt.current_holder}
                                 ELSE lt.soft_released]

(* Faulty variant: the youngest waiter is signalled.                       *)
grantedYoungest(lt) ==
    LET waiting == lt.waiting_to_acquire
    IN  IF waiting = << >> THEN {} ELSE {waiting[Len(waiting)]}

(* The acquire request release() hands the lock to: a set of at most one *)
grantedByRelease(lt) ==
    IF lt.waiting_to_acquire = << >> THEN {} ELSE {Head(lt.waiting_to_acquire)}

signalledByRelease(lt) == Range(lt.waiting_for_release) \cup grantedByRelease(lt)

afterCleanSoftReleased(lt, tx_ids) == [lt EXCEPT !.soft_released = @ \ tx_ids]

isCurrentlyHolding(lt, tx_ids) == lt.current_holder \in tx_ids
=============================================================================
