-------------------------- MODULE LockTableProofs --------------------------
(***************************************************************************)
(* Proofs about LockTable for any set of transactions and any number of    *)
(* calls: type correctness, no request is lost or answered twice, the lock *)
(* is never idle while wanted, waiters are granted it in order, and the    *)
(* table implements RangeLock.                                             *)
(***************************************************************************)
EXTENDS LockTable, TLAPS

(* What the induction needs besides the properties themselves: channels    *)
(* are numbered in the order of the calls, so a fresh one is in no queue.  *)
Numbered ==
    /\ \A i \in 1..Len(issued) : issued[i].channel = i
    /\ acquiring \subseteq Range(issued)

IInv == TypeOK /\ NoLostRequest /\ NoIdleLock /\ Numbered

---------------------------------------------------------------------------
(* Facts about queues.                                                     *)

(* Appending to a queue adds exactly that element to its contents.         *)
LEMMA RangeAppend ==
    ASSUME NEW S, NEW s \in Seq(S), NEW x \in S
    PROVE  Range(Append(s, x)) = Range(s) \cup {x}
<1>1. /\ Len(s) \in Nat
      /\ Len(Append(s, x)) = Len(s) + 1
      /\ DOMAIN Append(s, x) = 1..(Len(s) + 1)
      /\ DOMAIN s = 1..Len(s)
      /\ \A i \in 1..Len(s) : Append(s, x)[i] = s[i]
      /\ Append(s, x)[Len(s) + 1] = x
    OBVIOUS
<1>2. ASSUME NEW y \in Range(Append(s, x)) PROVE y \in Range(s) \cup {x}
  <2>1. PICK i \in 1..(Len(s) + 1) : y = Append(s, x)[i]
      BY <1>1, <1>2 DEF Range
  <2>2. i \in 1..Len(s) \/ i = Len(s) + 1
      BY <1>1
  <2>. QED  BY <1>1, <2>1, <2>2 DEF Range
<1>3. ASSUME NEW y \in Range(s) PROVE y \in Range(Append(s, x))
  <2>1. PICK i \in 1..Len(s) : y = s[i]
      BY <1>1, <1>3 DEF Range
  <2>2. i \in 1..(Len(s) + 1)
      BY <1>1
  <2>. QED  BY <1>1, <2>1, <2>2 DEF Range
<1>4. x \in Range(Append(s, x))
  <2>1. Len(s) + 1 \in 1..(Len(s) + 1)
      BY <1>1
  <2>. QED  BY <1>1, <2>1 DEF Range
<1>. QED  BY <1>2, <1>3, <1>4

(* Appending something new to a queue keeps it free of duplicates.         *)
LEMMA InjectiveAppend ==
    ASSUME NEW S, NEW s \in Seq(S), NEW x \in S,
           IsInjective(s), x \notin Range(s)
    PROVE  IsInjective(Append(s, x))
<1>1. /\ Len(s) \in Nat
      /\ DOMAIN Append(s, x) = 1..(Len(s) + 1)
      /\ DOMAIN s = 1..Len(s)
      /\ \A i \in 1..Len(s) : Append(s, x)[i] = s[i]
      /\ Append(s, x)[Len(s) + 1] = x
    OBVIOUS
<1>2. \A i \in 1..Len(s) : s[i] # x
    BY <1>1 DEF Range
<1>3. \A i \in 1..(Len(s) + 1) : i \in 1..Len(s) \/ i = Len(s) + 1
    BY <1>1
<1>. QED  BY <1>1, <1>2, <1>3 DEF IsInjective

(* Popping the front of a queue removes exactly that element.              *)
LEMMA RangeTail ==
    ASSUME NEW S, NEW s \in Seq(S), s # << >>
    PROVE  /\ Tail(s) \in Seq(S)
           /\ Head(s) \in S
           /\ Range(s) = Range(Tail(s)) \cup {Head(s)}
           /\ IsInjective(s) => IsInjective(Tail(s)) /\ Head(s) \notin Range(Tail(s))
<1>1. /\ Len(s) \in Nat \ {0}
      /\ Tail(s) \in Seq(S)
      /\ Head(s) \in S
      /\ Len(Tail(s)) = Len(s) - 1
      /\ DOMAIN s = 1..Len(s)
      /\ DOMAIN Tail(s) = 1..(Len(s) - 1)
      /\ Head(s) = s[1]
      /\ \A i \in 1..(Len(s) - 1) : Tail(s)[i] = s[i + 1]
    OBVIOUS
<1>2. ASSUME NEW y \in Range(s) PROVE y \in Range(Tail(s)) \cup {Head(s)}
  <2>1. PICK i \in 1..Len(s) : y = s[i]
      BY <1>1, <1>2 DEF Range
  <2>2. CASE i = 1
      BY <1>1, <2>1, <2>2
  <2>3. CASE i # 1
    <3>1. i - 1 \in 1..(Len(s) - 1) /\ (i - 1) + 1 = i
        BY <1>1, <2>3
    <3>2. Tail(s)[i - 1] = y
        BY <1>1, <2>1, <3>1
    <3>. QED  BY <1>1, <3>1, <3>2 DEF Range
  <2>. QED  BY <2>2, <2>3
<1>3. ASSUME NEW y \in Range(Tail(s)) PROVE y \in Range(s)
  <2>1. PICK i \in 1..(Len(s) - 1) : y = Tail(s)[i]
      BY <1>1, <1>3 DEF Range
  <2>2. i + 1 \in 1..Len(s)
      BY <1>1
  <2>. QED  BY <1>1, <2>1, <2>2 DEF Range
<1>4. Head(s) \in Range(s)
  <2>1. 1 \in 1..Len(s)
      BY <1>1
  <2>. QED  BY <1>1, <2>1 DEF Range
<1>5. ASSUME IsInjective(s) PROVE IsInjective(Tail(s))
  <2>1. \A i \in 1..(Len(s) - 1) : i + 1 \in 1..Len(s)
      BY <1>1
  <2>. SUFFICES ASSUME NEW i \in 1..(Len(s) - 1), NEW j \in 1..(Len(s) - 1),
                       Tail(s)[i] = Tail(s)[j]
                PROVE  i = j
      BY <1>1 DEF IsInjective
  <2>2. s[i + 1] = s[j + 1]
      BY <1>1
  <2>3. i + 1 = j + 1
      BY <1>1, <1>5, <2>1, <2>2 DEF IsInjective
  <2>. QED  BY <1>1, <2>3
<1>6. ASSUME IsInjective(s), Head(s) \in Range(Tail(s)) PROVE FALSE
  <2>1. PICK i \in 1..(Len(s) - 1) : Head(s) = Tail(s)[i]
      BY <1>1, <1>6 DEF Range
  <2>2. i + 1 \in 1..Len(s) /\ 1 \in 1..Len(s) /\ i + 1 # 1
      BY <1>1
  <2>3. s[1] = s[i + 1]
      BY <1>1, <2>1
  <2>. QED  BY <1>1, <1>6, <2>2, <2>3 DEF IsInjective
<1>. QED  BY <1>1, <1>2, <1>3, <1>4, <1>5, <1>6

(* The empty queue holds nothing.                                          *)
LEMMA RangeEmpty == Range(<< >>) = {} /\ IsInjective(<< >>)
BY DEF Range, IsInjective

---------------------------------------------------------------------------
(* A channel not yet numbered belongs to no request made so far.           *)
LEMMA FreshIsNew ==
    ASSUME TypeOK, Numbered, NEW q \in LockRequest, fresh(q)
    PROVE  q \notin Range(issued)
<1>1. SUFFICES ASSUME NEW i \in 1..Len(issued), q = issued[i] PROVE FALSE
    BY DEF Range, TypeOK
<1>2. i = Len(issued) + 1 /\ Len(issued) \in Nat
    BY <1>1 DEF fresh, Numbered, TypeOK
<1>. QED  BY <1>2

(* A call extends the numbering by its own channel.                        *)
LEMMA NumberedStep ==
    ASSUME TypeOK, Numbered, NEW q \in LockRequest, fresh(q),
           issued' = Append(issued, q), acquiring' \subseteq acquiring \cup {q}
    PROVE  /\ Numbered'
           /\ issued' \in Seq(LockRequest)
           /\ Range(issued') = Range(issued) \cup {q}
<1>1. /\ issued \in Seq(LockRequest)
      /\ issued' \in Seq(LockRequest)
      /\ Len(issued) \in Nat
      /\ Len(issued') = Len(issued) + 1
      /\ \A i \in 1..Len(issued) : issued'[i] = issued[i]
      /\ issued'[Len(issued) + 1] = q
    BY DEF TypeOK
<1>2. Range(issued') = Range(issued) \cup {q}
    BY <1>1, RangeAppend
<1>3. \A i \in 1..Len(issued') : issued'[i].channel = i
    BY <1>1 DEF Numbered, fresh
<1>. QED  BY <1>1, <1>2, <1>3 DEF Numbered

(* The initial table satisfies the inductive invariant.                    *)
LEMMA InitIInv == Init => IInv
BY RangeEmpty
   DEF Init, IInv, TypeOK, NoLostRequest, NoIdleLock, Numbered, newLockTable, LockState

(* maybe_wait_for_current_holder signals at once or queues the caller.     *)
LEMMA MaybeWaitIInv ==
    ASSUME IInv, NEW q \in LockRequest, maybe_wait_for_current_holder(q)
    PROVE  IInv'
<1> DEFINE rel == state.waiting_for_release
<1>. USE DEF IInv
<1>1. q \notin Range(issued)
    BY FreshIsNew DEF maybe_wait_for_current_holder
<1>2. /\ Numbered'
      /\ issued' \in Seq(LockRequest)
      /\ Range(issued') = Range(issued) \cup {q}
    BY NumberedStep DEF maybe_wait_for_current_holder
<1>3. /\ rel \in Seq(LockRequest)
      /\ q \notin Range(rel)
      /\ q \notin acquiring
      /\ q \notin signalled
      /\ q \notin Range(state.waiting_to_acquire)
    BY <1>1 DEF TypeOK, LockState, NoLostRequest, Numbered
<1>4. CASE state.current_holder = None
  <2>1. state' = state /\ signalled' = signalled \cup {q} /\ acquiring' = acquiring
      BY <1>4 DEF maybe_wait_for_current_holder, afterMaybeWait
  <2>. QED  BY <1>2, <1>3, <1>4, <2>1 DEF TypeOK, NoLostRequest, NoIdleLock
<1>5. CASE state.current_holder # None
  <2>1. /\ state' = [state EXCEPT !.waiting_for_release = Append(rel, q)]
        /\ signalled' = signalled
        /\ acquiring' = acquiring
      BY <1>5 DEF maybe_wait_for_current_holder, afterMaybeWait
  <2>2. /\ Append(rel, q) \in Seq(LockRequest)
        /\ Range(Append(rel, q)) = Range(rel) \cup {q}
      BY <1>3, RangeAppend
  <2>3. IsInjective(Append(rel, q))
      BY <1>3, InjectiveAppend DEF NoLostRequest
  <2>4. /\ state'.waiting_for_release = Append(rel, q)
        /\ state'.waiting_to_acquire = state.waiting_to_acquire
        /\ state'.current_holder = state.current_holder
        /\ state' \in LockState
      BY <2>1, <2>2 DEF TypeOK, LockState
  <2>5. NoLostRequest'
      BY <1>2, <1>3, <2>1, <2>2, <2>3, <2>4 DEF NoLostRequest
  <2>. QED  BY <1>2, <1>5, <2>1, <2>4, <2>5 DEF TypeOK, NoIdleLock
<1>. QED  BY <1>4, <1>5

(* acquire grants the lock, finds the caller holding it, or queues it.     *)
LEMMA AcquireIInv ==
    ASSUME IInv, NEW q \in LockRequest, acquire(q)
    PROVE  IInv'
<1> DEFINE acq == state.waiting_to_acquire
<1>. USE DEF IInv
<1>1. q \notin Range(issued)
    BY FreshIsNew DEF acquire
<1>2. /\ Numbered'
      /\ issued' \in Seq(LockRequest)
      /\ Range(issued') = Range(issued) \cup {q}
    BY NumberedStep DEF acquire
<1>3. /\ acq \in Seq(LockRequest)
      /\ q \notin Range(acq)
      /\ q \notin signalled
      /\ q \notin Range(state.waiting_for_release)
      /\ acquiring' = acquiring \cup {q}
      /\ acquiring' \in SUBSET LockRequest
    BY <1>1 DEF TypeOK, LockState, NoLostRequest, Numbered, acquire
<1>4. CASE grantedAtOnce(state, q)
  <2>1. signalled' = signalled \cup {q}
      BY <1>4 DEF acquire
  <2>2. /\ state' \in LockState
        /\ state'.current_holder = q.transaction
        /\ state'.waiting_to_acquire = acq
        /\ state'.waiting_for_release = state.waiting_for_release
      BY <1>4, NoneAssumption
         DEF acquire, afterAcquire, grantedAtOnce, TypeOK, LockState, LockRequest
  <2>3. q.transaction # None
      BY NoneAssumption DEF LockRequest
  <2>4. NoLostRequest'
      BY <1>2, <1>3, <2>1, <2>2 DEF NoLostRequest
  <2>. QED  BY <1>2, <1>3, <2>1, <2>2, <2>3, <2>4 DEF TypeOK, NoIdleLock
<1>5. CASE ~grantedAtOnce(state, q)
  <2>1. /\ state' = [state EXCEPT !.waiting_to_acquire = Append(acq, q)]
        /\ signalled' = signalled
      BY <1>5 DEF acquire, afterAcquire, grantedAtOnce
  <2>2. /\ Append(acq, q) \in Seq(LockRequest)
        /\ Range(Append(acq, q)) = Range(acq) \cup {q}
      BY <1>3, RangeAppend
  <2>3. IsInjective(Append(acq, q))
      BY <1>3, InjectiveAppend DEF NoLostRequest
  <2>4. /\ state'.waiting_to_acquire = Append(acq, q)
        /\ state'.waiting_for_release = state.waiting_for_release
        /\ state'.current_holder = state.current_holder
        /\ state' \in LockState
      BY <2>1, <2>2 DEF TypeOK, LockState
  <2>5. NoLostRequest'
      BY <1>2, <1>3, <2>1, <2>2, <2>3, <2>4 DEF NoLostRequest
  <2>. QED  BY <1>2, <1>3, <1>5, <2>1, <2>4, <2>5 DEF TypeOK, NoIdleLock, grantedAtOnce
<1>. QED  BY <1>4, <1>5

(* The record release builds is a table.                                   *)
LEMMA RecordIsState ==
    ASSUME NEW h \in Transaction \cup {None}, NEW acq \in Seq(LockRequest),
           NEW soft \in SUBSET Transaction
    PROVE  /\ << >> \in Seq(LockRequest)
           /\ [current_holder |-> h, waiting_for_release |-> << >>,
               waiting_to_acquire |-> acq, soft_released |-> soft] \in LockState
<1>1. << >> \in Seq(LockRequest)
    OBVIOUS
<1>2. ASSUME NEW rel \in Seq(LockRequest)
      PROVE  [current_holder |-> h, waiting_for_release |-> rel,
              waiting_to_acquire |-> acq, soft_released |-> soft] \in LockState
    BY DEF LockState
<1>. QED  BY <1>1, <1>2

(* release wakes the watchers and passes the lock to the oldest waiter.    *)
LEMMA ReleaseIInv ==
    ASSUME IInv, NEW mark \in BOOLEAN, release(mark)
    PROVE  IInv'
<1> DEFINE acq == state.waiting_to_acquire
           rel == state.waiting_for_release
<1>. USE DEF IInv
<1>1. /\ acq \in Seq(LockRequest)
      /\ rel \in Seq(LockRequest)
      /\ state.soft_released \in SUBSET Transaction
      /\ state.current_holder \in Transaction \cup {None}
      /\ UNCHANGED <<issued, acquiring>>
    BY DEF TypeOK, LockState, release
<1>2. /\ state'.waiting_for_release = << >>
      /\ state'.soft_released \in SUBSET Transaction
    BY <1>1 DEF release, afterRelease
<1>3. Numbered'
    BY <1>1 DEF Numbered
<1>4. CASE acq = << >>
  <2>1. /\ state'.current_holder = None
        /\ state'.waiting_to_acquire = << >>
        /\ signalled' = signalled \cup Range(rel)
      BY <1>4 DEF release, afterRelease, signalledByRelease, grantedByRelease
  <2>2. state' \in LockState
    <3>1. state' = [current_holder      |-> None,
                    waiting_for_release |-> << >>,
                    waiting_to_acquire  |-> acq,
                    soft_released       |-> state'.soft_released]
        BY <1>4 DEF release, afterRelease
    <3>2. [current_holder |-> None, waiting_for_release |-> << >>,
           waiting_to_acquire |-> acq, soft_released |-> state'.soft_released] \in LockState
        BY <1>1, <1>2, RecordIsState, Zenon
    <3>. QED  BY <3>1, <3>2, Zenon
  <2>3. signalled' \subseteq Range(issued)
      BY <2>1 DEF NoLostRequest
  <2>4. NoLostRequest'
      BY <1>1, <1>2, <1>4, <2>1, RangeEmpty DEF NoLostRequest
  <2>5. signalled' \in SUBSET LockRequest
      BY <1>1, <2>1 DEF TypeOK, Range
  <2>. QED  BY <1>1, <1>2, <1>3, <2>1, <2>2, <2>4, <2>5 DEF TypeOK, NoIdleLock
<1>5. CASE acq # << >>
  <2>1. /\ Tail(acq) \in Seq(LockRequest)
        /\ Head(acq) \in LockRequest
        /\ Range(acq) = Range(Tail(acq)) \cup {Head(acq)}
        /\ IsInjective(Tail(acq))
        /\ Head(acq) \notin Range(Tail(acq))
      BY <1>1, <1>5, RangeTail DEF NoLostRequest
  <2>2. /\ state'.current_holder = Head(acq).transaction
        /\ state'.waiting_to_acquire = Tail(acq)
        /\ signalled' = signalled \cup Range(rel) \cup {Head(acq)}
      BY <1>5 DEF release, afterRelease, signalledByRelease, grantedByRelease
  <2>3. /\ Head(acq).transaction \in Transaction
        /\ Head(acq).transaction # None
      BY <2>1, NoneAssumption DEF LockRequest
  <2>4. state' \in LockState
    <3>1. state' = [current_holder      |-> Head(acq).transaction,
                    waiting_for_release |-> << >>,
                    waiting_to_acquire  |-> Tail(acq),
                    soft_released       |-> state'.soft_released]
        BY <1>5 DEF release, afterRelease
    <3>2. Head(acq).transaction \in Transaction \cup {None}
        BY <2>3
    <3>3. [current_holder |-> Head(acq).transaction, waiting_for_release |-> << >>,
           waiting_to_acquire |-> Tail(acq), soft_released |-> state'.soft_released] \in LockState
        BY <1>2, <2>1, <3>2, RecordIsState, Zenon
    <3>. QED  BY <3>1, <3>3, Zenon
  <2>5. NoLostRequest'
      BY <1>1, <1>2, <2>1, <2>2, RangeEmpty DEF NoLostRequest
  <2>6. signalled' \in SUBSET LockRequest
      BY <1>1, <2>1, <2>2 DEF TypeOK, Range
  <2>. QED  BY <1>1, <1>2, <1>3, <2>2, <2>3, <2>4, <2>5, <2>6 DEF TypeOK, NoIdleLock
<1>. QED  BY <1>4, <1>5

(* clean_soft_released touches neither holder nor queues.                  *)
LEMMA CleanIInv ==
    ASSUME IInv, NEW tx_ids \in SUBSET Transaction, clean_soft_released(tx_ids)
    PROVE  IInv'
BY DEF IInv, clean_soft_released, afterCleanSoftReleased, TypeOK, LockState,
       NoLostRequest, NoIdleLock, Numbered

(* The inductive invariant holds in every reachable state.                 *)
THEOREM Invariance == Spec => []IInv
<1>1. IInv /\ [Next]_vars => IInv'
  <2>. SUFFICES ASSUME IInv, [Next]_vars PROVE IInv'
      OBVIOUS
  <2>1. CASE \E q \in LockRequest : maybe_wait_for_current_holder(q)
      BY <2>1, MaybeWaitIInv
  <2>2. CASE \E q \in LockRequest : acquire(q)
      BY <2>2, AcquireIInv
  <2>3. CASE \E mark \in BOOLEAN : release(mark)
      BY <2>3, ReleaseIInv
  <2>4. CASE \E tx_ids \in SUBSET Transaction : clean_soft_released(tx_ids)
      BY <2>4, CleanIInv
  <2>5. CASE UNCHANGED vars
      BY <2>5 DEF IInv, vars, TypeOK, NoLostRequest, NoIdleLock, Numbered
  <2>. QED  BY <2>1, <2>2, <2>3, <2>4, <2>5 DEF Next
<1>. QED  BY InitIInv, <1>1, PTL DEF Spec

(* Type correctness of the table.                                          *)
THEOREM TypeCorrect == Spec => []TypeOK
BY Invariance, PTL DEF IInv

(* No acquire or wait is ever forgotten, and none is answered twice.       *)
THEOREM RequestsAreKept == Spec => []NoLostRequest
BY Invariance, PTL DEF IInv

(* release never leaves the lock free with somebody queued.                *)
THEOREM LockIsNeverIdle == Spec => []NoIdleLock
BY Invariance, PTL DEF IInv

---------------------------------------------------------------------------
(* The order of grants.  The queue of acquire requests is in the order of  *)
(* the calls: channels are numbered, and a request is appended once.       *)
Sorted ==
    LET acq == state.waiting_to_acquire
    IN  \A a, b \in 1..Len(acq) : a < b => acq[a].channel < acq[b].channel

LEMMA SortedStep ==
    ASSUME IInv, Sorted, [Next]_vars
    PROVE  Sorted'
<1> DEFINE acq == state.waiting_to_acquire
<1>1. acq \in Seq(LockRequest) /\ Len(acq) \in Nat /\ issued \in Seq(LockRequest)
    BY DEF IInv, TypeOK, LockState
<1>2. ASSUME state'.waiting_to_acquire = acq PROVE Sorted'
    BY <1>2 DEF Sorted
<1>3. ASSUME NEW q \in LockRequest, acquire(q) PROVE Sorted'
  <2>1. CASE grantedAtOnce(state, q)
    <3>1. state'.waiting_to_acquire = acq
        BY <1>3, <2>1 DEF acquire, afterAcquire, grantedAtOnce, IInv, TypeOK, LockState
    <3>. QED  BY <3>1, <1>2
  <2>2. CASE ~grantedAtOnce(state, q)
    <3>1. state'.waiting_to_acquire = Append(acq, q)
        BY <1>3, <2>2 DEF acquire, afterAcquire, grantedAtOnce, IInv, TypeOK, LockState
    <3>2. \A a \in 1..Len(acq) : acq[a].channel < q.channel
      <4>. SUFFICES ASSUME NEW a \in 1..Len(acq) PROVE acq[a].channel < q.channel
          OBVIOUS
      <4>1. acq[a] \in Range(issued)
        <5>1. acq[a] \in Range(acq)
            BY <1>1 DEF Range
        <5>. QED  BY <5>1 DEF IInv, NoLostRequest
      <4>2. PICK i \in 1..Len(issued) : acq[a] = issued[i]
          BY <1>1, <4>1 DEF Range
      <4>3. acq[a].channel = i /\ q.channel = Len(issued) + 1 /\ Len(issued) \in Nat
          BY <1>1, <1>3, <4>2 DEF IInv, Numbered, acquire, fresh
      <4>. QED  BY <4>3
    <3>3. /\ Len(Append(acq, q)) = Len(acq) + 1
          /\ \A a \in 1..Len(acq) : Append(acq, q)[a] = acq[a]
          /\ Append(acq, q)[Len(acq) + 1] = q
        BY <1>1
    <3>4. ASSUME NEW a \in 1..(Len(acq) + 1), NEW b \in 1..(Len(acq) + 1), a < b
          PROVE  Append(acq, q)[a].channel < Append(acq, q)[b].channel
      <4>1. a \in 1..Len(acq) /\ (b \in 1..Len(acq) \/ b = Len(acq) + 1)
          BY <1>1, <3>4
      <4>. QED  BY <3>2, <3>3, <3>4, <4>1 DEF Sorted
    <3>. QED  BY <3>1, <3>3, <3>4 DEF Sorted
  <2>. QED  BY <2>1, <2>2
<1>4. ASSUME NEW mark \in BOOLEAN, release(mark) PROVE Sorted'
  <2>1. CASE acq = << >>
    <3>1. state'.waiting_to_acquire = acq
        BY <1>4, <2>1 DEF release, afterRelease
    <3>. QED  BY <3>1, <1>2
  <2>2. CASE acq # << >>
    <3>1. state'.waiting_to_acquire = Tail(acq)
        BY <1>4, <2>2 DEF release, afterRelease
    <3>2. /\ Len(Tail(acq)) = Len(acq) - 1
          /\ \A a \in 1..(Len(acq) - 1) : Tail(acq)[a] = acq[a + 1] /\ a + 1 \in 1..Len(acq)
        BY <1>1, <2>2
    <3>3. ASSUME NEW a \in 1..(Len(acq) - 1), NEW b \in 1..(Len(acq) - 1), a < b
          PROVE  Tail(acq)[a].channel < Tail(acq)[b].channel
      <4>1. a + 1 < b + 1
          BY <3>3
      <4>. QED  BY <3>2, <4>1 DEF Sorted
    <3>. QED  BY <3>1, <3>2, <3>3 DEF Sorted
  <2>. QED  BY <2>1, <2>2
<1>5. ASSUME NEW q \in LockRequest, maybe_wait_for_current_holder(q) PROVE Sorted'
    BY <1>2, <1>5 DEF maybe_wait_for_current_holder, afterMaybeWait, IInv, TypeOK, LockState
<1>6. ASSUME NEW tx_ids \in SUBSET Transaction, clean_soft_released(tx_ids) PROVE Sorted'
    BY <1>2, <1>6 DEF clean_soft_released, afterCleanSoftReleased, IInv, TypeOK, LockState
<1>7. CASE UNCHANGED vars
    BY <1>2, <1>7 DEF vars
<1>. QED  BY <1>3, <1>4, <1>5, <1>6, <1>7 DEF Next

(* What a request in the queue waits for: only release takes it out, and   *)
(* it takes the oldest.                                                    *)
LEMMA OldestIsGranted ==
    ASSUME IInv, Sorted, [Next]_vars, NEW i \in 1..Len(issued), NEW j \in 1..Len(issued),
           i < j, issued[i] \in acquiring, issued[j] \in acquiring,
           issued[j] \in signalled' \ signalled
    PROVE  issued[i] \in signalled'
<1> DEFINE acq == state.waiting_to_acquire
           rel == state.waiting_for_release
<1>1. /\ issued \in Seq(LockRequest) /\ acq \in Seq(LockRequest)
      /\ issued[i] \in Range(issued) /\ issued[j] \in Range(issued)
      /\ issued[i].channel = i /\ issued[j].channel = j
    BY DEF IInv, TypeOK, LockState, Numbered, Range
<1>2. ASSUME NEW q \in LockRequest, fresh(q), signalled' \subseteq signalled \cup {q} PROVE FALSE
    BY <1>1, <1>2, FreshIsNew DEF IInv
<1>3. PICK mark \in BOOLEAN : release(mark)
    BY <1>2 DEF Next, vars, maybe_wait_for_current_holder, acquire, clean_soft_released
<1>4. /\ signalled' = signalled \cup Range(rel) \cup grantedByRelease(state)
      /\ issued[i] \notin Range(rel) /\ issued[j] \notin Range(rel)
      /\ issued[i] \in signalled \cup Range(acq)
    BY <1>1, <1>3 DEF release, signalledByRelease, IInv, NoLostRequest
<1>5. acq # << >> /\ issued[j] = Head(acq) /\ Head(acq) = acq[1] /\ 1 \in 1..Len(acq)
    BY <1>1, <1>4 DEF grantedByRelease
<1>6. ASSUME issued[i] \in Range(acq) PROVE FALSE
  <2>1. PICK a \in 1..Len(acq) : issued[i] = acq[a]
      BY <1>1, <1>6 DEF Range
  <2>2. a # 1
      BY <1>1, <1>5, <2>1
  <2>3. acq[1].channel < acq[a].channel
      BY <1>1, <1>5, <2>1, <2>2 DEF Sorted
  <2>. QED  BY <1>1, <1>5, <2>1, <2>3
<1>. QED  BY <1>4, <1>6

(* A request that had to wait is granted the lock only after every acquire *)
(* made before it: release passes the lock to the front of one queue.      *)
THEOREM GrantsInOrderHolds == Spec => GrantsInOrder
<1>1. Init => Sorted
    BY DEF Init, newLockTable, Sorted
<1>2. Spec => []Sorted
    BY <1>1, SortedStep, Invariance, PTL DEF Spec
<1>3. ASSUME IInv, Sorted, [Next]_vars
      PROVE  [\A i, j \in 1..Len(issued) :
                (/\ i < j
                 /\ issued[i] \in acquiring
                 /\ issued[j] \in acquiring
                 /\ issued[j] \in signalled' \ signalled)
                => issued[i] \in signalled']_vars
    BY <1>3, OldestIsGranted
<1>. QED  BY <1>2, <1>3, Invariance, PTL DEF Spec, GrantsInOrder

---------------------------------------------------------------------------
(* Every call of the table is a step of RangeLock, or leaves it unchanged. *)
LEMMA StepRefines ==
    ASSUME IInv, IInv', [Next]_vars
    PROVE  [Abstract!Next]_(Abstract!lockVars)
<1> DEFINE acq == state.waiting_to_acquire
<1>. USE DEF Abstract!Next, Abstract!lockVars
<1>1. ASSUME NEW q \in LockRequest, maybe_wait_for_current_holder(q)
      PROVE  UNCHANGED Abstract!lockVars
  <2>1. q \notin acquiring
      BY <1>1, FreshIsNew DEF maybe_wait_for_current_holder, IInv, Numbered
  <2>2. signalled' \cap acquiring' = signalled \cap acquiring
      BY <1>1, <2>1 DEF maybe_wait_for_current_holder
  <2>3. /\ state'.current_holder = state.current_holder
        /\ state'.waiting_to_acquire = acq
      BY <1>1 DEF maybe_wait_for_current_holder, afterMaybeWait, IInv, TypeOK, LockState
  <2>. QED  BY <2>2, <2>3
<1>2. ASSUME NEW q \in LockRequest, acquire(q) PROVE Abstract!Ask(q)
  <2>1. /\ q \notin Range(issued)
        /\ acq \in Seq(LockRequest)
        /\ acquiring' = acquiring \cup {q}
      BY <1>2, FreshIsNew DEF acquire, IInv, TypeOK, LockState
  <2>2. q \notin Range(acq) \cup (signalled \cap acquiring)
      BY <2>1 DEF IInv, NoLostRequest
  <2>3. CASE grantedAtOnce(state, q)
    <3>1. /\ state'.current_holder = q.transaction
          /\ state'.waiting_to_acquire = acq
          /\ signalled' = signalled \cup {q}
        BY <1>2, <2>3, NoneAssumption
           DEF acquire, afterAcquire, grantedAtOnce, IInv, TypeOK, LockState, LockRequest
    <3>. QED  BY <2>1, <2>2, <2>3, <3>1 DEF Abstract!Ask, grantedAtOnce
  <2>4. CASE ~grantedAtOnce(state, q)
    <3>1. /\ state'.current_holder = state.current_holder
          /\ state'.waiting_to_acquire = Append(acq, q)
          /\ signalled' = signalled
        BY <1>2, <2>4 DEF acquire, afterAcquire, grantedAtOnce, IInv, TypeOK, LockState
    <3>2. Range(Append(acq, q)) = Range(acq) \cup {q}
        BY <2>1, RangeAppend
    <3>3. q \notin signalled
        BY <2>1 DEF IInv, NoLostRequest
    <3>. QED  BY <2>1, <2>2, <2>4, <3>1, <3>2, <3>3 DEF Abstract!Ask, grantedAtOnce
  <2>. QED  BY <2>3, <2>4
<1>3. ASSUME NEW mark \in BOOLEAN, release(mark)
      PROVE  Abstract!GoIdle \/ \E q \in LockRequest : Abstract!PassOn(q)
  <2> DEFINE rel == state.waiting_for_release
  <2>1. /\ acquiring' = acquiring
        /\ Range(rel) \cap acquiring = {}
        /\ acq \in Seq(LockRequest)
      BY <1>3 DEF release, IInv, NoLostRequest, TypeOK, LockState
  <2>2. CASE acq = << >>
    <3>1. /\ state'.current_holder = None
          /\ state'.waiting_to_acquire = << >>
          /\ signalled' = signalled \cup Range(rel)
        BY <1>3, <2>2 DEF release, afterRelease, signalledByRelease, grantedByRelease
    <3>. QED  BY <2>1, <2>2, <3>1, RangeEmpty DEF Abstract!GoIdle
  <2>3. CASE acq # << >>
    <3>1. /\ Head(acq) \in LockRequest
          /\ Range(acq) = Range(Tail(acq)) \cup {Head(acq)}
          /\ Head(acq) \notin Range(Tail(acq))
        BY <2>1, <2>3, RangeTail DEF IInv, NoLostRequest
    <3>2. Head(acq) \in acquiring
        BY <3>1 DEF IInv, NoLostRequest
    <3>3. /\ state'.current_holder = Head(acq).transaction
          /\ state'.waiting_to_acquire = Tail(acq)
          /\ signalled' = signalled \cup Range(rel) \cup {Head(acq)}
        BY <1>3, <2>3 DEF release, afterRelease, signalledByRelease, grantedByRelease
    <3>4. Abstract!PassOn(Head(acq))
        BY <2>1, <3>1, <3>2, <3>3 DEF Abstract!PassOn
    <3>. QED  BY <3>1, <3>4
  <2>. QED  BY <2>2, <2>3
<1>4. ASSUME NEW tx_ids \in SUBSET Transaction, clean_soft_released(tx_ids)
      PROVE  UNCHANGED Abstract!lockVars
    BY <1>4 DEF clean_soft_released, afterCleanSoftReleased, IInv, TypeOK, LockState
<1>5. CASE UNCHANGED vars
    BY <1>5 DEF vars
<1>. QED  BY <1>1, <1>2, <1>3, <1>4, <1>5 DEF Next

(* The lock table implements the abstract lock: whatever the callers do,   *)
(* no release leaves the lock idle while wanted and no grant goes to a     *)
(* transaction that did not ask.                                           *)
THEOREM Refinement == Spec => RefinesRangeLock
<1>1. Init => Abstract!Init
    BY RangeEmpty DEF Init, Abstract!Init, newLockTable
<1>. QED  BY <1>1, Invariance, StepRefines, PTL DEF Spec, RefinesRangeLock, Abstract!Spec
=============================================================================
