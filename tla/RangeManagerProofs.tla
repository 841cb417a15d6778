------------------------- MODULE RangeManagerProofs -------------------------
(***************************************************************************)
(* Proofs about the handlers of a loaded range, for any transactions, keys *)
(* and scenarios.                                                          *)
(***************************************************************************)
EXTENDS RangeManager, WellFoundedInduction, TLAPS

(* Little arithmetic is involved: Zenon proves what no step leaves to SMT. *)
USE Zenon

Place == {"active", "get", "getStorage", "dropped", "panicked", "lockLost", "releaseReadOnly",
          "acquire", "decide", "append", "release", "flush", "prepared", "committing", "committed"}

(* A prepare that changes something                                        *)
Preparing == {"acquire", "decide", "append", "release", "flush", "prepared"}

CommitPlace == {"collect", "panicked", "upsert", "failed", "buffer", "retire", "holder",
                "release", "clean"}

Typed ==
    /\ scenario \in Scenario
    /\ lock \in LockState
    /\ granted \subseteq LockRequest
    /\ pc \in [Transaction -> Place]
    /\ DOMAIN key = Transaction
    /\ DOMAIN from = Transaction
    /\ DOMAIN early = Transaction
    /\ released_lock_early \in [Transaction -> BOOLEAN]
    /\ aborting \in [Transaction -> {"no", "release", "done"}]
    /\ commits \subseteq [batch : Seq(Transaction), at : CommitPlace]

(* A handler's own state                                                   *)
Local(tx) ==
    /\ aborting[tx] # "no" => pc[tx] # "committing"
    /\ released_lock_early[tx] => pc[tx] \in {"flush", "prepared", "committing", "committed"}
    /\ DOMAIN from[tx] \subseteq Reads(tx)
    /\ from[tx] = << >> \/ DOMAIN from[tx] # {}
    /\ pc[tx] \in {"get", "getStorage"} => key[tx] \in Reads(tx)
    /\ DOMAIN early[tx] \subseteq Changes(tx)
    /\ pc[tx] \in {"append", "release"} => DOMAIN early[tx] = Changes(tx)
    /\ \A k \in DOMAIN early[tx] : early[tx][k] \in BOOLEAN

holder == lock.current_holder
queue == lock.waiting_to_acquire

(* A transaction has at most one lock request under way, in the queue or   *)
(* granted; the holder has none in the queue.                              *)
Outstanding(q) == q = Request(q.transaction) /\ pc[q.transaction] \in {"get", "decide"}

Requests ==
    /\ \A q \in granted \cup Range(queue) : Outstanding(q)
    /\ granted \cap Range(queue) = {}
    /\ IsInjective(queue)
    /\ \A q \in Range(queue) : q.transaction # holder
    /\ holder = None => queue = << >>

(* A transaction is committed by one call.                                 *)
Calls ==
    /\ \A c \in commits : \A tx \in Range(c.batch) : pc[tx] = "committing" /\ aborting[tx] = "no"
    /\ \A c, d \in commits : Range(c.batch) \cap Range(d.batch) # {} => c = d

(* The holder is on its way to give the lock up, has panicked, or was      *)
(* aborted while it waited.                                                *)
Owner(tx) ==
    holder = tx => \/ InCriticalSection(tx)
                   \/ pc[tx] = "panicked"
                   \/ aborting[tx] = "done" /\ pc[tx] # "active"

Exclusive ==
    /\ \A tx \in Transaction : InCriticalSection(tx) => holder = tx
    /\ \A tx \in Transaction : aborting[tx] = "release" => holder = tx
    /\ \A c \in commits : c.at = "release" => holder \in Range(c.batch)
    /\ \A tx \in lock.soft_released : pc[tx] \in {"flush", "prepared", "committing"}

LockInv ==
    /\ Typed /\ Requests /\ Calls
    /\ \A tx \in Transaction : Local(tx) /\ Owner(tx)
    /\ LockStolen \/ Exclusive

---------------------------------------------------------------------------
(* The queue of the lock.                                                  *)

LEMMA QueueAppend ==
    ASSUME NEW S, NEW s \in Seq(S), NEW x \in S, x \notin Range(s), IsInjective(s)
    PROVE  /\ Append(s, x) \in Seq(S)
           /\ Range(Append(s, x)) = Range(s) \cup {x}
           /\ IsInjective(Append(s, x))
<1>1. /\ Len(s) \in Nat /\ Append(s, x) \in Seq(S)
      /\ DOMAIN Append(s, x) = 1..(Len(s) + 1)
      /\ DOMAIN s = 1..Len(s)
      /\ \A i \in 1..Len(s) : Append(s, x)[i] = s[i]
      /\ Append(s, x)[Len(s) + 1] = x
    BY SMTT(30)
<1>2. \A i : i \in 1..(Len(s) + 1) <=> i \in 1..Len(s) \/ i = Len(s) + 1
    BY <1>1, SMTT(30)
<1>3. \A i \in 1..Len(s) : s[i] # x
    BY <1>1 DEF Range
<1>4. Range(Append(s, x)) = Range(s) \cup {x}
    BY <1>1, <1>2 DEF Range
<1>5. IsInjective(Append(s, x))
    BY <1>1, <1>2, <1>3 DEF IsInjective
<1>. QED
    BY <1>1, <1>4, <1>5

LEMMA RecordIsLock ==
    ASSUME NEW h \in Transaction \cup {None}, NEW acq \in Seq(LockRequest),
           NEW soft \in SUBSET Transaction
    PROVE  [current_holder |-> h, waiting_for_release |-> << >>,
            waiting_to_acquire |-> acq, soft_released |-> soft] \in LockState
<1>1. << >> \in Seq(LockRequest)
    BY SMTT(30)
<1>2. ASSUME NEW rel \in Seq(LockRequest)
      PROVE  [current_holder |-> h, waiting_for_release |-> rel,
              waiting_to_acquire |-> acq, soft_released |-> soft] \in LockState
    BY SMTT(30) DEF LockState
<1>. QED
    BY <1>1, <1>2

---------------------------------------------------------------------------
(* Frames.  What the invariant says of a transaction that a step leaves    *)
(* alone                                                                   *)

SameAt(u) ==
    /\ pc'[u] = pc[u] /\ key'[u] = key[u] /\ from'[u] = from[u] /\ early'[u] = early[u]
    /\ released_lock_early'[u] = released_lock_early[u] /\ aborting'[u] = aborting[u]

Busy(u) == \E c \in commits : u \in Range(c.batch) /\ c.at # "clean"

(* An abort that overtook a prepare stays one.                             *)
LEMMA StolenStays ==
    ASSUME \A u \in Transaction :
              /\ AbortedInCall(u) => AbortedInCall(u)'
              /\ released_lock_early[u] => released_lock_early'[u]
              /\ pc[u] = "committed" => pc'[u] = "committed"
    PROVE  LockStolen => LockStolen'
BY DEF LockStolen

(* A call names its transactions.                                          *)
LEMMA BatchTyped ==
    ASSUME Typed, NEW c \in commits
    PROVE  c.batch \in Seq(Transaction) /\ Range(c.batch) \subseteq Transaction /\ c.at \in CommitPlace
<1>1. c.batch \in Seq(Transaction) /\ c.at \in CommitPlace
    BY SMTT(30) DEF Typed
<1>. QED
    BY <1>1, SMTT(30) DEF Range

LEMMA Inserted ==
    ASSUME NEW map, NEW x, NEW value
    PROVE  Insert(map, x, value) # << >>
<1>1. x \in DOMAIN Insert(map, x, value)
    BY DEF Insert
<1>2. DOMAIN << >> = {}
    BY SMTT(30)
<1>. QED
    BY <1>1, <1>2

(* What a read leaves of from                                              *)
LEMMA ReadKept ==
    ASSUME LockInv, NEW tx \in Transaction, NEW writer, ReadFrom(tx, writer)
    PROVE  /\ pc' = [pc EXCEPT ![tx] = pc'[tx]]
           /\ pc'[tx] = IF aborting[tx] = "no" THEN "active" ELSE "dropped"
           /\ DOMAIN from' = Transaction
           /\ DOMAIN from'[tx] = DOMAIN from[tx] \cup {key[tx]}
           /\ \A k \in DOMAIN from'[tx] : from'[tx][k] = IF k = key[tx] THEN writer ELSE from[tx][k]
           /\ from'[tx] # << >>
           /\ \A u \in Transaction \ {tx} : from'[u] = from[u]
<1>. DEFINE there == IF aborting[tx] = "no" THEN "active" ELSE "dropped"
<1>1. from' = [from EXCEPT ![tx] = Insert(from[tx], key[tx], writer)]
      /\ pc' = [pc EXCEPT ![tx] = there]
    BY DEF ReadFrom, Goto
<1>. HIDE DEF there
<1>2. from'[tx] = Insert(from[tx], key[tx], writer) /\ DOMAIN from' = Transaction
      /\ pc'[tx] = there
      /\ \A u \in Transaction \ {tx} : from'[u] = from[u]
    BY <1>1 DEF LockInv, Typed
<1>5. pc' = [pc EXCEPT ![tx] = pc'[tx]]
    BY <1>1, <1>2
<1>3. /\ DOMAIN from'[tx] = DOMAIN from[tx] \cup {key[tx]}
      /\ from'[tx] # << >>
  <2>1. from'[tx] = Insert(from[tx], key[tx], writer)
    BY <1>2
  <2>2. DOMAIN Insert(from[tx], key[tx], writer) = DOMAIN from[tx] \cup {key[tx]}
    BY DEF Insert
  <2>3. Insert(from[tx], key[tx], writer) # << >>
    BY Inserted
  <2>. QED
    BY <2>1, <2>2, <2>3
<1>4. ASSUME NEW k \in DOMAIN from[tx] \cup {key[tx]}
      PROVE  from'[tx][k] = IF k = key[tx] THEN writer ELSE from[tx][k]
    BY <1>2 DEF Insert
<1>. QED
    BY <1>2, <1>3, <1>4, <1>5 DEF there

---------------------------------------------------------------------------
(* The steps of commit *)
LEMMA BatchesAreSequences == Batches \subseteq Seq(Transaction)
<1>1. Cardinality(Transaction) \in Nat
    BY RangeManagerAssumption
<1>2. ASSUME NEW n \in 1..Cardinality(Transaction) PROVE n \in Nat
    BY <1>1, SMTT(30)
<1>3. ASSUME NEW n \in Nat, NEW f \in [1..n -> Transaction] PROVE f \in Seq(Transaction)
    BY SMTT(30)
<1>. QED
    BY <1>2, <1>3 DEF Batches

---------------------------------------------------------------------------
LEMMA InitLock == Init => LockInv
<1>. SUFFICES ASSUME Init PROVE LockInv
    OBVIOUS
<1>1. DOMAIN << >> = {} /\ << >> \in Seq(LockRequest)
    BY SMTT(30)
<1>2. lock \in LockState /\ holder = None /\ queue = << >> /\ lock.soft_released = {}
  <2>1. lock = newLockTable
    BY DEF Init
  <2>2. lock \in LockState
    BY <1>1, <2>1, RecordIsLock DEF newLockTable
  <2>. QED
    BY <2>1, <2>2, SMTT(30) DEF newLockTable, holder, queue
<1>3. Typed
    BY <1>2, RangeManagerAssumption DEF Init, Typed, Place
<1>4. Requests
    BY <1>1, <1>2 DEF Init, Requests, Range, IsInjective
<1>5. Calls
    BY DEF Init, Calls
<1>6. \A tx \in Transaction : Local(tx) /\ Owner(tx)
    BY <1>1, <1>2, NoneAssumption DEF Init, Local, Owner
<1>7. Exclusive
    BY <1>1, <1>2 DEF Init, Exclusive, InCriticalSection
<1>. QED
    BY <1>3, <1>4, <1>5, <1>6, <1>7 DEF LockInv

LEMMA NextLock == LockInv /\ [Next]_vars => LockInv'
<1>QueueTail.
    ASSUME NEW S, NEW s \in Seq(S), s # << >>, IsInjective(s)
    PROVE  /\ Tail(s) \in Seq(S) /\ Head(s) \in Range(s) /\ Head(s) \in S
           /\ Range(Tail(s)) = Range(s) \ {Head(s)}
           /\ IsInjective(Tail(s))
  <2>. USE <1>QueueTail
  <2>1. /\ Len(s) \in Nat \ {0}
        /\ Tail(s) \in Seq(S) /\ Head(s) \in S /\ Head(s) = s[1]
        /\ DOMAIN s = 1..Len(s) /\ DOMAIN Tail(s) = 1..(Len(s) - 1)
        /\ \A i \in 1..(Len(s) - 1) : Tail(s)[i] = s[i + 1]
      BY SMTT(30)
  <2>2. \A i \in 1..(Len(s) - 1) : i + 1 \in 1..Len(s) /\ i + 1 # 1
      BY <2>1, SMTT(30)
  <2>3. \A i \in 1..Len(s) : i # 1 => i - 1 \in 1..(Len(s) - 1) /\ (i - 1) + 1 = i
      BY <2>1, SMTT(30)
  <2>4. 1 \in 1..Len(s)
      BY <2>1, SMTT(30)
  <2>5. \A i, j \in 1..(Len(s) - 1) : i + 1 = j + 1 => i = j
      BY <2>1, SMTT(30)
  <2>6. IsInjective(Tail(s))
      BY <2>1, <2>2, <2>5 DEF IsInjective
  <2>7. ASSUME NEW y \in Range(s), y # Head(s) PROVE y \in Range(Tail(s))
    <3>1. PICK i \in 1..Len(s) : y = s[i]
      BY <2>1, <2>7 DEF Range
    <3>. QED
      BY <2>1, <2>3, <2>7, <3>1 DEF Range
  <2>8. ASSUME NEW y \in Range(Tail(s)) PROVE y \in Range(s) /\ y # Head(s)
    <3>1. PICK i \in 1..(Len(s) - 1) : y = Tail(s)[i]
      BY <2>1, <2>8 DEF Range
    <3>2. y = s[i + 1] /\ i + 1 \in DOMAIN s /\ 1 \in DOMAIN s /\ i + 1 # 1
      BY <2>1, <2>2, <2>4, <3>1
    <3>3. s[i + 1] # s[1]
      BY <3>2 DEF IsInjective
    <3>. QED
      BY <2>1, <3>2, <3>3 DEF Range
  <2>9. Head(s) \in Range(s)
      BY <2>1, <2>4 DEF Range
  <2>. QED
      BY <2>1, <2>6, <2>7, <2>8, <2>9

(* What acquire and release leave of the table                             *)
<1>AcquireLock.
    ASSUME NEW lt \in LockState, NEW q \in LockRequest
    PROVE  LET after == afterAcquire(lt, q)
           IN  /\ after \in LockState
               /\ after.soft_released = lt.soft_released
               /\ grantedAtOnce(lt, q) =>
                     /\ after.current_holder = q.transaction
                     /\ after.waiting_to_acquire = lt.waiting_to_acquire
               /\ ~grantedAtOnce(lt, q) =>
                     /\ after.current_holder = lt.current_holder
                     /\ after.waiting_to_acquire = Append(lt.waiting_to_acquire, q)
  <2>. USE <1>AcquireLock
  <2>. q.transaction \in Transaction /\ q.transaction # None
      BY NoneAssumption, SMTT(30) DEF LockRequest
  <2>1. CASE grantedAtOnce(lt, q)
    <3>1. CASE lt.current_holder = None
      <4>1. afterAcquire(lt, q) = [lt EXCEPT !.current_holder = q.transaction]
        BY <3>1, SMTT(30) DEF afterAcquire
      <4>. QED
        BY <2>1, <4>1, SMTT(30) DEF LockState, LockRequest
    <3>2. CASE lt.current_holder # None /\ lt.current_holder = q.transaction
      <4>1. afterAcquire(lt, q) = lt
        BY <3>2, SMTT(30) DEF afterAcquire
      <4>. QED
        BY <2>1, <3>2, <4>1
    <3>. QED
      BY <2>1, <3>1, <3>2 DEF grantedAtOnce
  <2>2. CASE ~grantedAtOnce(lt, q)
    <3>1. Append(lt.waiting_to_acquire, q) \in Seq(LockRequest)
      BY SMTT(30) DEF LockState
    <3>2. afterAcquire(lt, q) = [lt EXCEPT !.waiting_to_acquire = Append(@, q)]
      BY <2>2, SMTT(30) DEF afterAcquire, grantedAtOnce
    <3>3. ASSUME NEW acq \in Seq(LockRequest)
          PROVE  LET after == [lt EXCEPT !.waiting_to_acquire = acq]
                 IN  /\ after \in LockState /\ after.soft_released = lt.soft_released
                     /\ after.current_holder = lt.current_holder
                     /\ after.waiting_to_acquire = acq
      BY SMTT(30) DEF LockState
    <3>. QED
      BY <2>2, <3>1, <3>2, <3>3
  <2>. QED
      BY <2>1, <2>2
<1>ReleaseLock.
    ASSUME NEW lt \in LockState, NEW mark \in BOOLEAN, IsInjective(lt.waiting_to_acquire)
    PROVE  LET after == afterRelease(lt, mark)
               acq   == lt.waiting_to_acquire
           IN  /\ after \in LockState
               /\ after.soft_released = IF mark /\ lt.current_holder # None
                                        THEN lt.soft_released \cup {lt.current_holder}
                                        ELSE lt.soft_released
               /\ acq = << >> => /\ after.current_holder = None
                                 /\ after.waiting_to_acquire = << >>
                                 /\ grantedByRelease(lt) = {}
               /\ acq # << >> => /\ after.current_holder = Head(acq).transaction
                                 /\ after.waiting_to_acquire = Tail(acq)
                                 /\ grantedByRelease(lt) = {Head(acq)}
                                 /\ Head(acq) \in LockRequest
  <2>. USE <1>ReleaseLock
  <2>. DEFINE after == afterRelease(lt, mark)
              acq == lt.waiting_to_acquire
              soft == IF mark /\ lt.current_holder # None
                      THEN lt.soft_released \cup {lt.current_holder} ELSE lt.soft_released
  <2>1. /\ acq \in Seq(LockRequest) /\ lt.current_holder \in Transaction \cup {None}
        /\ lt.soft_released \in SUBSET Transaction
      BY SMTT(30) DEF LockState
  <2>2. soft \in SUBSET Transaction
      BY <2>1
  <2>3. CASE acq = << >>
    <3>1. after = [current_holder |-> None, waiting_for_release |-> << >>,
                   waiting_to_acquire |-> << >>, soft_released |-> soft]
      BY <2>3 DEF afterRelease
    <3>2. after \in LockState
      BY <2>1, <2>2, <2>3, <3>1, RecordIsLock
    <3>. QED
      BY <2>3, <3>1, <3>2, SMTT(30) DEF grantedByRelease
  <2>4. CASE acq # << >>
    <3>1. after = [current_holder |-> Head(acq).transaction, waiting_for_release |-> << >>,
                   waiting_to_acquire |-> Tail(acq), soft_released |-> soft]
      BY <2>4 DEF afterRelease
    <3>2. Head(acq) \in LockRequest /\ Tail(acq) \in Seq(LockRequest)
      BY <2>1, <2>4, <1>QueueTail
    <3>3. Head(acq).transaction \in Transaction \cup {None}
      BY <3>2, SMTT(30) DEF LockRequest
    <3>4. after \in LockState
      BY <2>2, <3>1, <3>2, <3>3, RecordIsLock
    <3>. QED
      BY <2>4, <3>1, <3>2, <3>4, SMTT(30) DEF grantedByRelease
  <2>. QED
      BY <2>3, <2>4
<1>LocalStays.
    ASSUME NEW u, scenario' = scenario, SameAt(u), Local(u)
    PROVE  Local(u)'
    BY <1>LocalStays DEF SameAt, Local, Reads, Changes, work
<1>SectionStays.
    ASSUME NEW u, scenario' = scenario, SameAt(u), Busy(u)' <=> Busy(u),
           Request(u) \in granted' <=> Request(u) \in granted
    PROVE  InCriticalSection(u)' <=> InCriticalSection(u)
  <2>. USE <1>SectionStays
  <2>1. Request(u)' = Request(u) /\ (HasReads(u)' <=> HasReads(u))
      BY DEF SameAt, Request, HasReads, Reads, work
  <2>. QED
      BY <2>1 DEF SameAt, InCriticalSection, Busy
<1>RequestsStay.
    ASSUME Requests, Typed, holder' = holder, queue' = queue, granted' \subseteq granted,
           \A u \in Transaction :
              pc'[u] = pc[u] \/ \A q \in granted' \cup Range(queue) : q.transaction # u
    PROVE  Requests'
  <2>. USE <1>RequestsStay
  <2>1. ASSUME NEW q \in granted' \cup Range(queue) PROVE Outstanding(q)'
    <3>1. q \in granted \cup Range(queue) /\ Outstanding(q)
      BY DEF Requests
    <3>2. q \in LockRequest
      <4>1. Range(queue) \subseteq LockRequest
        BY SMTT(30) DEF Typed, LockState, Range, queue
      <4>. QED
        BY <3>1, <4>1 DEF Typed
    <3>3. q.transaction \in Transaction
      BY <3>2, SMTT(30) DEF LockRequest
    <3>4. pc'[q.transaction] = pc[q.transaction]
      BY <3>3
    <3>. QED
      BY <3>1, <3>4 DEF Outstanding, Request
  <2>. QED
      BY <2>1 DEF Requests
<1>QueueTyped.
    ASSUME Typed
    PROVE  /\ queue \in Seq(LockRequest) /\ Range(queue) \subseteq LockRequest
           /\ holder \in Transaction \cup {None}
           /\ lock.soft_released \subseteq Transaction
           /\ \A q \in granted \cup Range(queue) : q \in LockRequest /\ q.transaction \in Transaction
  <2>. USE <1>QueueTyped
  <2>1. queue \in Seq(LockRequest) /\ holder \in Transaction \cup {None}
        /\ lock.soft_released \subseteq Transaction
      BY SMTT(30) DEF Typed, LockState, queue, holder
  <2>2. Range(queue) \subseteq LockRequest
      BY <2>1, SMTT(30) DEF Range
  <2>3. \A q \in LockRequest : q.transaction \in Transaction
      BY SMTT(30) DEF LockRequest
  <2>. QED
      BY <2>1, <2>2, <2>3 DEF Typed

(* A step of one handler that leaves the lock alone                        *)
<1>HandlerMoves.
    ASSUME LockInv, Typed', NEW tx \in Transaction,
           UNCHANGED <<scenario, commits, lock>>,
           \A u \in Transaction \ {tx} : SameAt(u),
           granted' \subseteq granted, granted \ granted' \subseteq {Request(tx)},
           pc[tx] # "committing",
           Local(tx)', Owner(tx)',
           pc'[tx] = pc[tx] \/ Request(tx) \notin granted' \cup Range(queue),
           AbortedInCall(tx) => AbortedInCall(tx)',
           released_lock_early[tx] => released_lock_early'[tx],
           pc[tx] = "committed" => pc'[tx] = "committed",
           LockStolen' \/ LockStolen
              \/ /\ InCriticalSection(tx)' => holder = tx
                 /\ aborting'[tx] = "release" => holder = tx
                 /\ tx \in lock.soft_released => pc'[tx] \in {"flush", "prepared", "committing"}
    PROVE  LockInv'
  <2>. USE <1>HandlerMoves
  <2>1. holder' = holder /\ queue' = queue
      BY DEF holder, queue
  <2>2. \A u \in Transaction : Busy(u)' <=> Busy(u)
      BY DEF Busy
  <2>3. \A u \in Transaction : Local(u)'
      BY <1>LocalStays DEF LockInv
  <2>4. Requests'
    <3>1. ASSUME NEW u \in Transaction, NEW q \in granted' \cup Range(queue), q.transaction = u,
                 pc'[u] # pc[u]
          PROVE  FALSE
      <4>1. u = tx
        BY <3>1 DEF SameAt
      <4>2. q = Request(tx)
        BY <3>1, <4>1 DEF LockInv, Requests, Outstanding
      <4>. QED
        BY <3>1, <4>1, <4>2
    <3>. QED
      BY <2>1, <3>1, <1>RequestsStay DEF LockInv
  <2>5. Calls'
    <3>1. ASSUME NEW c \in commits, NEW u \in Range(c.batch)
          PROVE  pc'[u] = "committing" /\ aborting'[u] = "no"
      <4>1. pc[u] = "committing" /\ aborting[u] = "no"
        BY <3>1 DEF LockInv, Calls
      <4>2. u \in Transaction
        <5>1. c.batch \in Seq(Transaction)
          BY SMTT(30) DEF LockInv, Typed
        <5>. QED
          BY <5>1, SMTT(30) DEF Range
      <4>. QED
        BY <4>1, <4>2 DEF SameAt
    <3>. QED
      BY <3>1 DEF LockInv, Calls
  <2>6. ASSUME NEW u \in Transaction \ {tx}
        PROVE  InCriticalSection(u)' <=> InCriticalSection(u)
    <3>1. Request(u) # Request(tx)
      BY SMTT(30) DEF Request
    <3>. QED
      BY <2>2, <3>1, <1>SectionStays
  <2>7. \A u \in Transaction : Owner(u)'
      BY <2>1, <2>6 DEF LockInv, Owner, SameAt
  <2>8. LockStolen => LockStolen'
    <3>1. \A u \in Transaction \ {tx} : AbortedInCall(u) => AbortedInCall(u)'
      BY DEF AbortedInCall, SameAt
    <3>. QED
      BY <3>1, StolenStays DEF SameAt
  <2>9. LockStolen' \/ Exclusive'
    <3>. SUFFICES ASSUME ~LockStolen' PROVE Exclusive'
      OBVIOUS
    <3>1. /\ InCriticalSection(tx)' => holder = tx
          /\ aborting'[tx] = "release" => holder = tx
          /\ tx \in lock.soft_released => pc'[tx] \in {"flush", "prepared", "committing"}
          /\ Exclusive
      BY <2>8 DEF LockInv
    <3>2. \A u \in Transaction : InCriticalSection(u)' => holder = u
      BY <2>6, <3>1 DEF Exclusive
    <3>3. \A u \in Transaction : aborting'[u] = "release" => holder = u
      BY <3>1 DEF Exclusive, SameAt
    <3>4. \A u \in lock.soft_released : pc'[u] \in {"flush", "prepared", "committing"}
      BY <3>1, <1>QueueTyped DEF Exclusive, SameAt, LockInv
    <3>. QED
      BY <2>1, <3>1, <3>2, <3>3, <3>4 DEF Exclusive
  <2>. QED
      BY <2>3, <2>4, <2>5, <2>7, <2>9 DEF LockInv
<1>CallsStay.
    ASSUME LockInv, commits' = commits,
           \A u \in Transaction : pc[u] = "committing" => pc'[u] = pc[u] /\ aborting'[u] = aborting[u]
    PROVE  Calls'
    BY <1>CallsStay, BatchTyped DEF LockInv, Calls

(* A handler that asks for the lock                                        *)
<1>HandlerAcquires.
    ASSUME LockInv, Typed', NEW tx \in Transaction, NEW channel \in {"get", "decide"},
           UNCHANGED <<scenario, commits, from, aborting, released_lock_early>>,
           \A u \in Transaction \ {tx} : SameAt(u),
           pc[tx] \in {"active", "acquire"}, pc'[tx] = channel, Local(tx)',
           AbortedInCall(tx) => AbortedInCall(tx)',
           Acquire([transaction |-> tx, channel |-> channel])
    PROVE  LockInv'
  <2>. USE <1>HandlerAcquires
  <2>. DEFINE q == [transaction |-> tx, channel |-> channel]
  <2>1. q \in LockRequest /\ q.transaction = tx /\ q = Request(tx)'
      BY RangeManagerAssumption, SMTT(30) DEF LockRequest, Request
  <2>2. /\ grantedAtOnce(lock, q) => /\ holder' = tx /\ queue' = queue /\ granted' = granted \cup {q}
        /\ ~grantedAtOnce(lock, q) =>
              /\ holder' = holder /\ queue' = Append(queue, q) /\ granted' = granted
        /\ lock'.soft_released = lock.soft_released
      BY <2>1, <1>AcquireLock DEF LockInv, Typed, Acquire, holder, queue
  <2>3. grantedAtOnce(lock, q) <=> holder \in {None, tx}
      BY <2>1 DEF grantedAtOnce, holder
  <2>4. \A p \in granted \cup Range(queue) : p.transaction # tx /\ p # q
      BY <2>1 DEF LockInv, Requests, Outstanding
  <2>5. \A u \in Transaction : Local(u)'
      BY <1>LocalStays DEF LockInv
  <2>6. Requests'
    <3>1. ASSUME NEW p \in granted \cup Range(queue) PROVE Outstanding(p)'
      <4>1. p.transaction \in Transaction \ {tx} /\ Outstanding(p)
        BY <2>4, <1>QueueTyped DEF LockInv, Requests
      <4>. QED
        BY <4>1 DEF Outstanding, Request, SameAt
    <3>2. Outstanding(q)'
      BY <2>1 DEF Outstanding, Request
    <3>3. CASE grantedAtOnce(lock, q)
      <4>1. /\ holder' = tx /\ queue' = queue /\ granted' = granted \cup {q}
            /\ tx # None
        BY <2>2, <3>3, NoneAssumption
      <4>2. granted' \cap Range(queue) = {}
        BY <2>4, <4>1 DEF LockInv, Requests
      <4>3. \A p \in granted' \cup Range(queue') : Outstanding(p)'
        BY <3>1, <3>2, <4>1
      <4>. QED
        BY <2>4, <4>1, <4>2, <4>3 DEF LockInv, Requests
    <3>4. CASE ~grantedAtOnce(lock, q)
      <4>1. /\ holder' = holder /\ queue' = Append(queue, q) /\ granted' = granted
            /\ holder # None /\ holder # tx
        BY <2>2, <2>3, <3>4
      <4>2. Range(queue') = Range(queue) \cup {q} /\ IsInjective(queue')
        <5>1. queue \in Seq(LockRequest) /\ q \notin Range(queue) /\ IsInjective(queue)
          BY <2>4, <1>QueueTyped DEF LockInv, Requests
        <5>2. q \in LockRequest
          BY <2>1
        <5>. HIDE DEF q
        <5>3. Range(Append(queue, q)) = Range(queue) \cup {q} /\ IsInjective(Append(queue, q))
          BY <5>1, <5>2, QueueAppend, SMTT(30)
        <5>. QED
          BY <4>1, <5>3
      <4>3. granted \cap (Range(queue) \cup {q}) = {}
        BY <2>4 DEF LockInv, Requests
      <4>4. \A p \in granted' \cup Range(queue') : Outstanding(p)'
        BY <3>1, <3>2, <4>1, <4>2
      <4>5. \A p \in Range(queue') : p.transaction # holder'
        BY <2>1, <4>1, <4>2 DEF LockInv, Requests
      <4>. QED
        BY <4>1, <4>2, <4>3, <4>4, <4>5 DEF Requests
    <3>. QED
      BY <3>3, <3>4
  <2>7. Calls'
      BY <1>CallsStay DEF SameAt
  <2>8. ASSUME NEW u \in Transaction \ {tx}
        PROVE  InCriticalSection(u)' <=> InCriticalSection(u)
    <3>1. Request(u) # q
      BY SMTT(30) DEF Request
    <3>2. Busy(u)' <=> Busy(u)
      BY DEF Busy
    <3>. QED
      BY <2>2, <3>1, <3>2, <1>SectionStays
  <2>9. \A u \in Transaction : Owner(u)'
    <3>1. ASSUME holder' = tx PROVE Owner(tx)'
      <4>1. q \in granted'
        BY <2>2, <2>3, <3>1
      <4>2. aborting'[tx] \in {"no", "release"} => InCriticalSection(tx)'
        BY <2>1, <4>1 DEF InCriticalSection
      <4>. QED
        BY <4>2 DEF Owner, LockInv, Typed
    <3>2. ASSUME NEW u \in Transaction \ {tx} PROVE Owner(u)'
      BY <2>2, <2>8 DEF LockInv, Owner, SameAt
    <3>. QED
      BY <3>1, <3>2 DEF Owner
  <2>10. LockStolen => LockStolen'
    <3>1. ASSUME NEW u \in Transaction \ {tx}
          PROVE  /\ AbortedInCall(u) => AbortedInCall(u)'
                 /\ released_lock_early[u] => released_lock_early'[u]
                 /\ pc[u] = "committed" => pc'[u] = "committed"
      BY DEF AbortedInCall, SameAt
    <3>. QED
      BY <3>1, StolenStays
  <2>11. LockStolen' \/ Exclusive'
    <3>. SUFFICES ASSUME ~LockStolen' PROVE Exclusive'
      OBVIOUS
    <3>1. Exclusive
      BY <2>10 DEF LockInv
    <3>2. \A u \in Transaction : holder = u => holder' = u
      BY <2>2, <2>3, NoneAssumption
    <3>3. ASSUME InCriticalSection(tx)' PROVE holder' = tx
      <4>1. CASE q \in granted'
        BY <2>2, <2>4, <4>1
      <4>2. CASE q \notin granted'
        <5>1. from[tx] # << >> /\ aborting[tx] \in {"no", "release"}
          BY <2>1, <3>3, <4>2 DEF InCriticalSection
        <5>2. InCriticalSection(tx)
          BY <5>1 DEF InCriticalSection, LockInv, Local, HasReads
        <5>. QED
          BY <3>1, <3>2, <5>2 DEF Exclusive
      <4>. QED
        BY <4>1, <4>2
    <3>4. \A u \in Transaction : InCriticalSection(u)' => holder' = u
      BY <2>8, <3>1, <3>2, <3>3 DEF Exclusive
    <3>5. \A u \in Transaction : aborting[u] = "release" => holder' = u
      BY <3>1, <3>2 DEF Exclusive
    <3>6. \A c \in commits : c.at = "release" => holder' \in Range(c.batch)
      BY <3>1, <3>2, BatchTyped DEF Exclusive, LockInv
    <3>7. \A u \in lock.soft_released : pc'[u] \in {"flush", "prepared", "committing"}
      BY <3>1, <1>QueueTyped DEF Exclusive, SameAt, LockInv
    <3>. QED
      BY <2>2, <3>4, <3>5, <3>6, <3>7 DEF Exclusive
  <2>. QED
      BY <2>5, <2>6, <2>7, <2>9, <2>11 DEF LockInv

(* A step that releases the lock.  It must be the holder's: S are the      *)
(* transactions that give it up.                                           *)
<1>LockGivenUp.
    ASSUME LockInv, Typed', NEW S \in SUBSET Transaction, NEW mark \in BOOLEAN,
           scenario' = scenario, Release(mark), Calls',
           \A u \in Transaction \ S : SameAt(u) /\ (Busy(u)' <=> Busy(u)),
           \A u \in S : /\ Local(u)'
                        /\ pc'[u] = pc[u] \/ pc[u] \notin {"get", "decide"}
                        /\ AbortedInCall(u) => AbortedInCall(u)'
                        /\ released_lock_early[u] => released_lock_early'[u]
                        /\ pc[u] = "committed" => pc'[u] = "committed",
           LockStolen' \/ LockStolen
              \/ /\ holder \in S
                 /\ \A u \in S : ~InCriticalSection(u)' /\ aborting'[u] # "release"
                 /\ \A u \in S : u \in lock.soft_released \/ (mark /\ u = holder) =>
                                    pc'[u] \in {"flush", "prepared", "committing"}
                 /\ \A c \in commits' : c.at # "release"
    PROVE  LockInv'
  <2>. USE <1>LockGivenUp
  <2>. DEFINE h == Head(queue)
  <2>1. /\ lock'.soft_released \subseteq lock.soft_released \cup (IF mark THEN {holder} ELSE {})
        /\ queue = << >> => holder' = None /\ queue' = << >> /\ granted' = granted
        /\ queue # << >> => /\ holder' = h.transaction /\ queue' = Tail(queue)
                            /\ granted' = granted \cup {h}
    <3>1. lock \in LockState /\ IsInjective(lock.waiting_to_acquire)
      BY DEF LockInv, Typed, Requests, queue
    <3>2. lock' = afterRelease(lock, mark) /\ granted' = granted \cup grantedByRelease(lock)
      BY DEF Release
    <3>3. lock'.soft_released \subseteq lock.soft_released \cup (IF mark THEN {holder} ELSE {})
      BY <3>1, <3>2, <1>ReleaseLock DEF holder
    <3>4. queue = << >> => holder' = None /\ queue' = << >> /\ granted' = granted
      BY <3>1, <3>2, <1>ReleaseLock DEF holder, queue
    <3>5. queue # << >> => /\ holder' = h.transaction /\ queue' = Tail(queue)
                           /\ granted' = granted \cup {h}
      BY <3>1, <3>2, <1>ReleaseLock DEF holder, queue
    <3>. QED
      BY <3>3, <3>4, <3>5
  <2>2. queue # << >> => /\ h \in Range(queue) /\ h.transaction \in Transaction
                         /\ Range(Tail(queue)) = Range(queue) \ {h} /\ IsInjective(Tail(queue))
    <3>1. queue \in Seq(LockRequest) /\ IsInjective(queue)
      BY <1>QueueTyped DEF LockInv, Requests
    <3>2. queue # << >> => h \in Range(queue)
             /\ Range(Tail(queue)) = Range(queue) \ {h} /\ IsInjective(Tail(queue))
      BY <3>1, <1>QueueTail
    <3>. QED
      BY <3>2, <1>QueueTyped DEF LockInv
  <2>3. \A u \in Transaction : Local(u)'
      BY <1>LocalStays DEF LockInv
  <2>4. \A q \in granted \cup Range(queue) :
           /\ Outstanding(q)' /\ q = Request(q.transaction)'
           /\ pc'[q.transaction] \in {"get", "decide"} /\ q.transaction \in Transaction
    <3>1. ASSUME NEW q \in granted \cup Range(queue)
          PROVE  /\ Outstanding(q)' /\ q = Request(q.transaction)'
                 /\ pc'[q.transaction] \in {"get", "decide"} /\ q.transaction \in Transaction
      <4>1. Outstanding(q) /\ q.transaction \in Transaction
        BY <1>QueueTyped DEF LockInv, Requests
      <4>2. pc'[q.transaction] = pc[q.transaction]
        BY <4>1 DEF Outstanding, SameAt
      <4>. QED
        BY <4>1, <4>2 DEF Outstanding, Request
    <3>. QED
      BY <3>1
  <2>5. Requests'
    <3>1. CASE queue = << >>
      <4>1. queue' = queue /\ granted' = granted /\ holder' = None
        BY <2>1, <3>1
      <4>2. \A q : q \notin Range(queue)
        <5>1. DOMAIN queue = {}
          BY <3>1, SMTT(30)
        <5>. QED
          BY <5>1 DEF Range
      <4>. QED
        BY <2>4, <3>1, <4>1, <4>2 DEF LockInv, Requests
    <3>2. CASE queue # << >>
      <4>1. queue' = Tail(queue) /\ granted' = granted \cup {h} /\ holder' = h.transaction
            /\ h \in Range(queue) /\ h.transaction \in Transaction
            /\ Range(queue') = Range(queue) \ {h} /\ IsInjective(queue')
        BY <2>1, <2>2, <3>2
      <4>2. holder' # None
        BY <4>1, NoneAssumption
      <4>3. \A q \in Range(queue') : q.transaction # h.transaction
        BY <4>1 DEF LockInv, Requests, Outstanding
      <4>4. granted' \cap Range(queue') = {}
        BY <4>1 DEF LockInv, Requests
      <4>5. \A q \in granted' \cup Range(queue') : Outstanding(q)'
        BY <2>4, <4>1
      <4>. QED
        BY <4>1, <4>2, <4>3, <4>4, <4>5 DEF Requests
    <3>. QED
      BY <3>1, <3>2
  <2>6. ASSUME NEW u \in Transaction, holder' = u PROVE Owner(u)'
    <3>1. queue # << >> /\ u = h.transaction /\ h \in granted' /\ h \in Range(queue)
      BY <2>1, <2>2, <2>6, NoneAssumption
    <3>2. h = Request(u)' /\ pc'[u] \in {"get", "decide"}
      BY <2>4, <3>1
    <3>3. aborting'[u] \in {"no", "release"} => InCriticalSection(u)'
      BY <3>1, <3>2 DEF InCriticalSection
    <3>. QED
      BY <3>2, <3>3 DEF Owner, Typed
  <2>7. \A u \in Transaction : Owner(u)'
      BY <2>6 DEF Owner
  <2>8. LockStolen => LockStolen'
    <3>1. \A u \in Transaction \ S : AbortedInCall(u) => AbortedInCall(u)'
      BY DEF AbortedInCall, SameAt
    <3>. QED
      BY <3>1, StolenStays DEF SameAt
  <2>9. LockStolen' \/ Exclusive'
    <3>. SUFFICES ASSUME ~LockStolen' PROVE Exclusive'
      OBVIOUS
    <3>1. /\ Exclusive /\ holder \in S
          /\ \A u \in S : ~InCriticalSection(u)' /\ aborting'[u] # "release"
          /\ \A u \in S : u \in lock.soft_released \/ (mark /\ u = holder) =>
                             pc'[u] \in {"flush", "prepared", "committing"}
          /\ \A c \in commits' : c.at # "release"
      BY <2>8 DEF LockInv
    <3>2. ASSUME NEW u \in Transaction, InCriticalSection(u)' PROVE holder' = u
      <4>1. u \notin S
        BY <3>1, <3>2
      <4>2. ~InCriticalSection(u)
        BY <3>1, <4>1 DEF Exclusive
      <4>3. Request(u) \in granted' \ granted
        <5>1. granted \subseteq granted'
          BY <2>1
        <5>. QED
          BY <3>2, <4>1, <4>2, <5>1, <1>SectionStays
      <4>4. queue # << >> /\ Request(u) = h
        BY <2>1, <4>3
      <4>5. Request(u).transaction = u
        BY SMTT(30) DEF Request
      <4>. QED
        BY <2>1, <4>4, <4>5
    <3>3. \A u \in Transaction : aborting'[u] = "release" => holder' = u
      BY <3>1 DEF Exclusive, SameAt
    <3>4. ASSUME NEW u \in lock'.soft_released PROVE pc'[u] \in {"flush", "prepared", "committing"}
      <4>1. u \in lock.soft_released \/ (mark /\ u = holder)
        BY <2>1
      <4>2. u \in Transaction
        BY <3>1, <4>1, <1>QueueTyped DEF LockInv
      <4>. QED
        BY <3>1, <4>1, <4>2 DEF Exclusive, SameAt
    <3>. QED
      BY <3>1, <3>2, <3>3, <3>4 DEF Exclusive
  <2>. QED
      BY <2>3, <2>5, <2>7, <2>9 DEF LockInv
<1>OneGivesUp.
    ASSUME LockInv, Typed', NEW tx \in Transaction, NEW mark \in BOOLEAN,
           scenario' = scenario, Release(mark), Calls', commits' = commits,
           \A u \in Transaction \ {tx} : SameAt(u),
           Local(tx)', pc'[tx] = pc[tx] \/ pc[tx] \notin {"get", "decide"},
           AbortedInCall(tx) => AbortedInCall(tx)',
           released_lock_early[tx] => released_lock_early'[tx],
           pc[tx] = "committed" => pc'[tx] = "committed",
           LockStolen' \/ LockStolen
              \/ /\ holder = tx
                 /\ ~InCriticalSection(tx)' /\ aborting'[tx] # "release"
                 /\ tx \in lock.soft_released \/ mark => pc'[tx] \in {"flush", "prepared", "committing"}
                 /\ \A c \in commits : c.at # "release"
    PROVE  LockInv'
  <2>. USE <1>OneGivesUp
  <2>. DEFINE S == {tx}
  <2>1. S \in SUBSET Transaction /\ tx \in S /\ \A u \in S : u = tx
      OBVIOUS
  <2>2. \A u \in Transaction \ S : SameAt(u) /\ (Busy(u)' <=> Busy(u))
      BY DEF Busy
  <2>3. \A u \in S : /\ Local(u)'
                     /\ pc'[u] = pc[u] \/ pc[u] \notin {"get", "decide"}
                     /\ AbortedInCall(u) => AbortedInCall(u)'
                     /\ released_lock_early[u] => released_lock_early'[u]
                     /\ pc[u] = "committed" => pc'[u] = "committed"
      OBVIOUS
  <2>4. LockStolen' \/ LockStolen
           \/ /\ holder \in S
              /\ \A u \in S : ~InCriticalSection(u)' /\ aborting'[u] # "release"
              /\ \A u \in S : u \in lock.soft_released \/ (mark /\ u = holder) =>
                                 pc'[u] \in {"flush", "prepared", "committing"}
              /\ \A c \in commits' : c.at # "release"
      BY <2>1
  <2>. HIDE DEF S
  <2>. QED
      BY <2>1, <2>2, <2>3, <2>4, <1>LockGivenUp

(* A commit call that goes on                                              *)
<1>AdvanceCalls.
    ASSUME LockInv, NEW c \in commits, NEW there \in CommitPlace, Advance(c, there),
           UNCHANGED <<pc, aborting>>
    PROVE  /\ Calls' /\ commits' \subseteq [batch : Seq(Transaction), at : CommitPlace]
           /\ \A u \in Transaction \ Range(c.batch) : Busy(u)' <=> Busy(u)
           /\ there # "clean" /\ c.at # "clean" => \A u \in Transaction : Busy(u)' <=> Busy(u)
           /\ there = "clean" => \A u \in Range(c.batch) : ~Busy(u)'
           /\ \A d \in commits' : \/ d \in commits /\ d # c
                                  \/ d.at = there /\ d.batch = c.batch
  <2>. USE <1>AdvanceCalls
  <2>. DEFINE c1 == [c EXCEPT !.at = there]
  <2>1. c1.batch = c.batch /\ c1.at = there /\ c1 \in [batch : Seq(Transaction), at : CommitPlace]
      BY SMTT(30) DEF LockInv, Typed
  <2>2. commits' = (commits \ {c}) \cup {c1}
      BY DEF Advance
  <2>. HIDE DEF c1
  <2>3. Calls'
    <3>1. ASSUME NEW d \in commits', NEW u \in Range(d.batch)
          PROVE  pc[u] = "committing" /\ aborting[u] = "no"
      BY <2>1, <2>2 DEF LockInv, Calls
    <3>2. ASSUME NEW d \in commits', NEW e \in commits', Range(d.batch) \cap Range(e.batch) # {}
          PROVE  d = e
      <4>1. CASE d = c1 \/ e = c1
        BY <2>1, <2>2, <3>2, <4>1 DEF LockInv, Calls
      <4>2. CASE d # c1 /\ e # c1
        BY <2>1, <2>2, <3>2, <4>2 DEF LockInv, Calls
      <4>. QED
        BY <4>1, <4>2
    <3>. QED
      BY <3>1, <3>2 DEF Calls
  <2>4. ASSUME NEW u \in Transaction \ Range(c.batch) PROVE Busy(u)' <=> Busy(u)
      BY <2>1, <2>2 DEF Busy
  <2>5. ASSUME there # "clean", c.at # "clean", NEW u \in Transaction PROVE Busy(u)' <=> Busy(u)
      BY <2>1, <2>2, <2>5 DEF Busy
  <2>6. ASSUME there = "clean", NEW u \in Range(c.batch) PROVE ~Busy(u)'
      BY <2>1, <2>2, <2>6 DEF Busy, LockInv, Calls
  <2>7. commits' \subseteq [batch : Seq(Transaction), at : CommitPlace]
      BY <2>1, <2>2 DEF LockInv, Typed
  <2>. QED
      BY <2>1, <2>2, <2>3, <2>4, <2>5, <2>6, <2>7
<1>CallAdvances.
    ASSUME LockInv, NEW c \in commits, NEW there \in CommitPlace, Advance(c, there),
           UNCHANGED <<scenario, lock, granted, handlerVars, aborting>>, c.at # "clean",
           there = "release" => holder \in Range(c.batch),
           there = "clean" => holder \notin Range(c.batch)
    PROVE  LockInv'
  <2>. USE <1>CallAdvances
  <2>1. UNCHANGED <<pc, key, from, early, released_lock_early>>
      BY DEF handlerVars
  <2>2. /\ Calls' /\ commits' \subseteq [batch : Seq(Transaction), at : CommitPlace]
        /\ \A u \in Transaction \ Range(c.batch) : Busy(u)' <=> Busy(u)
        /\ there # "clean" => \A u \in Transaction : Busy(u)' <=> Busy(u)
        /\ there = "clean" => \A u \in Range(c.batch) : ~Busy(u)'
        /\ \A d \in commits' : \/ d \in commits /\ d # c
                               \/ d.at = there /\ d.batch = c.batch
      BY <2>1, <1>AdvanceCalls
  <2>3. holder' = holder /\ queue' = queue /\ \A u \in Transaction : SameAt(u)
      BY <2>1 DEF holder, queue, SameAt
  <2>4. Typed' /\ \A u \in Transaction : Local(u)'
    <3>1. \A u \in Transaction : Local(u)'
      BY <2>3, <1>LocalStays DEF LockInv
    <3>. QED
      BY <2>1, <2>2, <3>1 DEF LockInv, Typed
  <2>5. Requests'
      BY <2>1, <2>3, <1>RequestsStay DEF LockInv
  <2>6. ASSUME NEW u \in Transaction
        PROVE  InCriticalSection(u)' => InCriticalSection(u)
    <3>1. CASE Busy(u)' <=> Busy(u)
      BY <2>3, <3>1, <1>SectionStays
    <3>2. CASE ~(Busy(u)' <=> Busy(u))
      <4>1. u \in Range(c.batch) /\ ~Busy(u)' /\ pc[u] = "committing"
        BY <2>2, <3>2 DEF LockInv, Calls
      <4>. QED
        BY <2>1, <4>1 DEF InCriticalSection, Busy
    <3>. QED
      BY <3>1, <3>2
  <2>7. ASSUME NEW u \in Transaction PROVE Owner(u)'
    <3>. SUFFICES ASSUME holder = u PROVE Owner(u)'
      BY <2>3 DEF Owner
    <3>1. Busy(u)' <=> Busy(u)
      BY <2>2
    <3>2. InCriticalSection(u)' <=> InCriticalSection(u)
      BY <2>3, <3>1, <1>SectionStays
    <3>. QED
      BY <2>1, <3>2 DEF LockInv, Owner
  <2>8. LockStolen <=> LockStolen'
      BY <2>1 DEF LockStolen, AbortedInCall
  <2>9. Exclusive => Exclusive'
      BY <2>1, <2>2, <2>3, <2>6 DEF Exclusive
  <2>. QED
      BY <2>2, <2>4, <2>5, <2>7, <2>8, <2>9 DEF LockInv

(* The steps of get *)
<1>GetLock.
    ASSUME LockInv, NEW tx \in Transaction, NEW k \in Key, get(tx, k)
    PROVE  LockInv'
  <2>. USE <1>GetLock
  <2>1. /\ pc[tx] = "active" /\ k \in Reads(tx)
        /\ pc' = [pc EXCEPT ![tx] = "get"] /\ key' = [key EXCEPT ![tx] = k]
        /\ Acquire([transaction |-> tx, channel |-> "get"])
        /\ UNCHANGED <<scenario, commits, from, early, aborting, released_lock_early>>
      BY DEF get, Goto
  <2>2. \A u \in Transaction \ {tx} : SameAt(u)
      BY <2>1 DEF SameAt, LockInv, Typed
  <2>3. pc'[tx] = "get" /\ key'[tx] = k
      BY <2>1 DEF LockInv, Typed
  <2>4. Local(tx)'
      BY <2>1, <2>3 DEF LockInv, Local, Reads, Changes, work
  <2>5. Typed'
    <3>1. [transaction |-> tx, channel |-> "get"] \in LockRequest
      BY RangeManagerAssumption, SMTT(30) DEF LockRequest
    <3>2. lock' \in LockState /\ granted' \subseteq LockRequest
      BY <2>1, <3>1, <1>AcquireLock DEF Acquire, LockInv, Typed
    <3>3. pc' \in [Transaction -> Place] /\ DOMAIN key' = Transaction
      BY <2>1 DEF LockInv, Typed, Place
    <3>. QED
      BY <2>1, <3>2, <3>3 DEF LockInv, Typed
  <2>. QED
      BY <2>1, <2>2, <2>3, <2>4, <2>5, <1>HandlerAcquires DEF AbortedInCall
<1>NoRequest.
    ASSUME LockInv, NEW tx \in Transaction, pc[tx] \notin {"get", "decide"}
    PROVE  Request(tx) \notin granted \cup Range(queue)
  <2>. USE <1>NoRequest
  <2>1. Request(tx).transaction = tx
      BY SMTT(30) DEF Request
  <2>. QED
      BY <2>1 DEF LockInv, Requests, Outstanding
<1>GetPendingLock.
    ASSUME LockInv, NEW tx \in Transaction, getPending(tx)
    PROVE  LockInv'
  <2>. USE <1>GetPendingLock
  <2>1. /\ pc[tx] = "get" /\ Request(tx) \in granted /\ granted' = granted \ {Request(tx)}
        /\ UNCHANGED <<scenario, lock, key, early, released_lock_early, aborting, commits>>
      BY DEF getPending
  <2>2. \/ pc' = [pc EXCEPT ![tx] = "getStorage"] /\ from' = from
        \/ \E writer : ReadFrom(tx, writer)
        \/ pc' = [pc EXCEPT ![tx] = "panicked"] /\ from' = from
      BY DEF getPending, Goto
  <2>3. /\ pc'[tx] \in {"getStorage", "active", "dropped", "panicked"}
        /\ pc'[tx] = "active" => from'[tx] # << >> /\ aborting[tx] = "no"
        /\ DOMAIN from'[tx] \subseteq DOMAIN from[tx] \cup {key[tx]}
        /\ from'[tx] = << >> \/ DOMAIN from'[tx] # {}
        /\ pc' \in [Transaction -> Place] /\ DOMAIN from' = Transaction
        /\ \A u \in Transaction \ {tx} : pc'[u] = pc[u] /\ from'[u] = from[u]
    <3>1. ASSUME NEW p \in {"getStorage", "panicked"}, pc' = [pc EXCEPT ![tx] = p], from' = from
          PROVE  /\ pc'[tx] = p /\ pc' \in [Transaction -> Place]
                 /\ \A u \in Transaction \ {tx} : pc'[u] = pc[u]
                 /\ from[tx] = << >> \/ DOMAIN from[tx] # {}
                 /\ DOMAIN from = Transaction
      BY <3>1 DEF LockInv, Typed, Place, Local
    <3>2. ASSUME NEW writer, ReadFrom(tx, writer)
          PROVE  /\ pc' = [pc EXCEPT ![tx] = pc'[tx]]
                 /\ pc'[tx] = IF aborting[tx] = "no" THEN "active" ELSE "dropped"
                 /\ DOMAIN from' = Transaction
                 /\ DOMAIN from'[tx] = DOMAIN from[tx] \cup {key[tx]} /\ from'[tx] # << >>
                 /\ \A u \in Transaction \ {tx} : from'[u] = from[u]
      BY <3>2, ReadKept
    <3>3. ASSUME NEW p \in {"active", "dropped"}, pc' = [pc EXCEPT ![tx] = p]
          PROVE  /\ pc' \in [Transaction -> Place]
                 /\ \A u \in Transaction \ {tx} : pc'[u] = pc[u]
      BY <3>3 DEF LockInv, Typed, Place
    <3>. QED
      BY <2>2, <3>1, <3>2, <3>3
  <2>4. ~released_lock_early[tx] /\ key[tx] \in Reads(tx)
      BY <2>1 DEF LockInv, Local, Typed
  <2>5. aborting[tx] \in {"no", "release"} => InCriticalSection(tx)
      BY <2>1 DEF InCriticalSection
  <2>6. Typed'
      BY <2>1, <2>3 DEF LockInv, Typed
  <2>7. \A u \in Transaction \ {tx} : SameAt(u)
      BY <2>1, <2>3 DEF SameAt
  <2>8. Local(tx)'
      BY <2>1, <2>3, <2>4 DEF LockInv, Local, Reads, Changes, work
  <2>9. Owner(tx)'
      BY <2>1, <2>3 DEF Owner, InCriticalSection, LockInv, Typed
  <2>10. LockStolen \/ /\ aborting[tx] \in {"no", "release"} => holder = tx
                       /\ tx \notin lock.soft_released
      BY <2>1, <2>5 DEF LockInv, Exclusive
  <2>11. Request(tx) \notin granted' \cup Range(queue)
      BY <2>1 DEF LockInv, Requests
  <2>12. InCriticalSection(tx)' => aborting[tx] \in {"no", "release"}
      BY <2>1 DEF InCriticalSection
  <2>. QED
      BY <2>1, <2>3, <2>4, <2>6, <2>7, <2>8, <2>9, <2>10, <2>11, <2>12, <1>HandlerMoves DEF AbortedInCall
<1>GetStorageLock.
    ASSUME LockInv, NEW tx \in Transaction, getStorage(tx)
    PROVE  LockInv'
  <2>. USE <1>GetStorageLock
  <2>1. /\ pc[tx] = "getStorage" /\ \E writer : ReadFrom(tx, writer)
        /\ UNCHANGED <<scenario, lock, granted, key, early, released_lock_early, aborting, commits>>
      BY DEF getStorage
  <2>2. /\ pc' = [pc EXCEPT ![tx] = pc'[tx]]
        /\ pc'[tx] = IF aborting[tx] = "no" THEN "active" ELSE "dropped"
        /\ DOMAIN from' = Transaction
        /\ DOMAIN from'[tx] = DOMAIN from[tx] \cup {key[tx]} /\ from'[tx] # << >>
        /\ \A u \in Transaction \ {tx} : from'[u] = from[u]
      BY <2>1, ReadKept
  <2>3. ~released_lock_early[tx] /\ key[tx] \in Reads(tx)
      BY <2>1 DEF LockInv, Local, Typed
  <2>4. aborting[tx] \in {"no", "release"} => InCriticalSection(tx)
      BY <2>1 DEF InCriticalSection
  <2>5. pc' \in [Transaction -> Place] /\ \A u \in Transaction \ {tx} : pc'[u] = pc[u]
    <3>1. pc'[tx] \in Place
      BY <2>2 DEF Place
    <3>. QED
      BY <2>2, <3>1 DEF LockInv, Typed
  <2>6. Typed'
      BY <2>1, <2>2, <2>5 DEF LockInv, Typed
  <2>7. \A u \in Transaction \ {tx} : SameAt(u)
      BY <2>1, <2>2, <2>5 DEF SameAt
  <2>8. Local(tx)'
      BY <2>1, <2>2, <2>3 DEF LockInv, Local, Reads, Changes, work
  <2>9. Owner(tx)'
      BY <2>1, <2>2 DEF Owner, InCriticalSection, LockInv, Typed
  <2>10. LockStolen \/ /\ aborting[tx] \in {"no", "release"} => holder = tx
                       /\ tx \notin lock.soft_released
      BY <2>1, <2>4 DEF LockInv, Exclusive
  <2>11. Request(tx) \notin granted' \cup Range(queue)
      BY <2>1, <1>NoRequest
  <2>12. InCriticalSection(tx)' => aborting[tx] \in {"no", "release"}
      BY <2>1 DEF InCriticalSection
  <2>. QED
      BY <2>1, <2>2, <2>3, <2>6, <2>7, <2>8, <2>9, <2>10, <2>11, <2>12, <1>HandlerMoves DEF AbortedInCall

(* The steps of prepare *)
<1>PrepareLock.
    ASSUME LockInv, NEW tx \in Transaction, prepare(tx)
    PROVE  LockInv'
  <2>. USE <1>PrepareLock
  <2>1. /\ pc[tx] = "active" /\ DOMAIN from[tx] = Reads(tx)
        /\ UNCHANGED <<scenario, lock, granted, key, from, early, released_lock_early, aborting, commits>>
      BY DEF prepare
  <2>2. ~released_lock_early[tx]
      BY <2>1 DEF LockInv, Local
  <2>3. \/ pc' = [pc EXCEPT ![tx] = "lockLost"] /\ holder # tx
        \/ /\ \E p \in {"releaseReadOnly", "acquire"} : pc' = [pc EXCEPT ![tx] = p]
           /\ HasReads(tx) => holder = tx
      BY DEF prepare, Goto, isCurrentlyHolding, holder
  <2>4. /\ pc'[tx] \in {"lockLost", "releaseReadOnly", "acquire"}
        /\ pc'[tx] = "lockLost" => holder # tx
        /\ pc'[tx] # "lockLost" => (HasReads(tx) => holder = tx)
        /\ pc' \in [Transaction -> Place]
        /\ \A u \in Transaction \ {tx} : pc'[u] = pc[u]
      BY <2>3 DEF LockInv, Typed, Place
  <2>5. Typed' /\ \A u \in Transaction \ {tx} : SameAt(u)
      BY <2>1, <2>4 DEF LockInv, Typed, SameAt
  <2>6. Local(tx)'
      BY <2>1, <2>2, <2>4 DEF LockInv, Local, Reads, Changes, work
  <2>7. HasReads(tx)' <=> HasReads(tx)
      BY <2>1 DEF HasReads, Reads, work
  <2>8. Owner(tx)'
    <3>. SUFFICES ASSUME holder = tx, aborting[tx] \in {"no", "release"} PROVE InCriticalSection(tx)'
      BY <2>1, <2>4 DEF Owner, holder, LockInv, Typed
    <3>1. HasReads(tx)
      BY <2>1 DEF LockInv, Owner, InCriticalSection, Local, HasReads
    <3>. QED
      BY <2>1, <2>4, <2>7, <3>1 DEF InCriticalSection
  <2>9. InCriticalSection(tx)' => holder = tx
      BY <2>1, <2>4, <2>7 DEF InCriticalSection
  <2>10. LockStolen \/ (tx \notin lock.soft_released /\ (aborting[tx] = "release" => holder = tx))
      BY <2>1 DEF LockInv, Exclusive
  <2>. QED
      BY <2>1, <2>2, <2>5, <2>6, <2>8, <2>9, <2>10, <1>NoRequest, <1>HandlerMoves DEF AbortedInCall
<1>PrepareAcquireLock.
    ASSUME LockInv, NEW tx \in Transaction, prepareAcquire(tx)
    PROVE  LockInv'
  <2>. USE <1>PrepareAcquireLock
  <2>1. /\ pc[tx] = "acquire" /\ pc' = [pc EXCEPT ![tx] = "decide"]
        /\ Acquire([transaction |-> tx, channel |-> "decide"])
        /\ UNCHANGED <<scenario, commits, key, from, early, aborting, released_lock_early>>
      BY DEF prepareAcquire, Goto
  <2>2. pc'[tx] = "decide" /\ \A u \in Transaction \ {tx} : SameAt(u)
      BY <2>1 DEF SameAt, LockInv, Typed
  <2>3. Local(tx)'
      BY <2>1, <2>2 DEF LockInv, Local, Reads, Changes, work, Preparing
  <2>4. Typed'
    <3>1. [transaction |-> tx, channel |-> "decide"] \in LockRequest
      BY RangeManagerAssumption, SMTT(30) DEF LockRequest
    <3>2. lock' \in LockState /\ granted' \subseteq LockRequest
      BY <2>1, <3>1, <1>AcquireLock DEF Acquire, LockInv, Typed
    <3>3. pc' \in [Transaction -> Place]
      BY <2>1 DEF LockInv, Typed, Place
    <3>. QED
      BY <2>1, <3>2, <3>3 DEF LockInv, Typed
  <2>. QED
      BY <2>1, <2>2, <2>3, <2>4, <1>HandlerAcquires DEF AbortedInCall

(* A transaction that goes from place to place in its critical section     *)
<1>SectionGoesOn.
    ASSUME LockInv, NEW tx \in Transaction, InCriticalSection(tx)' <=> InCriticalSection(tx),
           pc[tx] \in Preparing, pc'[tx] \in Preparing,
           UNCHANGED <<scenario, lock, key, from, released_lock_early, aborting, commits>>,
           pc' = [pc EXCEPT ![tx] = pc'[tx]],
           DOMAIN early' = Transaction, \A u \in Transaction \ {tx} : early'[u] = early[u],
           granted' \subseteq granted, granted \ granted' \subseteq {Request(tx)},
           pc'[tx] = pc[tx] \/ Request(tx) \notin granted' \cup Range(queue),
           Local(tx)',
           tx \in lock.soft_released => LockStolen \/ pc'[tx] \in {"flush", "prepared", "committing"}
    PROVE  LockInv'
  <2>. USE <1>SectionGoesOn
  <2>1. pc' \in [Transaction -> Place] /\ \A u \in Transaction \ {tx} : pc'[u] = pc[u]
    <3>1. pc \in [Transaction -> Place]
      BY DEF LockInv, Typed
    <3>2. pc'[tx] \in Place
      BY DEF Preparing, Place
    <3>. QED
      BY <3>1, <3>2
  <2>2. Typed' /\ \A u \in Transaction \ {tx} : SameAt(u)
      BY <2>1 DEF LockInv, Typed, SameAt
  <2>3. pc[tx] \notin {"committing", "committed"} /\ pc'[tx] # "active"
      BY DEF Preparing
  <2>4. Owner(tx)'
      BY <2>3 DEF LockInv, Owner, Preparing, holder
  <2>5. LockStolen \/ /\ InCriticalSection(tx)' => holder = tx
                      /\ aborting[tx] = "release" => holder = tx
      BY DEF LockInv, Exclusive, InCriticalSection
  <2>. QED
      BY <2>2, <2>3, <2>4, <2>5, <1>HandlerMoves DEF AbortedInCall
<1>DecisionIsBoolean.
    ASSUME NEW s, NEW h, NEW lt, NEW load, NEW clients
    PROVE  doEarlyLockRelease(s, h, lt, load, clients) \in BOOLEAN
  <2>. USE <1>DecisionIsBoolean
  <2>1. ASSUME NEW proxy, NEW mid, NEW high
        PROVE  thresholds(load, proxy, mid, high) = TRUE \/ thresholds(load, proxy, mid, high) = FALSE
      BY SMTT(30) DEF thresholds
  <2>2. \/ doEarlyLockRelease(s, h, lt, load, clients) = TRUE
        \/ doEarlyLockRelease(s, h, lt, load, clients) = FALSE
      BY <2>1, SMTT(30) DEF doEarlyLockRelease
  <2>. QED
      BY <2>2
<1>PrepareDecideLock.
    ASSUME LockInv, NEW tx \in Transaction, NEW k \in Key, prepareDecide(tx, k)
    PROVE  LockInv'
  <2>. USE <1>PrepareDecideLock
  <2>. DEFINE decision == doEarlyLockRelease(strategy, scenario.heuristic, lock,
                                             request[tx].load, request[tx].clients)
  <2>1. /\ pc[tx] = "decide" /\ k \in Changes(tx)
        /\ early' = [early EXCEPT ![tx] = Insert(early[tx], k, decision)]
        /\ UNCHANGED <<scenario, lock, granted, pc, key, from, released_lock_early, aborting, commits>>
      BY DEF prepareDecide
  <2>2. decision \in BOOLEAN
      BY <1>DecisionIsBoolean
  <2>. HIDE DEF decision
  <2>3. early'[tx] = Insert(early[tx], k, decision) /\ DOMAIN early' = Transaction
        /\ \A u \in Transaction \ {tx} : early'[u] = early[u]
      BY <2>1 DEF LockInv, Typed
  <2>4. DOMAIN early'[tx] \subseteq Changes(tx) /\ \A x \in DOMAIN early'[tx] : early'[tx][x] \in BOOLEAN
    <3>1. DOMAIN Insert(early[tx], k, decision) = DOMAIN early[tx] \cup {k}
      BY DEF Insert
    <3>2. ASSUME NEW x \in DOMAIN early[tx] \cup {k}
          PROVE  Insert(early[tx], k, decision)[x] = IF x = k THEN decision ELSE early[tx][x]
      BY DEF Insert
    <3>. QED
      BY <2>1, <2>2, <2>3, <3>1, <3>2, ZenonT(40) DEF LockInv, Local
  <2>5. Local(tx)'
      BY <2>1, <2>4 DEF LockInv, Local, Reads, Changes, work
  <2>6. InCriticalSection(tx)' <=> InCriticalSection(tx)
      BY <2>1 DEF InCriticalSection, Request
  <2>7. tx \in lock.soft_released => LockStolen
      BY <2>1 DEF LockInv, Exclusive
  <2>8. pc' = [pc EXCEPT ![tx] = pc'[tx]]
      BY <2>1 DEF LockInv, Typed
  <2>. QED
      BY <2>1, <2>3, <2>5, <2>6, <2>7, <2>8, <1>SectionGoesOn DEF Preparing
<1>PreparePublishLock.
    ASSUME LockInv, NEW tx \in Transaction, preparePublish(tx)
    PROVE  LockInv'
  <2>. USE <1>PreparePublishLock
  <2>1. /\ pc[tx] = "decide" /\ Request(tx) \in granted /\ DOMAIN early[tx] = Changes(tx)
        /\ pc' = [pc EXCEPT ![tx] = "append"] /\ granted' = granted \ {Request(tx)}
        /\ UNCHANGED <<scenario, lock, key, from, early, released_lock_early, aborting, commits>>
      BY DEF preparePublish, publish, Goto
  <2>2. pc'[tx] = "append"
      BY <2>1 DEF LockInv, Typed
  <2>3. Local(tx)'
      BY <2>1, <2>2 DEF LockInv, Local, Reads, Changes, work, Preparing
  <2>4. InCriticalSection(tx)' <=> InCriticalSection(tx)
      BY <2>1, <2>2 DEF InCriticalSection
  <2>5. tx \in lock.soft_released => LockStolen
      BY <2>1 DEF LockInv, Exclusive
  <2>6. Request(tx) \notin granted' \cup Range(queue)
      BY <2>1 DEF LockInv, Requests
  <2>7. DOMAIN early' = Transaction
      BY <2>1 DEF LockInv, Typed
  <2>. QED
      BY <2>1, <2>2, <2>3, <2>4, <2>5, <2>6, <2>7, <1>SectionGoesOn DEF Preparing
<1>PrepareAppendLock.
    ASSUME LockInv, NEW tx \in Transaction, prepareAppend(tx)
    PROVE  LockInv'
  <2>. USE <1>PrepareAppendLock
  <2>1. /\ pc[tx] = "append" /\ pc' = [pc EXCEPT ![tx] = "release"]
        /\ UNCHANGED <<scenario, lock, granted, key, from, early, released_lock_early, aborting, commits>>
      BY DEF prepareAppend, Goto
  <2>2. pc'[tx] = "release" /\ DOMAIN early' = Transaction
      BY <2>1 DEF LockInv, Typed
  <2>3. Local(tx)'
      BY <2>1, <2>2 DEF LockInv, Local, Reads, Changes, work, Preparing
  <2>4. InCriticalSection(tx)' <=> InCriticalSection(tx)
      BY <2>1, <2>2 DEF InCriticalSection
  <2>5. tx \in lock.soft_released => LockStolen
      BY <2>1 DEF LockInv, Exclusive
  <2>. QED
      BY <2>1, <2>2, <2>3, <2>4, <2>5, <1>NoRequest, <1>SectionGoesOn DEF Preparing
<1>PrepareFlushedLock.
    ASSUME LockInv, NEW tx \in Transaction, prepareFlushed(tx)
    PROVE  LockInv'
  <2>. USE <1>PrepareFlushedLock
  <2>1. /\ pc[tx] = "flush" /\ pc' = [pc EXCEPT ![tx] = "prepared"]
        /\ early' = [early EXCEPT ![tx] = << >>]
        /\ UNCHANGED <<scenario, lock, granted, key, from, released_lock_early, aborting, commits>>
      BY DEF prepareFlushed, Goto
  <2>2. pc'[tx] = "prepared" /\ DOMAIN early' = Transaction /\ early'[tx] = << >>
        /\ \A u \in Transaction \ {tx} : early'[u] = early[u]
      BY <2>1 DEF LockInv, Typed
  <2>3. DOMAIN << >> = {}
      BY SMTT(30)
  <2>4. Local(tx)'
      BY <2>1, <2>2, <2>3 DEF LockInv, Local, Reads, Changes, work, Preparing
  <2>5. InCriticalSection(tx)' <=> InCriticalSection(tx)
      BY <2>1, <2>2 DEF InCriticalSection
  <2>. QED
      BY <2>1, <2>2, <2>4, <2>5, <1>NoRequest, <1>SectionGoesOn DEF Preparing
<1>ReleaseTyped.
    ASSUME LockInv, NEW mark \in BOOLEAN, Release(mark)
    PROVE  lock' \in LockState /\ granted' \subseteq LockRequest
  <2>. USE <1>ReleaseTyped
  <2>1. lock \in LockState /\ IsInjective(lock.waiting_to_acquire)
      BY DEF LockInv, Typed, Requests, queue
  <2>2. lock' \in LockState
      BY <2>1, <1>ReleaseLock DEF Release
  <2>3. grantedByRelease(lock) \subseteq LockRequest
      BY <2>1, <1>ReleaseLock
  <2>. QED
      BY <2>2, <2>3 DEF Release, LockInv, Typed
<1>PrepareReadOnlyLock.
    ASSUME LockInv, NEW tx \in Transaction, prepareReadOnly(tx)
    PROVE  LockInv'
  <2>. USE <1>PrepareReadOnlyLock
  <2>1. /\ pc[tx] = "releaseReadOnly" /\ pc' = [pc EXCEPT ![tx] = "committed"]
        /\ UNCHANGED <<scenario, key, from, early, released_lock_early, aborting, commits>>
      BY DEF prepareReadOnly, Goto
  <2>2. pc'[tx] = "committed" /\ pc' \in [Transaction -> Place]
        /\ \A u \in Transaction \ {tx} : SameAt(u)
      BY <2>1 DEF LockInv, Typed, Place, SameAt
  <2>3. ~released_lock_early[tx] /\ (aborting[tx] # "no" => LockStolen')
      BY <2>1, <2>2 DEF LockInv, Typed, Local, LockStolen, AbortedInCall
  <2>4. Local(tx)'
      BY <2>1, <2>2, <2>3 DEF LockInv, Local, Reads, Changes, work
  <2>5. ~InCriticalSection(tx)'
      BY <2>2 DEF InCriticalSection
  <2>6. LockStolen \/ tx \notin lock.soft_released
      BY <2>1 DEF LockInv, Exclusive
  <2>7. CASE HasReads(tx)
    <3>1. Release(FALSE)
      BY <2>7 DEF prepareReadOnly
    <3>2. Typed'
      BY <2>1, <2>2, <3>1, <1>ReleaseTyped DEF LockInv, Typed
    <3>3. Calls'
      BY <2>1, <2>2, <1>CallsStay DEF SameAt
    <3>5. aborting[tx] = "no" => InCriticalSection(tx)
      BY <2>1, <2>7 DEF InCriticalSection
    <3>6. LockStolen' \/ LockStolen
          \/ (holder = tx /\ aborting[tx] = "no" /\ \A c \in commits : c.at # "release")
      BY <2>1, <2>3, <3>5 DEF LockInv, Exclusive, Calls
    <3>. QED
      BY <2>1, <2>2, <2>3, <2>4, <2>5, <2>6, <3>1, <3>2, <3>3, <3>6, <1>OneGivesUp
         DEF AbortedInCall
  <2>8. CASE ~HasReads(tx)
    <3>1. UNCHANGED <<lock, granted>>
      BY <2>8 DEF prepareReadOnly
    <3>2. Typed'
      BY <2>1, <2>2, <3>1 DEF LockInv, Typed
    <3>3. holder = tx => aborting[tx] = "done"
      BY <2>1, <2>8 DEF LockInv, Owner, InCriticalSection
    <3>4. Owner(tx)'
      BY <2>1, <2>2, <3>1, <3>3 DEF Owner, holder
    <3>. QED
      BY <2>1, <2>2, <2>3, <2>4, <2>5, <2>6, <3>1, <3>2, <3>4, <1>NoRequest, <1>HandlerMoves
         DEF AbortedInCall
  <2>. QED
      BY <2>7, <2>8
<1>PrepareReleaseLock.
    ASSUME LockInv, NEW tx \in Transaction, prepareRelease(tx)
    PROVE  LockInv'
  <2>. USE <1>PrepareReleaseLock
  <2>1. /\ pc[tx] = "release" /\ pc' = [pc EXCEPT ![tx] = "flush"]
        /\ UNCHANGED <<scenario, key, from, early, aborting, commits>>
      BY DEF prepareRelease, Goto
  <2>2. PICK first \in Changes(tx) :
           /\ released_lock_early' = [released_lock_early EXCEPT ![tx] = early[tx][first]]
           /\ IF early[tx][first] THEN Release(TRUE) ELSE UNCHANGED <<lock, granted>>
      BY DEF prepareRelease
  <2>3. early[tx][first] \in BOOLEAN /\ ~released_lock_early[tx]
      BY <2>1 DEF LockInv, Local
  <2>4. /\ pc'[tx] = "flush" /\ released_lock_early'[tx] = early[tx][first]
        /\ pc' \in [Transaction -> Place] /\ released_lock_early' \in [Transaction -> BOOLEAN]
        /\ \A u \in Transaction \ {tx} : SameAt(u)
      BY <2>1, <2>2, <2>3 DEF LockInv, Typed, Place, SameAt
  <2>5. Local(tx)'
      BY <2>1, <2>4 DEF LockInv, Local, Reads, Changes, work, Preparing
  <2>6. CASE early[tx][first] = TRUE
    <3>1. Release(TRUE)
      BY <2>2, <2>6
    <3>2. Typed'
      BY <2>1, <2>4, <3>1, <1>ReleaseTyped DEF LockInv, Typed
    <3>3. Calls'
      BY <2>1, <2>4, <1>CallsStay DEF SameAt
    <3>5. ~InCriticalSection(tx)'
      BY <2>4, <2>6 DEF InCriticalSection
    <3>6. aborting[tx] = "no" => LockStolen \/ (holder = tx /\ \A c \in commits : c.at # "release")
      BY <2>1 DEF LockInv, Exclusive, Calls, InCriticalSection
    <3>7. aborting[tx] # "no" => LockStolen'
      BY <2>1, <2>4, <2>6 DEF LockStolen, AbortedInCall
    <3>. QED
      BY <2>1, <2>3, <2>4, <2>5, <3>1, <3>2, <3>3, <3>5, <3>6, <3>7, <1>OneGivesUp
         DEF AbortedInCall
  <2>7. CASE early[tx][first] = FALSE
    <3>1. UNCHANGED <<lock, granted>>
      BY <2>2, <2>7
    <3>2. released_lock_early' = released_lock_early
      BY <2>2, <2>3, <2>7 DEF LockInv, Typed
    <3>3. InCriticalSection(tx)' <=> InCriticalSection(tx)
      BY <2>1, <2>3, <2>4, <3>2 DEF InCriticalSection
    <3>4. DOMAIN early' = Transaction
      BY <2>1 DEF LockInv, Typed
    <3>. QED
      BY <2>1, <2>4, <2>5, <3>1, <3>2, <3>3, <3>4, <1>NoRequest, <1>SectionGoesOn DEF Preparing
  <2>. QED
      BY <2>3, <2>6, <2>7

(* The steps of abort *)
<1>AbortLock.
    ASSUME LockInv, NEW tx \in Transaction, abort(tx)
    PROVE  LockInv'
  <2>. USE <1>AbortLock
  <2>1. /\ aborting[tx] = "no" /\ pc[tx] \in Serving \cup {"active"}
        /\ aborting' = [aborting EXCEPT ![tx] = IF holder = tx THEN "release" ELSE "done"]
        /\ UNCHANGED <<scenario, lock, granted, commits, pc, key, from, early, released_lock_early>>
      BY DEF abort, handlerVars, isCurrentlyHolding, holder
  <2>2. /\ aborting'[tx] = IF holder = tx THEN "release" ELSE "done"
        /\ aborting' \in [Transaction -> {"no", "release", "done"}]
        /\ \A u \in Transaction \ {tx} : SameAt(u)
      BY <2>1 DEF LockInv, Typed, SameAt
  <2>3. Typed'
      BY <2>1, <2>2 DEF LockInv, Typed
  <2>4. Local(tx)'
    <3>1. pc[tx] # "committing"
      BY <2>1 DEF Serving
    <3>. QED
      BY <2>1, <3>1 DEF LockInv, Local, Reads, Changes, work
  <2>5. Owner(tx)'
    <3>. SUFFICES ASSUME holder = tx PROVE InCriticalSection(tx)'
      BY <2>1 DEF Owner, holder
    <3>1. InCriticalSection(tx)
      BY <2>1 DEF LockInv, Owner, Serving
    <3>2. aborting'[tx] = "release" /\ Request(tx)' = Request(tx) /\ (HasReads(tx)' <=> HasReads(tx))
      BY <2>1, <2>2 DEF Request, HasReads, Reads, work
    <3>. QED
      BY <2>1, <3>1, <3>2 DEF InCriticalSection
  <2>6. /\ InCriticalSection(tx)' => holder = tx
        /\ aborting'[tx] = "release" => holder = tx
      BY <2>2 DEF InCriticalSection
  <2>7. LockStolen \/ (tx \in lock.soft_released => pc[tx] \in {"flush", "prepared", "committing"})
      BY DEF LockInv, Exclusive
  <2>8. pc[tx] # "committing"
      BY <2>1 DEF Serving
  <2>. QED
      BY <2>1, <2>2, <2>3, <2>4, <2>5, <2>6, <2>7, <2>8, <1>HandlerMoves DEF AbortedInCall
<1>AbortReleaseLock.
    ASSUME LockInv, NEW tx \in Transaction, abortRelease(tx)
    PROVE  LockInv'
  <2>. USE <1>AbortReleaseLock
  <2>1. /\ aborting[tx] = "release" /\ Release(FALSE) /\ aborting' = [aborting EXCEPT ![tx] = "done"]
        /\ UNCHANGED <<scenario, commits, pc, key, from, early, released_lock_early>>
      BY DEF abortRelease, handlerVars
  <2>2. /\ aborting'[tx] = "done" /\ aborting' \in [Transaction -> {"no", "release", "done"}]
        /\ \A u \in Transaction \ {tx} : SameAt(u)
      BY <2>1 DEF LockInv, Typed, SameAt
  <2>3. Typed'
      BY <2>1, <2>2, <1>ReleaseTyped DEF LockInv, Typed
  <2>4. Local(tx)'
      BY <2>1 DEF LockInv, Local, Reads, Changes, work
  <2>5. Calls'
    <3>1. pc[tx] # "committing"
      BY <2>1 DEF LockInv, Local
    <3>. QED
      BY <2>1, <2>2, <3>1, <1>CallsStay DEF SameAt
  <2>7. ~InCriticalSection(tx)'
      BY <2>2 DEF InCriticalSection
  <2>8. LockStolen
        \/ /\ holder = tx
           /\ \A c \in commits : c.at # "release"
           /\ tx \in lock.soft_released => pc[tx] \in {"flush", "prepared", "committing"}
      BY <2>1 DEF LockInv, Exclusive, Calls
  <2>9. AbortedInCall(tx) => AbortedInCall(tx)'
      BY <2>1, <2>2 DEF AbortedInCall
  <2>. QED
      BY <2>1, <2>2, <2>3, <2>4, <2>5, <2>7, <2>8, <2>9, <1>OneGivesUp
<1>CommitLock.
    ASSUME LockInv, NEW batch \in Batches, commit(batch)
    PROVE  LockInv'
  <2>. USE <1>CommitLock
  <2>. DEFINE c == [batch |-> batch, at |-> "collect"]
              B == Range(batch)
  <2>1. /\ commits' = commits \cup {c}
        /\ pc' = [tx \in Transaction |-> IF tx \in B THEN "committing" ELSE pc[tx]]
        /\ UNCHANGED <<scenario, lock, granted, key, from, early, released_lock_early, aborting>>
      BY DEF commit
  <2>2. batch \in Seq(Transaction) /\ DOMAIN batch = 1..Len(batch)
      BY BatchesAreSequences, SMTT(30)
  <2>3. B \subseteq Transaction
      BY <2>2, SMTT(30) DEF Range
  <2>4. \A u \in B : pc[u] = "prepared" /\ aborting[u] = "no"
      BY <2>2 DEF commit, MayCommit, Range
  <2>5. c.batch = batch /\ c.at = "collect" /\ c \in [batch : Seq(Transaction), at : CommitPlace]
      BY <2>2, SMTT(30) DEF CommitPlace
  <2>. HIDE DEF c
  <2>6. /\ pc' \in [Transaction -> Place]
        /\ \A u \in B : pc'[u] = "committing"
        /\ \A u \in Transaction \ B : pc'[u] = pc[u] /\ SameAt(u)
      BY <2>1, <2>3 DEF LockInv, Typed, Place, SameAt
  <2>. HIDE DEF B
  <2>7. Typed'
      BY <2>1, <2>5, <2>6 DEF LockInv, Typed
  <2>8. holder' = holder /\ queue' = queue
      BY <2>1 DEF holder, queue
  <2>9. Requests'
    <3>1. ASSUME NEW u \in B, NEW q \in granted \cup Range(queue) PROVE q.transaction # u
      BY <2>4 DEF LockInv, Requests, Outstanding
    <3>. QED
      BY <2>1, <2>6, <2>8, <3>1, <1>RequestsStay DEF LockInv
  <2>10. Calls'
    <3>1. \A d \in commits : Range(d.batch) \cap B = {}
      BY <2>4 DEF LockInv, Calls
    <3>2. \A d \in commits : \A u \in Range(d.batch) : u \in Transaction \ B
      BY <3>1, BatchTyped DEF LockInv
    <3>3. ASSUME NEW d \in commits', NEW u \in Range(d.batch)
          PROVE  pc'[u] = "committing" /\ aborting[u] = "no"
      <4>1. CASE d = c
        BY <2>4, <2>5, <2>6, <4>1 DEF B
      <4>2. CASE d \in commits
        BY <2>6, <3>2, <4>2 DEF LockInv, Calls
      <4>. QED
        BY <2>1, <4>1, <4>2
    <3>4. ASSUME NEW d \in commits', NEW e \in commits', Range(d.batch) \cap Range(e.batch) # {}
          PROVE  d = e
      BY <2>1, <2>5, <3>1, <3>4 DEF LockInv, Calls, B
    <3>. QED
      BY <2>1, <3>3, <3>4 DEF Calls
  <2>11. ASSUME NEW u \in Transaction PROVE Local(u)'
    <3>1. CASE u \in B
      BY <2>1, <2>4, <2>6, <3>1 DEF LockInv, Local, Reads, Changes, work
    <3>2. CASE u \notin B
      BY <2>1, <2>6, <3>2, <1>LocalStays DEF LockInv
    <3>. QED
      BY <3>1, <3>2
  <2>12. ASSUME NEW u \in Transaction PROVE InCriticalSection(u)' <=> InCriticalSection(u)
    <3>1. CASE u \in B
      <4>1. c \in commits' /\ u \in Range(c.batch) /\ c.at # "clean"
        BY <2>1, <2>5, <3>1 DEF B
      <4>2. InCriticalSection(u) <=> ~released_lock_early[u]
        BY <2>4, <3>1 DEF InCriticalSection
      <4>3. InCriticalSection(u)' <=> ~released_lock_early[u]
        BY <2>1, <2>4, <2>6, <3>1, <4>1 DEF InCriticalSection
      <4>. QED
        BY <4>2, <4>3
    <3>2. CASE u \notin B
      <4>1. Busy(u)' <=> Busy(u)
        BY <2>1, <2>5, <3>2 DEF Busy, B
      <4>. QED
        BY <2>1, <2>6, <3>2, <4>1, <1>SectionStays
    <3>. QED
      BY <3>1, <3>2
  <2>13. ASSUME NEW u \in Transaction PROVE Owner(u)'
      BY <2>1, <2>4, <2>6, <2>8, <2>12 DEF LockInv, Owner
  <2>14. LockStolen => LockStolen'
      BY <2>1, <2>4, <2>6 DEF LockStolen, AbortedInCall
  <2>15. Exclusive => Exclusive'
    <3>. SUFFICES ASSUME Exclusive PROVE Exclusive'
      OBVIOUS
    <3>1. \A u \in lock.soft_released : pc'[u] \in {"flush", "prepared", "committing"}
      BY <2>6, <1>QueueTyped DEF Exclusive, LockInv
    <3>2. \A d \in commits' : d.at = "release" => holder \in Range(d.batch)
      BY <2>1, <2>5 DEF Exclusive
    <3>. QED
      BY <2>1, <2>8, <2>12, <3>1, <3>2 DEF Exclusive
  <2>. QED
      BY <2>7, <2>9, <2>10, <2>11, <2>13, <2>14, <2>15 DEF LockInv
<1>CommitStepLock.
    ASSUME LockInv, NEW c \in commits,
           commitCollect(c) \/ commitUpsert(c) \/ commitBuffer(c) \/ commitRetire(c)
              \/ commitCheckHolder(c)
    PROVE  LockInv'
  <2>. USE <1>CommitStepLock
  <2>1. UNCHANGED <<scenario, lock, granted, handlerVars, aborting>> /\ c.at # "clean"
      BY DEF commitCollect, commitUpsert, commitBuffer, commitRetire, commitCheckHolder
  <2>2. CASE commitCheckHolder(c)
    <3>1. \/ Advance(c, "release") /\ holder \in Range(c.batch)
          \/ Advance(c, "clean") /\ holder \notin Range(c.batch)
      BY <2>2 DEF commitCheckHolder, isCurrentlyHolding, holder
    <3>. QED
      BY <2>1, <3>1, <1>CallAdvances DEF CommitPlace
  <2>3. CASE commitCollect(c) \/ commitUpsert(c) \/ commitBuffer(c) \/ commitRetire(c)
    <3>1. \E there \in {"upsert", "panicked", "failed", "buffer", "retire", "holder"} : Advance(c, there)
      BY <2>3 DEF commitCollect, commitUpsert, commitBuffer, commitRetire
    <3>2. \A there \in {"upsert", "panicked", "failed", "buffer", "retire", "holder"} :
             there \in CommitPlace /\ there # "release" /\ there # "clean"
      BY DEF CommitPlace
    <3>. QED
      BY <2>1, <3>1, <3>2, <1>CallAdvances
  <2>. QED
      BY <2>2, <2>3
<1>CommitReleaseLock.
    ASSUME LockInv, NEW c \in commits, commitRelease(c)
    PROVE  LockInv'
  <2>. USE <1>CommitReleaseLock
  <2>1. /\ c.at = "release" /\ Release(FALSE) /\ Advance(c, "clean")
        /\ UNCHANGED <<scenario, pc, key, from, early, released_lock_early, aborting>>
      BY DEF commitRelease, handlerVars
  <2>. DEFINE S == Range(c.batch)
  <2>2. S \in SUBSET Transaction
      BY BatchTyped DEF LockInv
  <2>3. /\ Calls' /\ commits' \subseteq [batch : Seq(Transaction), at : CommitPlace]
        /\ \A u \in Transaction \ S : Busy(u)' <=> Busy(u)
        /\ \A u \in S : ~Busy(u)'
        /\ \A d \in commits' : (d \in commits /\ d # c) \/ d.at = "clean"
      BY <2>1, <1>AdvanceCalls DEF CommitPlace
  <2>4. Typed'
      BY <2>1, <2>3, <1>ReleaseTyped DEF LockInv, Typed
  <2>5. \A u \in Transaction : SameAt(u) /\ Local(u)'
    <3>1. \A u \in Transaction : SameAt(u)
      BY <2>1 DEF SameAt
    <3>. QED
      BY <2>1, <3>1, <1>LocalStays DEF LockInv
  <2>6. \A u \in S : pc[u] = "committing" /\ aborting[u] = "no"
      BY DEF LockInv, Calls
  <2>7. \A u \in S : ~InCriticalSection(u)'
      BY <2>1, <2>3, <2>6 DEF InCriticalSection, Busy
  <2>8. Exclusive => holder \in S /\ \A d \in commits' : d.at # "release"
      BY <2>1, <2>3 DEF Exclusive, LockInv, Calls
  <2>. HIDE DEF S
  <2>9. LockStolen \/ /\ holder \in S
                      /\ \A u \in S : ~InCriticalSection(u)' /\ aborting'[u] # "release"
                      /\ \A u \in S : u \in lock.soft_released \/ (FALSE /\ u = holder) =>
                                         pc'[u] \in {"flush", "prepared", "committing"}
                      /\ \A d \in commits' : d.at # "release"
      BY <2>1, <2>6, <2>7, <2>8 DEF LockInv
  <2>10. \A u \in S : /\ Local(u)'
                      /\ pc'[u] = pc[u] \/ pc[u] \notin {"get", "decide"}
                      /\ AbortedInCall(u) => AbortedInCall(u)'
                      /\ released_lock_early[u] => released_lock_early'[u]
                      /\ pc[u] = "committed" => pc'[u] = "committed"
      BY <2>1, <2>2, <2>5 DEF AbortedInCall
  <2>. QED
      BY <2>1, <2>2, <2>3, <2>4, <2>5, <2>9, <2>10, <1>LockGivenUp
<1>CommitCleanLock.
    ASSUME LockInv, NEW c \in commits, commitClean(c)
    PROVE  LockInv'
  <2>. USE <1>CommitCleanLock
  <2>. DEFINE B == Range(c.batch)
  <2>1. /\ c.at = "clean" /\ lock' = [lock EXCEPT !.soft_released = @ \ B]
        /\ commits' = commits \ {c}
        /\ pc' = [tx \in Transaction |-> IF tx \in B THEN "committed" ELSE pc[tx]]
        /\ UNCHANGED <<scenario, granted, key, from, early, released_lock_early, aborting>>
      BY DEF commitClean, afterCleanSoftReleased
  <2>2. B \subseteq Transaction
      BY BatchTyped DEF LockInv
  <2>3. \A u \in B : pc[u] = "committing" /\ aborting[u] = "no" /\ ~Busy(u)
      BY <2>1 DEF LockInv, Calls, Busy
  <2>4. /\ pc' \in [Transaction -> Place]
        /\ \A u \in B : pc'[u] = "committed"
        /\ \A u \in Transaction \ B : pc'[u] = pc[u] /\ SameAt(u)
      BY <2>1, <2>2 DEF LockInv, Typed, Place, SameAt
  <2>5. /\ lock' \in LockState /\ holder' = holder /\ queue' = queue
        /\ lock'.soft_released = lock.soft_released \ B
    <3>1. lock \in LockState
      BY DEF LockInv, Typed
    <3>. HIDE DEF B
    <3>. QED
      BY <2>1, <3>1, SMTT(30) DEF LockState, holder, queue
  <2>6. Typed'
      BY <2>1, <2>4, <2>5 DEF LockInv, Typed
  <2>7. holder \notin B
      BY <2>2, <2>3 DEF LockInv, Owner, InCriticalSection, Busy
  <2>8. Requests'
    <3>1. ASSUME NEW u \in B, NEW q \in granted \cup Range(queue) PROVE q.transaction # u
      BY <2>3 DEF LockInv, Requests, Outstanding
    <3>. QED
      BY <2>1, <2>4, <2>5, <3>1, <1>RequestsStay DEF LockInv
  <2>9. Calls'
    <3>1. \A d \in commits' : Range(d.batch) \cap B = {}
      BY <2>1 DEF LockInv, Calls
    <3>2. \A d \in commits' : \A u \in Range(d.batch) : u \in Transaction \ B
      BY <2>1, <3>1, BatchTyped DEF LockInv
    <3>. HIDE DEF B
    <3>. QED
      BY <2>1, <2>4, <3>2 DEF LockInv, Calls
  <2>10. ASSUME NEW u \in Transaction PROVE Local(u)'
    <3>1. CASE u \in B
      BY <2>1, <2>3, <2>4, <3>1 DEF LockInv, Local, Reads, Changes, work
    <3>2. CASE u \notin B
      BY <2>1, <2>4, <3>2, <1>LocalStays DEF LockInv
    <3>. QED
      BY <3>1, <3>2
  <2>11. ASSUME NEW u \in Transaction \ B PROVE InCriticalSection(u)' <=> InCriticalSection(u)
    <3>1. Busy(u)' <=> Busy(u)
      BY <2>1 DEF Busy
    <3>. QED
      BY <2>1, <2>4, <3>1, <1>SectionStays
  <2>12. ASSUME NEW u \in B PROVE ~InCriticalSection(u)'
      BY <2>4 DEF InCriticalSection
  <2>. HIDE DEF B
  <2>13. ASSUME NEW u \in Transaction PROVE Owner(u)'
      BY <2>1, <2>4, <2>5, <2>7, <2>11 DEF LockInv, Owner
  <2>14. LockStolen => LockStolen'
      BY <2>1, <2>3, <2>4 DEF LockStolen, AbortedInCall
  <2>15. Exclusive => Exclusive'
    <3>. SUFFICES ASSUME Exclusive PROVE Exclusive'
      OBVIOUS
    <3>1. \A u \in lock'.soft_released : pc'[u] \in {"flush", "prepared", "committing"}
      BY <2>4, <2>5, <1>QueueTyped DEF Exclusive, LockInv
    <3>2. \A u \in Transaction : InCriticalSection(u)' => holder = u
      BY <2>11, <2>12 DEF Exclusive
    <3>. QED
      BY <2>1, <2>5, <3>1, <3>2 DEF Exclusive
  <2>. QED
      BY <2>6, <2>8, <2>9, <2>10, <2>13, <2>14, <2>15 DEF LockInv

<1>. SUFFICES ASSUME LockInv, [Next]_vars PROVE LockInv'
    OBVIOUS
<1>1. CASE \E tx \in Transaction :
              callGet(tx) \/ getStep(tx) \/ prepare(tx) \/ prepareStep(tx)
                 \/ abort(tx) \/ abortRelease(tx)
    BY <1>1, <1>GetLock, <1>GetPendingLock, <1>GetStorageLock, <1>PrepareLock, <1>PrepareReadOnlyLock,
       <1>PrepareAcquireLock, <1>PrepareDecideLock, <1>PreparePublishLock, <1>PrepareAppendLock,
       <1>PrepareReleaseLock, <1>PrepareFlushedLock, <1>AbortLock, <1>AbortReleaseLock
       DEF callGet, getStep, prepareStep
<1>2. CASE callCommit
    BY <1>2, <1>CommitLock DEF callCommit
<1>3. CASE commitStep
    BY <1>3, <1>CommitStepLock, <1>CommitReleaseLock, <1>CommitCleanLock DEF commitStep
<1>4. CASE UNCHANGED vars
  <2>1. UNCHANGED <<scenario, lock, granted, commits, pc, key, from, early, released_lock_early, aborting>>
    BY <1>4 DEF vars, handlerVars
  <2>. QED
    BY <2>1, ZenonT(40) DEF LockInv, Typed, Requests, Outstanding, Calls, Local, Owner, Exclusive, LockStolen,
       InCriticalSection, AbortedInCall, Request, HasReads, Reads, Changes, work, holder, queue
<1>. QED
    BY <1>1, <1>2, <1>3, <1>4 DEF Next, Idle

LEMMA LockInvHolds == Spec => []LockInv
BY InitLock, NextLock, PTL DEF Spec

(* Two-phase locking: from the grant of the lock until it is given up, a   *)
(* transaction is the holder, whatever the handlers of the other           *)
(* transactions do.                                                        *)
THEOREM HoldsLockHolds == Spec => []HoldsLock
<1>1. LockInv => HoldsLock
    BY DEF LockInv, Exclusive, HoldsLock, holder
<1>. QED
    BY <1>1, LockInvHolds, PTL

---------------------------------------------------------------------------
(* Prepare records, the pending table and storage.                         *)

Logged(tx) == tx \in Range(wal)
Published(tx) == Logged(tx) \/ pc[tx] = "append"
Retired(tx) == Logged(tx) /\ tx \notin pending_prepare_records

Unretired == {"collect", "panicked", "upsert", "failed", "buffer", "retire"}
Stored == {"buffer", "retire", "holder", "release", "clean"}

RecordTyped ==
    /\ pending_prepare_records \subseteq Transaction
    /\ pending_commit_table \in PendingCommitTable
    /\ store \in PendingCommitTable /\ buffer \in PendingCommitTable
    /\ applied \in [Key -> Seq(Transaction)]
    /\ wal \in Seq(Transaction) /\ IsInjective(wal)
    /\ DOMAIN dependencies = Transaction
    /\ \A c \in commits : IsInjective(c.batch)

(* The prepare record of a transaction is kept from publish to retire.     *)
Recorded(tx) ==
    /\ Logged(tx) => pc[tx] \in {"release", "flush", "prepared", "committing", "committed"}
    /\ pc[tx] \in {"release", "flush", "prepared", "committing"} => Logged(tx)
    /\ tx \in pending_prepare_records <=>
          \/ pc[tx] \in {"append", "release", "flush", "prepared"}
          \/ \E c \in commits : tx \in Range(c.batch) /\ c.at \in Unretired

(* A pending entry names a transaction that has published a change of the  *)
(* key.                                                                    *)
PendingPublished(k) ==
    LET writer == pending_commit_table[k]
    IN  writer # None => Published(writer) /\ k \in Changes(writer)

Holds(k, value) == value = None \/ (value \in Range(applied[k]) /\ k \in Changes(value))

(* What the calls have stored                                              *)
StoredBy(k) ==
    /\ Holds(k, store[k]) /\ Holds(k, buffer[k])
    /\ \A c \in commits : c.at \in Stored =>
          \A tx \in Range(c.batch) : k \in Changes(tx) => tx \in Range(applied[k])
    /\ \A tx \in Transaction : Retired(tx) /\ k \in Changes(tx) => tx \in Range(applied[k])
    /\ \A tx \in Range(applied[k]) :
          Retired(tx) \/ \E c \in commits : tx \in Range(c.batch) /\ c.at \in {"failed", "buffer", "retire"}

RecordInv ==
    /\ RecordTyped
    /\ \A tx \in Transaction : Recorded(tx)
    /\ \A k \in Key : PendingPublished(k) /\ StoredBy(k)
    /\ DirtyReadsAreDependencies

DependenciesLogged ==
    \A tx \in Transaction : \A d \in dependencies[tx] :
       AbortedInCall(tx) \/ AbortedInCall(d) \/ Logged(d)

WalInv ==
    /\ \A tx \in Transaction : dependencies[tx] \subseteq Transaction
    /\ LockStolen \/ (DependenciesLogged /\ WalFollowsDependencies)

LEMMA Least ==
    ASSUME NEW S \in SUBSET Nat, S # {}
    PROVE  \E i \in S : \A j \in S : i <= j
<1>1. PICK i \in S : \A j \in S : ~(<<j, i>> \in OpToRel(<, Nat))
    BY NatLessThanWellFounded, WFMin
<1>2. \A j \in S : ~(j < i)
    BY <1>1 DEF OpToRel
<1>3. \A j \in S : i \in Nat /\ j \in Nat
    OBVIOUS
<1>. QED
    BY <1>2, <1>3, SMTT(30)

(* The last transaction of a batch that changes a key                      *)
LEMMA LastChanger ==
    ASSUME NEW batch \in Seq(Transaction), NEW w, NEW k \in changedKeys(batch, w)
    PROVE  LET last == Max(changersOf(k, batch, w))
           IN  /\ last \in 1..Len(batch) /\ lastChanger(k, batch, w) = batch[last]
               /\ k \in changes(w[batch[last]]) /\ batch[last] \in Range(batch)
               /\ \A i \in 1..Len(batch) : k \in changes(w[batch[i]]) => i <= last
<1>. DEFINE S == changersOf(k, batch, w)
            n == Len(batch)
            D == {n - i : i \in S}
<1>1. S # {} /\ S \subseteq 1..n
    BY DEF changedKeys, changersOf
<1>2. n \in Nat /\ DOMAIN batch = 1..n
    BY SMTT(30)
<1>3. D \in SUBSET Nat /\ D # {}
  <2>1. \A i \in 1..n : n - i \in Nat
    BY <1>2, SMTT(30)
  <2>. QED
    BY <1>1, <2>1
<1>4. PICK m \in S : \A i \in S : n - m <= n - i
  <2>. HIDE DEF D
  <2>1. PICK d \in D : \A e \in D : d <= e
    BY <1>3, Least
  <2>. QED
    BY <2>1 DEF D
<1>5. \A i \in 1..n : m \in 1..n /\ n - m <= n - i => m >= i
    BY <1>2, SMTT(30)
<1>6. \A i \in S : m >= i
    BY <1>1, <1>4, <1>5
<1>7. Max(S) \in S /\ \A i \in S : Max(S) >= i
    BY <1>6 DEF Max
<1>8. \A i \in 1..n : Max(S) >= i => i <= Max(S)
    BY <1>1, <1>2, <1>7, SMTT(30)
<1>9. \A i \in 1..n : k \in changes(w[batch[i]]) => i \in S
    BY DEF changersOf
<1>10. k \in changes(w[batch[Max(S)]])
    BY <1>7 DEF changersOf
<1>11. batch[Max(S)] \in Range(batch)
    BY <1>1, <1>2, <1>7 DEF Range
<1>. QED
    BY <1>1, <1>7, <1>8, <1>9, <1>10, <1>11 DEF lastChanger

LEMMA Concatenation ==
    ASSUME NEW S, NEW s \in Seq(S), NEW t \in Seq(S)
    PROVE  /\ s \o t \in Seq(S) /\ Len(s \o t) = Len(s) + Len(t)
           /\ Len(s) \in Nat /\ Len(t) \in Nat
           /\ \A i \in 1..Len(s) : (s \o t)[i] = s[i]
           /\ \A i \in 1..Len(t) : (s \o t)[Len(s) + i] = t[i]
           /\ \A i \in 1..(Len(s) + Len(t)) :
                 i \in 1..Len(s) \/ \E j \in 1..Len(t) : i = Len(s) + j
           /\ Range(s \o t) = Range(s) \cup Range(t)
<1>1. /\ s \o t \in Seq(S) /\ Len(s \o t) = Len(s) + Len(t)
      /\ Len(s) \in Nat /\ Len(t) \in Nat
      /\ DOMAIN s = 1..Len(s) /\ DOMAIN t = 1..Len(t) /\ DOMAIN (s \o t) = 1..(Len(s) + Len(t))
      /\ \A i \in 1..Len(s) : (s \o t)[i] = s[i]
      /\ \A i \in 1..Len(t) : (s \o t)[Len(s) + i] = t[i]
    BY SMTT(30)
<1>2. ASSUME NEW i \in 1..(Len(s) + Len(t)), i \notin 1..Len(s)
      PROVE  i - Len(s) \in 1..Len(t) /\ i = Len(s) + (i - Len(s))
    BY <1>1, <1>2, SMTT(30)
<1>3. /\ \A i \in 1..Len(s) : i \in 1..(Len(s) + Len(t))
      /\ \A i \in 1..Len(t) : Len(s) + i \in 1..(Len(s) + Len(t))
    BY <1>1, SMTT(30)
<1>4. ASSUME NEW x \in Range(s \o t) PROVE x \in Range(s) \cup Range(t)
  <2>1. PICK i \in 1..(Len(s) + Len(t)) : x = (s \o t)[i]
    BY <1>1 DEF Range
  <2>2. CASE i \in 1..Len(s)
    BY <1>1, <2>1, <2>2 DEF Range
  <2>3. CASE i \notin 1..Len(s)
    <3>1. i - Len(s) \in 1..Len(t) /\ x = t[i - Len(s)]
      BY <1>1, <1>2, <2>1, <2>3
    <3>. QED
      BY <1>1, <3>1 DEF Range
  <2>. QED
    BY <2>2, <2>3
<1>5. ASSUME NEW x \in Range(s) PROVE x \in Range(s \o t)
    BY <1>1, <1>3 DEF Range
<1>6. ASSUME NEW x \in Range(t) PROVE x \in Range(s \o t)
    BY <1>1, <1>3 DEF Range
<1>7. Range(s \o t) = Range(s) \cup Range(t)
    BY <1>4, <1>5, <1>6
<1>. QED
    BY <1>1, <1>2, <1>7

LEMMA WorkTyped ==
    ASSUME Typed, NEW tx \in Transaction
    PROVE  Reads(tx) \subseteq Key /\ Changes(tx) \subseteq Key
<1>1. scenario.work \in [Transaction -> Work]
    BY SMTT(30) DEF Typed, Scenario
<1>2. work[tx] \in Work
    BY <1>1 DEF work
<1>. QED
    BY <1>2, SMTT(30) DEF Work, Reads, Changes, changes

---------------------------------------------------------------------------
(* Steps that leave the records and storage alone                          *)

Kept == {"append", "release", "flush", "prepared", "committing"}

---------------------------------------------------------------------------
(* Steps that write records or storage                                     *)
LEMMA PendingAfterPrepare ==
    ASSUME NEW pending, NEW tx, NEW decided, NEW k \in Key,
           k \in DOMAIN decided => decided[k] \in BOOLEAN
    PROVE  pendingAfterPrepare(pending, tx, decided)[k] =
              IF k \notin DOMAIN decided THEN pending[k] ELSE IF decided[k] THEN tx ELSE None
BY SMTT(30) DEF pendingAfterPrepare

(* What publish does                                                       *)
LEMMA Publishes ==
    ASSUME LockInv, RecordInv, NEW tx \in Transaction, publish(tx)
    PROVE  /\ pc[tx] = "decide" /\ pc'[tx] = "append" /\ ~Logged(tx)
           /\ \A u \in Transaction \ {tx} : pc'[u] = pc[u]
           /\ pending_prepare_records' = pending_prepare_records \cup {tx}
           /\ tx \notin pending_prepare_records
           /\ pending_commit_table' \in PendingCommitTable
           /\ \A k \in Key : pending_commit_table'[k] =
                 IF strategy = "Traditional" \/ k \notin Changes(tx) THEN pending_commit_table[k]
                 ELSE IF early[tx][k] THEN tx ELSE None
           /\ DOMAIN dependencies' = Transaction
           /\ \A u \in Transaction : dependencies[u] \subseteq dependencies'[u]
           /\ \A u \in Transaction \ {tx} : dependencies'[u] = dependencies[u]
           /\ strategy = "Traditional" => dependencies' = dependencies
           /\ strategy # "Traditional" =>
                 dependencies'[tx] = dependencies[tx]
                    \cup ({pending_commit_table[k] : k \in Changes(tx)} \ {None})
           /\ UNCHANGED <<scenario, key, from, request, early, released_lock_early, storeVars, wal,
                          aborting, commits, panicked>>
<1>1. /\ pc[tx] = "decide" /\ DOMAIN early[tx] = Changes(tx)
      /\ pending_prepare_records' = pending_prepare_records \cup {tx}
      /\ pc' = [pc EXCEPT ![tx] = "append"]
      /\ UNCHANGED <<scenario, key, from, request, early, released_lock_early, storeVars, wal,
                     aborting, commits, panicked>>
    BY DEF publish, Goto
<1>2. pc'[tx] = "append" /\ \A u \in Transaction \ {tx} : pc'[u] = pc[u]
    BY <1>1 DEF LockInv, Typed
<1>3. ~Logged(tx) /\ tx \notin pending_prepare_records
    BY <1>1 DEF RecordInv, Recorded, LockInv, Calls
<1>4. /\ DOMAIN dependencies = Transaction /\ pending_commit_table \in PendingCommitTable
      /\ DOMAIN pending_commit_table = Key
    BY DEF RecordInv, RecordTyped, PendingCommitTable
<1>5. CASE strategy = "Traditional"
    BY <1>1, <1>2, <1>3, <1>4, <1>5 DEF publish
<1>6. CASE strategy # "Traditional"
  <2>1. /\ dependencies' = [dependencies EXCEPT
             ![tx] = @ \cup ({pending_commit_table[k] : k \in Changes(tx)} \ {None})]
        /\ pending_commit_table' = pendingAfterPrepare(pending_commit_table, tx, early[tx])
    BY <1>6 DEF publish, writeDependencies
  <2>2. ASSUME NEW k \in Key
        PROVE  /\ pending_commit_table'[k] =
                    IF k \notin Changes(tx) THEN pending_commit_table[k]
                    ELSE IF early[tx][k] THEN tx ELSE None
               /\ pending_commit_table'[k] \in Transaction \cup {None}
    <3>1. k \in DOMAIN early[tx] => early[tx][k] \in BOOLEAN
      BY DEF LockInv, Local
    <3>2. pending_commit_table[k] \in Transaction \cup {None}
      BY <1>4 DEF PendingCommitTable
    <3>3. pending_commit_table'[k] = IF k \notin DOMAIN early[tx] THEN pending_commit_table[k]
                                      ELSE IF early[tx][k] THEN tx ELSE None
      BY <2>1, <3>1, PendingAfterPrepare, SMTT(30)
    <3>. QED
      BY <1>1, <3>2, <3>3, SMTT(30)
  <2>3. DOMAIN pending_commit_table' = Key
    BY <2>1 DEF pendingAfterPrepare
  <2>4. pending_commit_table' \in PendingCommitTable
    <3>1. pending_commit_table' = [k \in Key |-> pending_commit_table'[k]]
      BY <2>1 DEF pendingAfterPrepare
    <3>. QED
      BY <2>2, <3>1 DEF PendingCommitTable
  <2>5. /\ DOMAIN dependencies' = Transaction
        /\ \A u \in Transaction : dependencies[u] \subseteq dependencies'[u]
        /\ \A u \in Transaction \ {tx} : dependencies'[u] = dependencies[u]
        /\ dependencies'[tx] = dependencies[tx]
              \cup ({pending_commit_table[k] : k \in Changes(tx)} \ {None})
    BY <1>4, <2>1
  <2>. QED
    BY <1>1, <1>2, <1>3, <1>6, <2>2, <2>4, <2>5
<1>. QED
    BY <1>5, <1>6

(* What the append of a prepare record does to the log                     *)
LEMMA Appends ==
    ASSUME LockInv, RecordInv, NEW tx \in Transaction, prepareAppend(tx)
    PROVE  /\ pc[tx] = "append" /\ pc'[tx] = "release" /\ ~Logged(tx)
           /\ \A u \in Transaction \ {tx} : pc'[u] = pc[u]
           /\ wal' \in Seq(Transaction) /\ IsInjective(wal')
           /\ \A u : Logged(u)' <=> Logged(u) \/ u = tx
           /\ Len(wal) \in Nat /\ Len(wal') = Len(wal) + 1
           /\ \A i \in 1..Len(wal) : wal'[i] = wal[i]
           /\ wal'[Len(wal) + 1] = tx
           /\ UNCHANGED <<scenario, lock, granted, key, from, request, early, released_lock_early,
                          dependencies, pendingVars, storeVars, aborting, commits, panicked>>
<1>1. /\ pc[tx] = "append" /\ pc' = [pc EXCEPT ![tx] = "release"] /\ wal' = Append(wal, tx)
      /\ UNCHANGED <<scenario, lock, granted, key, from, request, early, released_lock_early,
                     dependencies, pendingVars, storeVars, aborting, commits, panicked>>
    BY DEF prepareAppend, Goto
<1>2. pc'[tx] = "release" /\ \A u \in Transaction \ {tx} : pc'[u] = pc[u]
    BY <1>1 DEF LockInv, Typed
<1>3. ~Logged(tx) /\ wal \in Seq(Transaction) /\ IsInjective(wal)
    BY <1>1 DEF RecordInv, Recorded, RecordTyped
<1>4. wal' \in Seq(Transaction) /\ Range(wal') = Range(wal) \cup {tx} /\ IsInjective(wal')
    BY <1>1, <1>3, QueueAppend, SMTT(30) DEF Logged
<1>5. /\ Len(wal) \in Nat /\ Len(wal') = Len(wal) + 1
      /\ \A i \in 1..Len(wal) : wal'[i] = wal[i]
      /\ wal'[Len(wal) + 1] = tx
    BY <1>1, <1>3, SMTT(30)
<1>6. \A u : Logged(u)' <=> Logged(u) \/ u = tx
    BY <1>4 DEF Logged
<1>. QED
    BY <1>1, <1>2, <1>3, <1>4, <1>5, <1>6

---------------------------------------------------------------------------
(* The commit calls                                                        *)
LEMMA Advanced ==
    ASSUME LockInv, NEW c \in commits, NEW there, Advance(c, there)
    PROVE  /\ \E c1 : c1.batch = c.batch /\ c1.at = there /\ commits' = (commits \ {c}) \cup {c1}
           /\ c.batch \in Seq(Transaction) /\ Range(c.batch) \subseteq Transaction
           /\ \A u \in Range(c.batch) : \A d \in commits : u \in Range(d.batch) => d = c
<1>. DEFINE c1 == [c EXCEPT !.at = there]
<1>1. c1.batch = c.batch /\ c1.at = there
    BY SMTT(30) DEF LockInv, Typed
<1>2. commits' = (commits \ {c}) \cup {c1}
    BY DEF Advance
<1>3. c.batch \in Seq(Transaction) /\ Range(c.batch) \subseteq Transaction
    BY BatchTyped DEF LockInv, Typed
<1>. QED
    BY <1>1, <1>2, <1>3 DEF LockInv, Calls

(* What the upsert of a batch does to one key                              *)
LEMMA Upserts ==
    ASSUME LockInv, RecordInv, NEW c \in commits, commitUpsert(c), NEW k \in Key
    PROVE  /\ Range(applied[k]) \subseteq Range(applied'[k])
           /\ applied'[k] \in Seq(Transaction)
           /\ store'[k] \in Transaction \cup {None}
           /\ Range(applied'[k]) \subseteq Range(applied[k]) \cup Range(c.batch)
           /\ \/ store'[k] = store[k] /\ applied'[k] = applied[k]
              \/ /\ store'[k] = lastChanger(k, c.batch, work) /\ k \in changedKeys(c.batch, work)
                 /\ applied'[k] = applied[k] \o c.batch
                 /\ Range(applied'[k]) = Range(applied[k]) \cup Range(c.batch)
                 /\ k \in Changes(store'[k]) /\ store'[k] \in Range(c.batch)
           /\ ~upsertFails(c.batch, work) => \A u \in Range(c.batch) : k \in Changes(u) =>
                 applied'[k] = applied[k] \o c.batch /\ u \in Range(applied'[k])
<1>. DEFINE put == k \in changedKeys(c.batch, work) /\ ~isDelete(k, c.batch, work)
<1>1. /\ store'[k] = IF put THEN lastChanger(k, c.batch, work) ELSE store[k]
      /\ applied'[k] = IF put THEN applied[k] \o c.batch ELSE applied[k]
    BY DEF commitUpsert, storeAfterUpsert
<1>2. /\ c.batch \in Seq(Transaction) /\ Range(c.batch) \subseteq Transaction
      /\ applied[k] \in Seq(Transaction) /\ store[k] \in Transaction \cup {None}
    BY BatchTyped DEF LockInv, Typed, RecordInv, RecordTyped, PendingCommitTable
<1>3. /\ applied[k] \o c.batch \in Seq(Transaction)
      /\ Range(applied[k] \o c.batch) = Range(applied[k]) \cup Range(c.batch)
  <2>. DEFINE s == applied[k]
              t == c.batch
  <2>1. s \in Seq(Transaction) /\ t \in Seq(Transaction)
    BY <1>2
  <2>. HIDE DEF s, t
  <2>2. s \o t \in Seq(Transaction) /\ Range(s \o t) = Range(s) \cup Range(t)
    BY <2>1, Concatenation, ZenonT(40)
  <2>. QED
    BY <2>2 DEF s, t
<1>4. k \in changedKeys(c.batch, work) =>
         /\ lastChanger(k, c.batch, work) \in Range(c.batch)
         /\ k \in Changes(lastChanger(k, c.batch, work))
    BY <1>2, LastChanger DEF Changes
<1>5. ASSUME NEW u \in Range(c.batch), k \in Changes(u) PROVE k \in changedKeys(c.batch, work)
  <2>1. PICK i \in 1..Len(c.batch) : u = c.batch[i]
    <3>1. DOMAIN c.batch = 1..Len(c.batch)
      BY <1>2, SMTT(30)
    <3>. QED
      BY <3>1 DEF Range
  <2>. QED
    BY <1>5, <2>1 DEF changedKeys, changersOf, Changes
<1>6. ~upsertFails(c.batch, work) /\ k \in changedKeys(c.batch, work) => put
    BY DEF upsertFails
<1>7. CASE put
    BY <1>1, <1>2, <1>3, <1>4, <1>7
<1>8. CASE ~put
    BY <1>1, <1>2, <1>5, <1>6, <1>8
<1>. QED
    BY <1>7, <1>8

(* What retiring a batch does                                              *)
LEMMA Retires ==
    ASSUME LockInv, RecordInv, NEW c \in commits, commitRetire(c)
    PROVE  /\ \A u : Retired(u)' <=> Retired(u) \/ u \in Range(c.batch)
           /\ \A u \in Range(c.batch) : Logged(u) /\ u \in pending_prepare_records
           /\ pending_commit_table' \in PendingCommitTable
           /\ \A k \in Key : pending_commit_table'[k] =
                 IF strategy # "Traditional" /\ k \in changedKeys(c.batch, work)
                       /\ pending_commit_table[k] = lastChanger(k, c.batch, work)
                 THEN None ELSE pending_commit_table[k]
<1>1. /\ c.at = "retire" /\ Advance(c, "holder") /\ wal' = wal
      /\ pending_prepare_records' = pending_prepare_records \ Range(c.batch)
    BY DEF commitRetire
<1>2. Range(c.batch) \subseteq Transaction
    BY <1>1, Advanced
<1>3. \A u \in Range(c.batch) : Logged(u) /\ u \in pending_prepare_records
    BY <1>1, <1>2 DEF RecordInv, Recorded, LockInv, Calls, Unretired
<1>4. \A u : Retired(u)' <=> Retired(u) \/ u \in Range(c.batch)
    BY <1>1, <1>3 DEF Retired, Logged
<1>5. \A k \in Key : pending_commit_table[k] \in Transaction \cup {None}
    BY DEF RecordInv, RecordTyped, PendingCommitTable
<1>6. CASE strategy = "Traditional"
    BY <1>3, <1>4, <1>6 DEF commitRetire, RecordInv, RecordTyped
<1>7. CASE strategy # "Traditional"
  <2>1. pending_commit_table' = pendingAfterCommit(pending_commit_table, c.batch, work)
    BY <1>7 DEF commitRetire
  <2>2. \A k \in Key : pending_commit_table'[k] =
           IF k \in changedKeys(c.batch, work)
                 /\ pending_commit_table[k] = lastChanger(k, c.batch, work)
           THEN None ELSE pending_commit_table[k]
    BY <2>1 DEF pendingAfterCommit
  <2>3. pending_commit_table' = [k \in Key |-> pending_commit_table'[k]]
    BY <2>1 DEF pendingAfterCommit
  <2>4. \A k \in Key : pending_commit_table'[k] \in Transaction \cup {None}
    BY <1>5, <2>2
  <2>5. pending_commit_table' \in PendingCommitTable
    BY <2>3, <2>4 DEF PendingCommitTable
  <2>. QED
    BY <1>3, <1>4, <1>7, <2>2, <2>5
<1>. QED
    BY <1>6, <1>7

---------------------------------------------------------------------------
LEMMA InitRecords == Init => RecordInv
<1>. SUFFICES ASSUME Init PROVE RecordInv
    OBVIOUS
<1>1. DOMAIN << >> = {} /\ << >> \in Seq(Transaction)
    BY SMTT(30)
<1>2. Range(<< >>) = {} /\ IsInjective(<< >>)
    BY <1>1 DEF Range, IsInjective
<1>3. RecordTyped
    BY <1>1, <1>2 DEF Init, RecordTyped, PendingCommitTable
<1>4. \A tx \in Transaction : Recorded(tx)
    BY <1>2 DEF Init, Recorded, Logged
<1>5. \A k \in Key : PendingPublished(k) /\ StoredBy(k)
    BY <1>2 DEF Init, PendingPublished, StoredBy, Holds, Retired, Logged
<1>6. DirtyReadsAreDependencies
    BY <1>1 DEF Init, DirtyReadsAreDependencies
<1>. QED
    BY <1>3, <1>4, <1>5, <1>6 DEF RecordInv

LEMMA NextRecords == LockInv /\ RecordInv /\ [Next]_vars => RecordInv'
<1>RecordsStay.
    ASSUME RecordInv, UNCHANGED <<scenario, wal, pendingVars, storeVars, commits>>,
           DOMAIN dependencies' = Transaction,
           \A u \in Transaction :
              \/ pc'[u] = pc[u]
              \/ pc[u] \notin Kept \cup {"committed"} /\ pc'[u] \notin Kept
              \/ pc[u] \in {"release", "flush"} /\ pc'[u] \in {"flush", "prepared"},
           DirtyReadsAreDependencies'
    PROVE  RecordInv'
  <2>. USE <1>RecordsStay
  <2>1. UNCHANGED <<pending_prepare_records, pending_commit_table, store, buffer, applied>>
      BY DEF pendingVars, storeVars
  <2>2. RecordTyped'
      BY <2>1 DEF RecordInv, RecordTyped
  <2>3. ASSUME NEW u \in Transaction PROVE Recorded(u)'
    <3>1. CASE pc'[u] = pc[u]
      BY <2>1, <3>1 DEF RecordInv, Recorded, Logged
    <3>2. CASE pc[u] \notin Kept \cup {"committed"} /\ pc'[u] \notin Kept
      BY <2>1, <3>2 DEF RecordInv, Recorded, Logged, Kept
    <3>3. CASE pc[u] \in {"release", "flush"} /\ pc'[u] \in {"flush", "prepared"}
      BY <2>1, <3>3 DEF RecordInv, Recorded, Logged
    <3>. QED
      BY <3>1, <3>2, <3>3
  <2>4. ASSUME NEW k \in Key PROVE PendingPublished(k)' /\ StoredBy(k)'
    <3>1. pending_commit_table[k] # None => pending_commit_table[k] \in Transaction
      BY DEF RecordInv, RecordTyped, PendingCommitTable
    <3>2. PendingPublished(k)'
      BY <2>1, <3>1 DEF RecordInv, PendingPublished, Published, Logged, Changes, work, Kept
    <3>3. StoredBy(k)'
      BY <2>1 DEF RecordInv, StoredBy, Retired, Logged, Holds, Changes, work
    <3>. QED
      BY <3>2, <3>3
  <2>. QED
      BY <2>2, <2>3, <2>4 DEF RecordInv
<1>ReadsStay.
    ASSUME DirtyReadsAreDependencies, UNCHANGED <<from, dependencies, applied>>
    PROVE  DirtyReadsAreDependencies'
    BY <1>ReadsStay DEF DirtyReadsAreDependencies

(* A step of one handler                                                   *)
<1>HandlerRecords.
    ASSUME LockInv, RecordInv, NEW tx \in Transaction,
           UNCHANGED <<scenario, wal, pendingVars, storeVars, commits, from, dependencies>>,
           NEW p, pc' = [pc EXCEPT ![tx] = p],
           \/ p = pc[tx]
           \/ pc[tx] \notin Kept \cup {"committed"} /\ p \notin Kept
           \/ pc[tx] \in {"release", "flush"} /\ p \in {"flush", "prepared"}
    PROVE  RecordInv'
  <2>. USE <1>HandlerRecords
  <2>1. pc'[tx] = p /\ \A u \in Transaction \ {tx} : pc'[u] = pc[u]
      BY DEF LockInv, Typed
  <2>2. DirtyReadsAreDependencies'
      BY <1>ReadsStay DEF RecordInv, storeVars
  <2>3. DOMAIN dependencies' = Transaction
      BY DEF RecordInv, RecordTyped
  <2>. QED
      BY <2>1, <2>2, <2>3, <1>RecordsStay
<1>HandlerStepsRecords.
    ASSUME LockInv, RecordInv, NEW tx \in Transaction,
           \/ callGet(tx) \/ prepare(tx) \/ prepareReadOnly(tx) \/ prepareAcquire(tx)
           \/ \E k \in Key : prepareDecide(tx, k)
           \/ prepareRelease(tx) \/ prepareFlushed(tx) \/ abort(tx) \/ abortRelease(tx)
    PROVE  RecordInv'
  <2>. USE <1>HandlerStepsRecords
  <2>1. UNCHANGED <<scenario, wal, pendingVars, storeVars, commits, from, dependencies>>
      BY DEF callGet, get, prepare, prepareReadOnly, prepareAcquire, prepareDecide, prepareRelease,
         prepareFlushed, abort, abortRelease, handlerVars
  <2>2. \E p : /\ pc' = [pc EXCEPT ![tx] = p]
               /\ \/ p = pc[tx]
                  \/ pc[tx] \notin Kept \cup {"committed"} /\ p \notin Kept
                  \/ pc[tx] \in {"release", "flush"} /\ p \in {"flush", "prepared"}
    <3>1. CASE (\E k \in Key : prepareDecide(tx, k)) \/ abort(tx) \/ abortRelease(tx)
      <4>1. pc' = pc
        BY <3>1 DEF prepareDecide, abort, abortRelease, handlerVars
      <4>. QED
        BY <4>1 DEF LockInv, Typed
    <3>2. CASE callGet(tx) \/ prepare(tx) \/ prepareReadOnly(tx) \/ prepareAcquire(tx)
      <4>1. pc[tx] \in {"active", "releaseReadOnly", "acquire"}
        BY <3>2 DEF callGet, get, prepare, prepareReadOnly, prepareAcquire
      <4>2. \E p \in {"get", "lockLost", "releaseReadOnly", "acquire", "committed", "decide"} :
               pc' = [pc EXCEPT ![tx] = p]
        BY <3>2 DEF callGet, get, prepare, prepareReadOnly, prepareAcquire, Goto
      <4>. QED
        BY <4>1, <4>2 DEF Kept
    <3>3. CASE prepareRelease(tx) \/ prepareFlushed(tx)
      BY <3>3 DEF prepareRelease, prepareFlushed, Goto
    <3>. QED
      BY <3>1, <3>2, <3>3
  <2>. QED
      BY <2>1, <2>2, <1>HandlerRecords

(* A read finds its writer pending, or stored.                             *)
<1>GetRecords.
    ASSUME LockInv, RecordInv, NEW tx \in Transaction, getPending(tx) \/ getStorage(tx)
    PROVE  RecordInv'
  <2>. USE <1>GetRecords
  <2>. DEFINE k == key[tx]
  <2>1. UNCHANGED <<scenario, wal, pendingVars, storeVars, commits>>
      BY DEF getPending, getStorage
  <2>2. pc[tx] \in {"get", "getStorage"} /\ k \in Key
      BY WorkTyped DEF getPending, getStorage, LockInv, Local
  <2>3. /\ pc'[tx] \in {"getStorage", "active", "dropped", "panicked"}
        /\ \A u \in Transaction \ {tx} : pc'[u] = pc[u]
      BY DEF getPending, getStorage, ReadFrom, Goto, LockInv, Typed
  <2>4. \A u \in Transaction : \/ pc'[u] = pc[u]
                               \/ pc[u] \notin Kept \cup {"committed"} /\ pc'[u] \notin Kept
      BY <2>2, <2>3 DEF Kept
  <2>5. /\ DOMAIN dependencies' = Transaction
        /\ \A u \in Transaction : dependencies[u] \subseteq dependencies'[u]
      BY DEF getPending, getStorage, readDependencies, RecordInv, RecordTyped
  <2>6. DirtyReadsAreDependencies'
    <3>1. CASE from' = from
      BY <2>1, <2>5, <3>1 DEF RecordInv, DirtyReadsAreDependencies, storeVars
    <3>2. CASE \E writer : /\ ReadFrom(tx, writer)
                           /\ writer # None => \/ writer \in dependencies'[tx]
                                               \/ writer \in Range(applied[k])
      <4>1. PICK writer : /\ ReadFrom(tx, writer)
                          /\ writer # None => \/ writer \in dependencies'[tx]
                                              \/ writer \in Range(applied[k])
        BY <3>2
      <4>2. /\ DOMAIN from'[tx] = DOMAIN from[tx] \cup {k}
            /\ \A x \in DOMAIN from'[tx] : from'[tx][x] = IF x = k THEN writer ELSE from[tx][x]
            /\ \A u \in Transaction \ {tx} : from'[u] = from[u]
        BY <4>1, ReadKept
      <4>3. ASSUME NEW u \in Transaction, NEW x \in DOMAIN from'[u], from'[u][x] # None
            PROVE  from'[u][x] \in dependencies'[u] \/ from'[u][x] \in Range(applied[x])
        <5>1. CASE u = tx /\ x = k
          BY <4>1, <4>2, <4>3, <5>1
        <5>2. CASE u # tx \/ x # k
          <6>1. x \in DOMAIN from[u] /\ from'[u][x] = from[u][x]
            BY <4>2, <4>3, <5>2
          <6>. QED
            BY <2>5, <4>3, <6>1 DEF RecordInv, DirtyReadsAreDependencies
        <5>. QED
          BY <5>1, <5>2
      <4>. QED
        BY <2>1, <4>3 DEF DirtyReadsAreDependencies, storeVars
    <3>3. CASE getPending(tx)
      <4>1. \/ from' = from
            \/ \E writer : ReadFrom(tx, writer)
                 /\ dependencies' = [dependencies EXCEPT ![tx] = readDependencies(@, writer)]
        BY <3>3 DEF getPending
      <4>2. ASSUME NEW writer, dependencies' = [dependencies EXCEPT ![tx] = readDependencies(@, writer)]
            PROVE  writer \in dependencies'[tx]
        BY <4>2 DEF readDependencies, RecordInv, RecordTyped
      <4>. QED
        BY <3>1, <3>2, <4>1, <4>2
    <3>4. CASE getStorage(tx)
      <4>. DEFINE writer == IF buffer[k] # None THEN buffer[k] ELSE store[k]
      <4>1. ReadFrom(tx, writer)
        BY <3>4 DEF getStorage
      <4>2. writer # None => writer \in Range(applied[k])
        BY <2>2 DEF RecordInv, StoredBy, Holds
      <4>. QED
        BY <3>2, <4>1, <4>2
    <3>. QED
      BY <3>3, <3>4
  <2>. QED
      BY <2>1, <2>4, <2>5, <2>6, <1>RecordsStay
<1>PublishRecords.
    ASSUME LockInv, RecordInv, NEW tx \in Transaction, publish(tx)
    PROVE  RecordInv'
  <2>. USE <1>PublishRecords
  <2>1. /\ pc[tx] = "decide" /\ pc'[tx] = "append" /\ ~Logged(tx)
        /\ \A u \in Transaction \ {tx} : pc'[u] = pc[u]
        /\ pending_prepare_records' = pending_prepare_records \cup {tx}
        /\ pending_commit_table' \in PendingCommitTable
        /\ DOMAIN dependencies' = Transaction
        /\ \A u \in Transaction : dependencies[u] \subseteq dependencies'[u]
        /\ UNCHANGED <<scenario, from, store, buffer, applied, wal, commits>>
      BY Publishes DEF storeVars
  <2>2. \A k \in Key : \/ pending_commit_table'[k] \in {pending_commit_table[k], None}
                       \/ pending_commit_table'[k] = tx /\ k \in Changes(tx)
      BY Publishes
  <2>3. RecordTyped'
      BY <2>1 DEF RecordInv, RecordTyped
  <2>4. ASSUME NEW u \in Transaction PROVE Recorded(u)'
      BY <2>1 DEF RecordInv, Recorded, Logged
  <2>5. ASSUME NEW k \in Key PROVE PendingPublished(k)'
    <3>1. pending_commit_table[k] # None => pending_commit_table[k] \in Transaction
      BY DEF RecordInv, RecordTyped, PendingCommitTable
    <3>2. \A u \in Transaction : Published(u) => Published(u)'
      BY <2>1 DEF Published, Logged
    <3>3. Published(tx)'
      BY <2>1 DEF Published
    <3>. QED
      BY <2>1, <2>2, <3>1, <3>2, <3>3 DEF RecordInv, PendingPublished, Changes, work
  <2>6. ASSUME NEW k \in Key PROVE StoredBy(k)'
    <3>1. \A u : Retired(u)' <=> Retired(u)
      BY <2>1 DEF Retired, Logged
    <3>. QED
      BY <2>1, <3>1 DEF RecordInv, StoredBy, Holds, Changes, work
  <2>7. DirtyReadsAreDependencies'
      BY <2>1 DEF RecordInv, DirtyReadsAreDependencies
  <2>. QED
      BY <2>3, <2>4, <2>5, <2>6, <2>7 DEF RecordInv
<1>AppendRecords.
    ASSUME LockInv, RecordInv, NEW tx \in Transaction, prepareAppend(tx)
    PROVE  RecordInv'
  <2>. USE <1>AppendRecords
  <2>1. /\ pc[tx] = "append" /\ pc'[tx] = "release" /\ ~Logged(tx)
        /\ \A u \in Transaction \ {tx} : pc'[u] = pc[u]
        /\ wal' \in Seq(Transaction) /\ IsInjective(wal')
        /\ \A u : Logged(u)' <=> Logged(u) \/ u = tx
        /\ UNCHANGED <<scenario, from, dependencies, pending_prepare_records, pending_commit_table,
                       store, buffer, applied, commits>>
      BY Appends DEF pendingVars, storeVars
  <2>2. RecordTyped'
      BY <2>1 DEF RecordInv, RecordTyped
  <2>3. ASSUME NEW u \in Transaction PROVE Recorded(u)'
      BY <2>1 DEF RecordInv, Recorded
  <2>4. \A u \in Transaction : Published(u)' <=> Published(u)
      BY <2>1 DEF Published
  <2>5. tx \in pending_prepare_records
      BY <2>1 DEF RecordInv, Recorded
  <2>6. \A u : Retired(u)' <=> Retired(u)
      BY <2>1, <2>5 DEF Retired
  <2>7. ASSUME NEW k \in Key PROVE PendingPublished(k)' /\ StoredBy(k)'
    <3>1. pending_commit_table[k] # None => pending_commit_table[k] \in Transaction
      BY DEF RecordInv, RecordTyped, PendingCommitTable
    <3>2. PendingPublished(k)'
      BY <2>1, <2>4, <3>1 DEF RecordInv, PendingPublished, Changes, work
    <3>3. StoredBy(k)'
      BY <2>1, <2>6 DEF RecordInv, StoredBy, Holds, Changes, work
    <3>. QED
      BY <3>2, <3>3
  <2>8. DirtyReadsAreDependencies'
      BY <2>1, <1>ReadsStay DEF RecordInv
  <2>. QED
      BY <2>2, <2>3, <2>7, <2>8 DEF RecordInv
<1>AdvanceRecorded.
    ASSUME LockInv, RecordInv, NEW c \in commits, NEW there, Advance(c, there),
           UNCHANGED <<pc, wal, pending_prepare_records>>,
           c.at \in Unretired <=> there \in Unretired
    PROVE  /\ \A u \in Transaction : Recorded(u)'
           /\ \A d \in commits' : IsInjective(d.batch)
  <2>. USE <1>AdvanceRecorded
  <2>1. PICK c1 : c1.batch = c.batch /\ c1.at = there /\ commits' = (commits \ {c}) \cup {c1}
      BY Advanced
  <2>2. ASSUME NEW u \in Transaction PROVE Recorded(u)'
    <3>1. (\E d \in commits' : u \in Range(d.batch) /\ d.at \in Unretired)
             <=> \E d \in commits : u \in Range(d.batch) /\ d.at \in Unretired
      BY <2>1
    <3>. QED
      BY <3>1 DEF RecordInv, Recorded, Logged
  <2>3. ASSUME NEW d \in commits' PROVE IsInjective(d.batch)
      BY <2>1 DEF RecordInv, RecordTyped
  <2>. QED
      BY <2>2, <2>3

(* A call that goes on without storing or retiring anything                *)
<1>CallRecords.
    ASSUME LockInv, RecordInv, NEW c \in commits, NEW there, Advance(c, there),
           UNCHANGED <<scenario, handlerVars, pendingVars, storeVars, wal>>,
           \/ c.at = "collect" /\ there \in {"upsert", "panicked"}
           \/ c.at \in {"holder", "release"} /\ there \in {"release", "clean"}
    PROVE  RecordInv'
  <2>. USE <1>CallRecords
  <2>1. UNCHANGED <<pc, from, dependencies, pending_prepare_records, pending_commit_table, store,
                    buffer, applied>>
      BY DEF handlerVars, pendingVars, storeVars
  <2>2. c.at \in Unretired <=> there \in Unretired
      BY DEF Unretired
  <2>3. /\ \A u \in Transaction : Recorded(u)'
        /\ \A d \in commits' : IsInjective(d.batch)
      BY <2>1, <2>2, <1>AdvanceRecorded
  <2>4. PICK c1 : c1.batch = c.batch /\ c1.at = there /\ commits' = (commits \ {c}) \cup {c1}
      BY Advanced
  <2>5. RecordTyped'
      BY <2>1, <2>3 DEF RecordInv, RecordTyped
  <2>6. ASSUME NEW k \in Key PROVE PendingPublished(k)' /\ StoredBy(k)'
    <3>1. PendingPublished(k)'
      BY <2>1 DEF RecordInv, PendingPublished, Published, Logged, Changes, work
    <3>2. \A d \in commits' : d.at \in Stored =>
             \A u \in Range(d.batch) : k \in Changes(u) => u \in Range(applied[k])
      BY <2>4 DEF RecordInv, StoredBy, Stored
    <3>3. \A u : (\E d \in commits : u \in Range(d.batch) /\ d.at \in {"failed", "buffer", "retire"})
             => \E d \in commits' : u \in Range(d.batch) /\ d.at \in {"failed", "buffer", "retire"}
      BY <2>4
    <3>4. StoredBy(k)'
      BY <2>1, <3>2, <3>3 DEF RecordInv, StoredBy, Retired, Logged, Holds, Changes, work
    <3>. QED
      BY <3>1, <3>4
  <2>7. DirtyReadsAreDependencies'
      BY <2>1, <1>ReadsStay DEF RecordInv
  <2>. QED
      BY <2>3, <2>5, <2>6, <2>7 DEF RecordInv
<1>CommitRecords.
    ASSUME LockInv, RecordInv, NEW batch \in Batches, commit(batch)
    PROVE  RecordInv'
  <2>. USE <1>CommitRecords
  <2>. DEFINE c1 == [batch |-> batch, at |-> "collect"]
  <2>1. /\ commits' = commits \cup {c1}
        /\ pc' = [tx \in Transaction |-> IF tx \in Range(batch) THEN "committing" ELSE pc[tx]]
        /\ \A i \in 1..Len(batch) : pc[batch[i]] = "prepared"
        /\ UNCHANGED <<scenario, from, dependencies, pending_prepare_records, pending_commit_table,
                       store, buffer, applied, wal>>
      BY DEF commit, MayCommit, pendingVars, storeVars
  <2>2. batch \in Seq(Transaction) /\ IsInjective(batch)
      BY BatchesAreSequences DEF Batches
  <2>3. Range(batch) \subseteq Transaction /\ \A u \in Range(batch) : pc[u] = "prepared"
    <3>1. DOMAIN batch = 1..Len(batch) /\ \A i \in 1..Len(batch) : batch[i] \in Transaction
      BY <2>2, SMTT(30)
    <3>. QED
      BY <2>1, <3>1 DEF Range
  <2>4. c1.batch = batch /\ c1.at = "collect"
      BY SMTT(30)
  <2>. HIDE DEF c1
  <2>5. RecordTyped'
      BY <2>1, <2>2, <2>4 DEF RecordInv, RecordTyped
  <2>6. ASSUME NEW u \in Transaction PROVE Recorded(u)'
    <3>1. CASE u \in Range(batch)
      BY <2>1, <2>3, <2>4, <3>1 DEF RecordInv, Recorded, Logged, Unretired
    <3>2. CASE u \notin Range(batch)
      BY <2>1, <2>4, <3>2 DEF RecordInv, Recorded, Logged
    <3>. QED
      BY <3>1, <3>2
  <2>7. \A u \in Transaction : Published(u)' <=> Published(u)
      BY <2>1, <2>3 DEF Published, Logged
  <2>8. ASSUME NEW k \in Key PROVE PendingPublished(k)' /\ StoredBy(k)'
    <3>1. pending_commit_table[k] # None => pending_commit_table[k] \in Transaction
      BY DEF RecordInv, RecordTyped, PendingCommitTable
    <3>2. PendingPublished(k)'
      BY <2>1, <2>7, <3>1 DEF RecordInv, PendingPublished, Changes, work
    <3>3. \A d \in commits' : d.at \in Stored => d \in commits
      BY <2>1, <2>4 DEF Stored
    <3>4. StoredBy(k)'
      BY <2>1, <3>3 DEF RecordInv, StoredBy, Retired, Logged, Holds, Changes, work
    <3>. QED
      BY <3>2, <3>4
  <2>9. DirtyReadsAreDependencies'
      BY <2>1, <1>ReadsStay DEF RecordInv
  <2>. QED
      BY <2>5, <2>6, <2>8, <2>9 DEF RecordInv
<1>UpsertRecords.
    ASSUME LockInv, RecordInv, NEW c \in commits, commitUpsert(c)
    PROVE  RecordInv'
  <2>. USE <1>UpsertRecords
  <2>. DEFINE there == IF upsertFails(c.batch, work) THEN "failed" ELSE "buffer"
  <2>1. /\ c.at = "upsert" /\ Advance(c, there)
        /\ UNCHANGED <<scenario, pc, from, dependencies, pending_prepare_records,
                       pending_commit_table, buffer, wal>>
      BY DEF commitUpsert, handlerVars, pendingVars
  <2>2. c.at \in Unretired /\ there \in Unretired
      BY <2>1 DEF Unretired
  <2>3. /\ \A u \in Transaction : Recorded(u)'
        /\ \A d \in commits' : IsInjective(d.batch)
      BY <2>1, <2>2, <1>AdvanceRecorded
  <2>4. PICK c1 : c1.batch = c.batch /\ c1.at = there /\ commits' = (commits \ {c}) \cup {c1}
      BY <2>1, Advanced
  <2>5. RecordTyped'
    <3>1. /\ \A k \in Key : applied'[k] \in Seq(Transaction) /\ store'[k] \in Transaction \cup {None}
      BY Upserts
    <3>2. /\ applied' = [k \in Key |-> applied'[k]] /\ store' = [k \in Key |-> store'[k]]
      BY DEF commitUpsert, storeAfterUpsert
    <3>3. applied' \in [Key -> Seq(Transaction)] /\ store' \in PendingCommitTable
      BY <3>1, <3>2 DEF PendingCommitTable
    <3>. QED
      BY <2>1, <2>3, <3>3 DEF RecordInv, RecordTyped
  <2>6. ASSUME NEW k \in Key PROVE PendingPublished(k)' /\ StoredBy(k)'
    <3>1. PendingPublished(k)'
      BY <2>1 DEF RecordInv, PendingPublished, Published, Logged, Changes, work
    <3>2. \A u : (Changes(u)' = Changes(u)) /\ (Retired(u)' <=> Retired(u))
      BY <2>1 DEF Changes, work, Retired, Logged
    <3>3. Holds(k, store[k]) /\ Holds(k, buffer[k])
      BY DEF RecordInv, StoredBy
    <3>4. Holds(k, store[k])' /\ Holds(k, buffer[k])'
      <4>1. Holds(k, buffer[k])'
        BY <2>1, <3>2, <3>3, Upserts DEF Holds
      <4>2. CASE store'[k] = store[k]
        <5>1. Range(applied[k]) \subseteq Range(applied'[k])
          BY Upserts
        <5>. QED
          BY <2>1, <3>3, <4>1, <4>2, <5>1 DEF Holds, Changes, work
      <4>3. CASE store'[k] # store[k]
        <5>1. store'[k] \in Range(applied'[k]) /\ k \in Changes(store'[k])
          BY <4>3, Upserts
        <5>. QED
          BY <2>1, <4>1, <5>1 DEF Holds, Changes, work
      <4>. QED
        BY <4>1, <4>2, <4>3
    <3>5. ASSUME NEW d \in commits', d.at \in Stored, NEW u \in Range(d.batch), k \in Changes(u)
          PROVE  u \in Range(applied'[k])
      <4>1. CASE d \in commits /\ d # c
        BY <3>5, <4>1, Upserts DEF RecordInv, StoredBy
      <4>2. CASE d = c1
        <5>1. ~upsertFails(c.batch, work)
          BY <2>4, <3>5, <4>2 DEF Stored
        <5>. QED
          BY <2>4, <3>5, <4>2, <5>1, Upserts
      <4>. QED
        BY <2>4, <4>1, <4>2
    <3>6. ASSUME NEW u \in Transaction, Retired(u), k \in Changes(u) PROVE u \in Range(applied'[k])
      BY <3>6, Upserts DEF RecordInv, StoredBy
    <3>7. ASSUME NEW u \in Range(applied'[k])
          PROVE  Retired(u) \/ \E d \in commits' : u \in Range(d.batch)
                                                    /\ d.at \in {"failed", "buffer", "retire"}
      <4>1. CASE u \in Range(c.batch)
        BY <2>4, <4>1
      <4>2. CASE u \notin Range(c.batch)
        <5>1. u \in Range(applied[k])
          BY <4>2, Upserts
        <5>. QED
          BY <2>1, <2>4, <5>1 DEF RecordInv, StoredBy
      <4>. QED
        BY <4>1, <4>2
    <3>. QED
      BY <3>1, <3>2, <3>4, <3>5, <3>6, <3>7 DEF StoredBy
  <2>7. DirtyReadsAreDependencies'
    <3>. SUFFICES ASSUME NEW u \in Transaction, NEW x \in DOMAIN from[u], from[u][x] # None
                  PROVE  from[u][x] \in dependencies[u] \/ from[u][x] \in Range(applied'[x])
      BY <2>1 DEF DirtyReadsAreDependencies
    <3>1. x \in Key
      BY WorkTyped DEF LockInv, Local
    <3>. QED
      BY <3>1, Upserts DEF RecordInv, DirtyReadsAreDependencies
  <2>. QED
      BY <2>3, <2>5, <2>6, <2>7 DEF RecordInv
<1>BufferRecords.
    ASSUME LockInv, RecordInv, NEW c \in commits, commitBuffer(c)
    PROVE  RecordInv'
  <2>. USE <1>BufferRecords
  <2>1. /\ c.at = "buffer" /\ Advance(c, "retire")
        /\ UNCHANGED <<scenario, pc, from, dependencies, pending_prepare_records,
                       pending_commit_table, store, applied, wal>>
      BY DEF commitBuffer, handlerVars, pendingVars
  <2>2. c.at \in Unretired /\ "retire" \in Unretired
      BY <2>1 DEF Unretired
  <2>3. /\ \A u \in Transaction : Recorded(u)'
        /\ \A d \in commits' : IsInjective(d.batch)
      BY <2>1, <2>2, <1>AdvanceRecorded
  <2>4. PICK c1 : c1.batch = c.batch /\ c1.at = "retire" /\ commits' = (commits \ {c}) \cup {c1}
      BY <2>1, Advanced
  <2>5. c.batch \in Seq(Transaction) /\ Range(c.batch) \subseteq Transaction
      BY <2>1, Advanced
  <2>6. ASSUME NEW k \in Key
        PROVE  buffer'[k] = buffer[k] \/ (buffer'[k] \in Range(c.batch) /\ k \in Changes(buffer'[k]))
    <3>1. k \in changedKeys(c.batch, work) =>
           /\ lastChanger(k, c.batch, work) \in Range(c.batch)
           /\ k \in Changes(lastChanger(k, c.batch, work))
      BY <2>5, LastChanger DEF Changes
    <3>2. buffer'[k] = IF k \in changedKeys(c.batch, work) THEN lastChanger(k, c.batch, work)
                       ELSE buffer[k]
      BY DEF commitBuffer
    <3>. QED
      BY <3>1, <3>2
  <2>7. RecordTyped'
    <3>1. \A k \in Key : buffer'[k] \in Transaction \cup {None}
      BY <2>5, <2>6 DEF RecordInv, RecordTyped, PendingCommitTable
    <3>2. buffer' = [k \in Key |-> buffer'[k]]
      BY DEF commitBuffer
    <3>3. buffer' \in PendingCommitTable
      BY <3>1, <3>2 DEF PendingCommitTable
    <3>. QED
      BY <2>1, <2>3, <3>3 DEF RecordInv, RecordTyped
  <2>8. ASSUME NEW k \in Key PROVE PendingPublished(k)' /\ StoredBy(k)'
    <3>1. PendingPublished(k)'
      BY <2>1 DEF RecordInv, PendingPublished, Published, Logged, Changes, work
    <3>2. \A u : (Changes(u)' = Changes(u)) /\ (Retired(u)' <=> Retired(u))
      BY <2>1 DEF Changes, work, Retired, Logged
    <3>3. \A u \in Range(c.batch) : k \in Changes(u) => u \in Range(applied[k])
      BY <2>1 DEF RecordInv, StoredBy, Stored
    <3>4. Holds(k, buffer[k])' /\ Holds(k, store[k])'
      BY <2>1, <2>6, <3>2, <3>3 DEF RecordInv, StoredBy, Holds
    <3>5. \A d \in commits' : d.at \in Stored =>
             \A u \in Range(d.batch) : k \in Changes(u) => u \in Range(applied[k])
      BY <2>4, <3>3 DEF RecordInv, StoredBy
    <3>6. \A u : (\E d \in commits : u \in Range(d.batch) /\ d.at \in {"failed", "buffer", "retire"})
             => \E d \in commits' : u \in Range(d.batch) /\ d.at \in {"failed", "buffer", "retire"}
      BY <2>4
    <3>7. StoredBy(k)'
      BY <2>1, <3>2, <3>4, <3>5, <3>6 DEF RecordInv, StoredBy
    <3>. QED
      BY <3>1, <3>7
  <2>9. DirtyReadsAreDependencies'
      BY <2>1, <1>ReadsStay DEF RecordInv
  <2>. QED
      BY <2>3, <2>7, <2>8, <2>9 DEF RecordInv
<1>RetireRecords.
    ASSUME LockInv, RecordInv, NEW c \in commits, commitRetire(c)
    PROVE  RecordInv'
  <2>. USE <1>RetireRecords
  <2>1. /\ c.at = "retire" /\ Advance(c, "holder")
        /\ pending_prepare_records' = pending_prepare_records \ Range(c.batch)
        /\ UNCHANGED <<scenario, pc, from, dependencies, store, buffer, applied, wal>>
      BY DEF commitRetire, handlerVars, storeVars
  <2>2. PICK c1 : c1.batch = c.batch /\ c1.at = "holder" /\ commits' = (commits \ {c}) \cup {c1}
      BY <2>1, Advanced
  <2>3. \A u \in Range(c.batch) : \A d \in commits : u \in Range(d.batch) => d = c
      BY <2>1, Advanced
  <2>4. \A u : Retired(u)' <=> Retired(u) \/ u \in Range(c.batch)
      BY Retires
  <2>5. RecordTyped'
    <3>1. \A d \in commits' : IsInjective(d.batch)
      BY <2>2 DEF RecordInv, RecordTyped
    <3>. QED
      BY <2>1, <3>1, Retires DEF RecordInv, RecordTyped
  <2>6. ASSUME NEW u \in Transaction PROVE Recorded(u)'
    <3>1. CASE u \in Range(c.batch)
      <4>1. pc[u] = "committing" /\ u \notin pending_prepare_records'
        BY <2>1, <3>1 DEF LockInv, Calls
      <4>2. ~\E d \in commits' : u \in Range(d.batch) /\ d.at \in Unretired
        BY <2>2, <2>3, <3>1 DEF Unretired
      <4>. QED
        BY <2>1, <4>1, <4>2 DEF RecordInv, Recorded, Logged
    <3>2. CASE u \notin Range(c.batch)
      <4>1. (\E d \in commits' : u \in Range(d.batch) /\ d.at \in Unretired)
              <=> \E d \in commits : u \in Range(d.batch) /\ d.at \in Unretired
        BY <2>2, <3>2
      <4>. QED
        BY <2>1, <3>2, <4>1 DEF RecordInv, Recorded, Logged
    <3>. QED
      BY <3>1, <3>2
  <2>7. ASSUME NEW k \in Key PROVE PendingPublished(k)' /\ StoredBy(k)'
    <3>1. pending_commit_table'[k] \in {None, pending_commit_table[k]}
      BY Retires
    <3>2. PendingPublished(k)'
      BY <2>1, <3>1 DEF RecordInv, PendingPublished, Published, Logged, Changes, work
    <3>3. \A u \in Range(c.batch) : k \in Changes(u) => u \in Range(applied[k])
      BY <2>1 DEF RecordInv, StoredBy, Stored
    <3>4. \A d \in commits' : d.at \in Stored =>
             \A u \in Range(d.batch) : k \in Changes(u) => u \in Range(applied[k])
      BY <2>2, <3>3 DEF RecordInv, StoredBy
    <3>5. ASSUME NEW u \in Range(applied[k])
          PROVE  Retired(u)' \/ \E d \in commits' : u \in Range(d.batch)
                                                     /\ d.at \in {"failed", "buffer", "retire"}
      BY <2>2, <2>4 DEF RecordInv, StoredBy
    <3>6. StoredBy(k)'
      BY <2>1, <2>4, <3>3, <3>4, <3>5 DEF RecordInv, StoredBy, Holds, Changes, work
    <3>. QED
      BY <3>2, <3>6
  <2>8. DirtyReadsAreDependencies'
      BY <2>1, <1>ReadsStay DEF RecordInv
  <2>. QED
      BY <2>5, <2>6, <2>7, <2>8 DEF RecordInv
<1>CleanRecords.
    ASSUME LockInv, RecordInv, NEW c \in commits, commitClean(c)
    PROVE  RecordInv'
  <2>. USE <1>CleanRecords
  <2>1. /\ c.at = "clean" /\ commits' = commits \ {c}
        /\ pc' = [tx \in Transaction |-> IF tx \in Range(c.batch) THEN "committed" ELSE pc[tx]]
        /\ UNCHANGED <<scenario, from, dependencies, pending_prepare_records, pending_commit_table,
                       store, buffer, applied, wal>>
      BY DEF commitClean, pendingVars, storeVars
  <2>2. \A u \in Range(c.batch) : pc[u] = "committing" /\ \A d \in commits : u \in Range(d.batch) => d = c
      BY DEF LockInv, Calls
  <2>3. RecordTyped'
      BY <2>1 DEF RecordInv, RecordTyped
  <2>4. ASSUME NEW u \in Transaction PROVE Recorded(u)'
    <3>1. CASE u \in Range(c.batch)
      <4>1. pc'[u] = "committed" /\ pc[u] = "committing"
        BY <2>1, <2>2, <3>1
      <4>2. /\ ~\E d \in commits : u \in Range(d.batch) /\ d.at \in Unretired
            /\ ~\E d \in commits' : u \in Range(d.batch) /\ d.at \in Unretired
        BY <2>1, <2>2, <3>1 DEF Unretired
      <4>. QED
        BY <2>1, <4>1, <4>2 DEF RecordInv, Recorded, Logged
    <3>2. CASE u \notin Range(c.batch)
      <4>1. pc'[u] = pc[u]
        BY <2>1, <3>2
      <4>2. (\E d \in commits' : u \in Range(d.batch) /\ d.at \in Unretired)
              <=> \E d \in commits : u \in Range(d.batch) /\ d.at \in Unretired
        BY <2>1, <3>2
      <4>. QED
        BY <2>1, <4>1, <4>2 DEF RecordInv, Recorded, Logged
    <3>. QED
      BY <3>1, <3>2
  <2>5. \A u \in Transaction : Published(u)' <=> Published(u)
      BY <2>1, <2>2 DEF Published, Logged
  <2>6. ASSUME NEW k \in Key PROVE PendingPublished(k)' /\ StoredBy(k)'
    <3>1. pending_commit_table[k] # None => pending_commit_table[k] \in Transaction
      BY DEF RecordInv, RecordTyped, PendingCommitTable
    <3>2. PendingPublished(k)'
      BY <2>1, <2>5, <3>1 DEF RecordInv, PendingPublished, Changes, work
    <3>3. \A d \in commits : d.at \in {"failed", "buffer", "retire"} => d \in commits'
      BY <2>1
    <3>4. StoredBy(k)'
      BY <2>1, <3>3 DEF RecordInv, StoredBy, Retired, Logged, Holds, Changes, work
    <3>. QED
      BY <3>2, <3>4
  <2>7. DirtyReadsAreDependencies'
      BY <2>1, <1>ReadsStay DEF RecordInv
  <2>. QED
      BY <2>3, <2>4, <2>6, <2>7 DEF RecordInv

<1>. SUFFICES ASSUME LockInv, RecordInv, [Next]_vars PROVE RecordInv'
    OBVIOUS
<1>1. CASE \E tx \in Transaction :
              callGet(tx) \/ getStep(tx) \/ prepare(tx) \/ prepareStep(tx)
                 \/ abort(tx) \/ abortRelease(tx)
    BY <1>1, <1>HandlerStepsRecords, <1>GetRecords, <1>PublishRecords, <1>AppendRecords
       DEF getStep, prepareStep, preparePublish
<1>2. CASE callCommit
    BY <1>2, <1>CommitRecords DEF callCommit
<1>3. CASE commitStep
  <2>. PICK c \in commits : \/ commitCollect(c) \/ commitUpsert(c) \/ commitBuffer(c)
                            \/ commitRetire(c) \/ commitCheckHolder(c) \/ commitRelease(c)
                            \/ commitClean(c)
    BY <1>3 DEF commitStep
  <2>1. CASE commitCollect(c) \/ commitCheckHolder(c) \/ commitRelease(c)
    <3>1. UNCHANGED <<scenario, handlerVars, pendingVars, storeVars, wal>>
      BY <2>1 DEF commitCollect, commitCheckHolder, commitRelease
    <3>2. \E there : /\ Advance(c, there)
                     /\ \/ c.at = "collect" /\ there \in {"upsert", "panicked"}
                        \/ c.at \in {"holder", "release"} /\ there \in {"release", "clean"}
      BY <2>1 DEF commitCollect, commitCheckHolder, commitRelease
    <3>. QED
      BY <3>1, <3>2, <1>CallRecords
  <2>. QED
    BY <2>1, <1>UpsertRecords, <1>BufferRecords, <1>RetireRecords, <1>CleanRecords
<1>4. CASE UNCHANGED vars
  <2>1. /\ UNCHANGED <<scenario, wal, pendingVars, storeVars, commits>>
        /\ UNCHANGED <<pc, from, dependencies, applied>>
    BY <1>4 DEF vars, handlerVars, storeVars
  <2>2. DirtyReadsAreDependencies'
    BY <2>1, <1>ReadsStay DEF RecordInv
  <2>3. DOMAIN dependencies' = Transaction
    BY <2>1 DEF RecordInv, RecordTyped
  <2>. QED
    BY <2>1, <2>2, <2>3, <1>RecordsStay
<1>. QED
    BY <1>1, <1>2, <1>3, <1>4 DEF Next, Idle

LEMMA RecordInvHolds == Spec => [](LockInv /\ RecordInv)
<1>1. Init => RecordInv
    BY InitRecords
<1>2. LockInv /\ RecordInv /\ [Next]_vars => RecordInv'
    BY NextRecords
<1>. QED
    BY <1>1, <1>2, LockInvHolds, PTL DEF Spec

(* A value read before its writer reached storage makes the writer a       *)
(* dependency: get returns what the pending table names together with the  *)
(* dependency, and reads storage and the buffer only for what a commit has *)
(* written there.                                                          *)
THEOREM DirtyReadsAreDependenciesHolds == Spec => []DirtyReadsAreDependencies
<1>1. RecordInv => DirtyReadsAreDependencies
    BY DEF RecordInv
<1>. QED
    BY <1>1, RecordInvHolds, PTL

---------------------------------------------------------------------------
(* The write-ahead log *)

(* A batch has been prepared.                                              *)
LEMMA BatchPrepared ==
    ASSUME NEW b \in Batches, MayCommit(b), NEW tx \in Range(b)
    PROVE  pc[tx] = "prepared" /\ aborting[tx] = "no"
<1>1. DOMAIN b = 1..Len(b)
    BY BatchesAreSequences, SMTT(30)
<1>. QED
    BY <1>1 DEF MayCommit, Range

(* An abort that overtook a call stays one.                                *)
LEMMA OvertakenStays ==
    ASSUME LockInv, [Next]_vars, NEW u \in Transaction
    PROVE  /\ AbortedInCall(u) => AbortedInCall(u)'
           /\ released_lock_early[u] => released_lock_early'[u]
           /\ pc[u] = "committed" => pc'[u] = "committed"
<1>1. /\ aborting[u] # "no" => pc[u] # "committing"
      /\ released_lock_early[u] => pc[u] \in {"flush", "prepared", "committing", "committed"}
    BY DEF LockInv, Local
<1>2. /\ DOMAIN pc = Transaction /\ DOMAIN aborting = Transaction
      /\ DOMAIN released_lock_early = Transaction
    BY DEF LockInv, Typed
<1>3. CASE \E tx \in Transaction :
              callGet(tx) \/ getStep(tx) \/ prepare(tx)
                 \/ abort(tx) \/ abortRelease(tx)
  <2>1. PICK tx \in Transaction : callGet(tx) \/ getStep(tx) \/ prepare(tx)
                 \/ abort(tx) \/ abortRelease(tx)
    BY <1>3
  <2>2. CASE callGet(tx) \/ getStep(tx) \/ prepare(tx)
    <3>1. pc[tx] \in {"active", "get", "getStorage"} /\ UNCHANGED <<aborting, released_lock_early>>
      BY <2>2 DEF callGet, get, getStep, getPending, getStorage, prepare
    <3>2. \A v \in Transaction \ {tx} : pc'[v] = pc[v]
      BY <1>2, <2>2 DEF callGet, get, getStep, getPending, getStorage, prepare, ReadFrom, Goto
    <3>3. pc'[tx] = "active" => aborting[tx] = "no"
      BY <1>2, <2>2 DEF callGet, get, getStep, getPending, getStorage, prepare, ReadFrom, Goto
    <3>. QED
      BY <1>1, <3>1, <3>2, <3>3 DEF AbortedInCall
  <2>3. CASE abort(tx) \/ abortRelease(tx)
    <3>1. UNCHANGED <<pc, released_lock_early>>
      BY <2>3 DEF abort, abortRelease, handlerVars
    <3>2. aborting'[u] = aborting[u] \/ aborting'[u] \in {"release", "done"}
      BY <1>2, <2>3 DEF abort, abortRelease
    <3>. QED
      BY <3>1, <3>2 DEF AbortedInCall
  <2>. QED
    BY <2>1, <2>2, <2>3
<1>4. CASE \E tx \in Transaction : prepareStep(tx)
  <2>1. PICK tx \in Transaction : prepareStep(tx)
    BY <1>4
  <2>2. UNCHANGED aborting
    BY <2>1 DEF prepareStep, prepareReadOnly, prepareAcquire, prepareDecide, preparePublish,
       publish, prepareAppend, prepareRelease, prepareFlushed
  <2>3. \/ pc' = pc
        \/ \E p \in {"committed", "decide", "append", "release", "flush", "prepared"} :
              pc' = [pc EXCEPT ![tx] = p]
    BY <2>1 DEF prepareStep, prepareReadOnly, prepareAcquire, prepareDecide, preparePublish,
       publish, prepareAppend, prepareRelease, prepareFlushed, Goto
  <2>4. pc'[u] = pc[u] \/ pc'[u] # "active"
    BY <1>2, <2>3
  <2>6. pc[u] = "committed" => pc'[u] = "committed"
    <3>1. pc[tx] # "committed"
      BY <2>1 DEF prepareStep, prepareReadOnly, prepareAcquire, prepareDecide, preparePublish,
         publish, prepareAppend, prepareRelease, prepareFlushed
    <3>. QED
      BY <1>2, <2>3, <3>1
  <2>5. \/ released_lock_early' = released_lock_early
        \/ pc[tx] = "release" /\ \A v \in Transaction \ {tx} :
                                    released_lock_early'[v] = released_lock_early[v]
    BY <1>2, <2>1 DEF prepareStep, prepareReadOnly, prepareAcquire, prepareDecide, preparePublish,
       publish, prepareAppend, prepareRelease, prepareFlushed
  <2>. QED
    BY <1>1, <2>2, <2>4, <2>5, <2>6 DEF AbortedInCall
<1>5. CASE callCommit \/ commitStep
  <2>1. UNCHANGED <<aborting, released_lock_early>>
    BY <1>5 DEF callCommit, commit, commitStep, commitCollect, commitUpsert, commitBuffer,
       commitRetire, commitCheckHolder, commitRelease, commitClean, handlerVars
  <2>2. pc'[u] = pc[u] \/ pc'[u] \in {"committing", "committed"}
    BY <1>5 DEF callCommit, commit, commitStep, commitCollect, commitUpsert, commitBuffer,
       commitRetire, commitCheckHolder, commitRelease, commitClean, handlerVars
  <2>3. pc[u] = "committed" => pc'[u] = "committed"
    <3>1. CASE callCommit
      <4>1. PICK b \in Batches : commit(b) /\ MayCommit(b)
        BY <3>1 DEF callCommit, commit
      <4>2. u \in Range(b) => pc[u] = "prepared"
        BY <4>1, BatchPrepared
      <4>. QED
        BY <4>1, <4>2 DEF commit
    <3>2. CASE commitStep
      BY <3>2 DEF commitStep, commitCollect, commitUpsert, commitBuffer,
         commitRetire, commitCheckHolder, commitRelease, commitClean, handlerVars
    <3>. QED
      BY <1>5, <3>1, <3>2
  <2>. QED
    BY <2>1, <2>2, <2>3 DEF AbortedInCall
<1>6. CASE UNCHANGED vars
    BY <1>6 DEF vars, handlerVars, AbortedInCall
<1>. QED
    BY <1>3, <1>4, <1>5, <1>6 DEF Next, Idle

(* The two steps that find dependencies                                    *)
LEMMA DependencySteps ==
    ASSUME [Next]_vars
    PROVE  \/ dependencies' = dependencies
           \/ \E tx \in Transaction : getPending(tx) \/ publish(tx)
<1>1. CASE \E tx \in Transaction :
              callGet(tx) \/ getStorage(tx) \/ prepare(tx) \/ abort(tx) \/ abortRelease(tx)
    BY <1>1 DEF callGet, get, getStorage, prepare, abort, abortRelease, handlerVars
<1>2. CASE \E tx \in Transaction :
              prepareReadOnly(tx) \/ prepareAcquire(tx) \/ (\E k \in Key : prepareDecide(tx, k))
                 \/ prepareAppend(tx) \/ prepareRelease(tx) \/ prepareFlushed(tx)
    BY <1>2 DEF prepareReadOnly, prepareAcquire, prepareDecide, prepareAppend, prepareRelease,
       prepareFlushed
<1>3. CASE callCommit \/ commitStep
    BY <1>3 DEF callCommit, commit, commitStep, commitCollect, commitUpsert, commitBuffer,
       commitRetire, commitCheckHolder, commitRelease, commitClean, handlerVars
<1>4. CASE UNCHANGED vars
    BY <1>4 DEF vars, handlerVars
<1>. QED
    BY <1>1, <1>2, <1>3, <1>4 DEF Next, Idle, getStep, prepareStep, preparePublish

LEMMA NewDependency ==
    ASSUME LockInv, RecordInv, [Next]_vars, NEW tx \in Transaction,
           NEW d \in dependencies'[tx], d \notin dependencies[tx]
    PROVE  /\ pc[tx] \in {"get", "decide"} /\ Request(tx) \in granted
           /\ d \in Transaction /\ Published(d)
<1>1. PICK t \in Transaction : getPending(t) \/ publish(t)
    BY DependencySteps
<1>2. pc[t] \in {"get", "decide"} /\ Request(t) \in granted
    BY <1>1 DEF getPending, publish
<1>3. DOMAIN dependencies = Transaction
    BY DEF RecordInv, RecordTyped
<1>4. tx = t /\ d # None /\ \E k \in Key : d = pending_commit_table[k]
  <2>1. CASE getPending(t)
    <3>1. key[t] \in Key
      BY <1>2, <2>1, WorkTyped DEF getPending, LockInv, Local
    <3>2. \/ dependencies' = dependencies
          \/ /\ pending_commit_table[key[t]] # None
             /\ dependencies' = [dependencies EXCEPT
                   ![t] = readDependencies(@, pending_commit_table[key[t]])]
      BY <2>1 DEF getPending
    <3>3. /\ \A u \in Transaction \ {t} : dependencies'[u] = dependencies[u]
          /\ \/ dependencies'[t] = dependencies[t]
             \/ /\ pending_commit_table[key[t]] # None
                /\ dependencies'[t] = dependencies[t] \cup {pending_commit_table[key[t]]}
      BY <1>3, <3>2 DEF readDependencies
    <3>4. tx = t /\ d = pending_commit_table[key[t]] /\ d # None
      BY <3>3
    <3>. QED
      BY <3>1, <3>4
  <2>2. CASE publish(t)
    <3>1. \/ dependencies' = dependencies
          \/ dependencies' = [dependencies EXCEPT
                ![t] = @ \cup writeDependencies(pending_commit_table, Changes(t))]
      BY <2>2 DEF publish
    <3>2. Changes(t) \subseteq Key
      BY WorkTyped DEF LockInv
    <3>3. /\ \A u \in Transaction \ {t} : dependencies'[u] = dependencies[u]
          /\ \/ dependencies'[t] = dependencies[t]
             \/ dependencies'[t] = dependencies[t]
                   \cup writeDependencies(pending_commit_table, Changes(t))
      BY <1>3, <3>1
    <3>4. tx = t /\ d \in writeDependencies(pending_commit_table, Changes(t))
      BY <3>3
    <3>. QED
      BY <3>2, <3>4 DEF writeDependencies
  <2>. QED
    BY <1>1, <2>1, <2>2
<1>5. d \in Transaction /\ Published(d)
    BY <1>4 DEF RecordInv, RecordTyped, PendingCommitTable, PendingPublished
<1>. QED
    BY <1>2, <1>4, <1>5

LEMMA LogSteps ==
    ASSUME [Next]_vars
    PROVE  wal' = wal \/ \E tx \in Transaction : prepareAppend(tx)
<1>1. CASE \E tx \in Transaction :
              callGet(tx) \/ getStep(tx) \/ prepare(tx) \/ abort(tx) \/ abortRelease(tx)
    BY <1>1 DEF callGet, get, getStep, getPending, getStorage, prepare, abort, abortRelease
<1>2. CASE \E tx \in Transaction :
              prepareReadOnly(tx) \/ prepareAcquire(tx) \/ (\E k \in Key : prepareDecide(tx, k))
                 \/ preparePublish(tx) \/ prepareRelease(tx) \/ prepareFlushed(tx)
    BY <1>2 DEF prepareReadOnly, prepareAcquire, prepareDecide, preparePublish, publish,
       prepareRelease, prepareFlushed
<1>3. CASE callCommit \/ commitStep
    BY <1>3 DEF callCommit, commit, commitStep, commitCollect, commitUpsert, commitBuffer,
       commitRetire, commitCheckHolder, commitRelease, commitClean
<1>4. CASE UNCHANGED vars
    BY <1>4 DEF vars
<1>. QED
    BY <1>1, <1>2, <1>3, <1>4 DEF Next, Idle, prepareStep

(* Whoever publishes next finds the log complete.                          *)
LEMMA DependencyIsLogged ==
    ASSUME LockInv, Exclusive, NEW tx \in Transaction, NEW d \in Transaction,
           pc[tx] \in {"get", "decide"}, Request(tx) \in granted, Published(d)
    PROVE  AbortedInCall(tx) \/ AbortedInCall(d) \/ Logged(d)
<1>. SUFFICES ASSUME ~AbortedInCall(tx), ~AbortedInCall(d), pc[d] = "append"
              PROVE  FALSE
    BY DEF Published
<1>1. aborting[tx] = "no" /\ aborting[d] = "no"
    BY DEF AbortedInCall
<1>2. InCriticalSection(tx) /\ InCriticalSection(d)
    BY <1>1 DEF InCriticalSection
<1>. QED
    BY <1>2 DEF Exclusive

LEMMA NextWal == LockInv /\ RecordInv /\ WalInv /\ [Next]_vars => WalInv'
<1>. SUFFICES ASSUME LockInv, RecordInv, WalInv, [Next]_vars PROVE WalInv'
    OBVIOUS
<1>1. ASSUME NEW tx \in Transaction PROVE dependencies'[tx] \subseteq Transaction
    BY NewDependency DEF WalInv
<1>. SUFFICES ASSUME ~LockStolen' PROVE DependenciesLogged' /\ WalFollowsDependencies'
    BY <1>1 DEF WalInv
<1>. DEFINE Overtaken(u) == aborting'[u] # "no" /\ pc'[u] # "active"
<1>2. \A u \in Transaction : AbortedInCall(u) => Overtaken(u)
    BY OvertakenStays DEF AbortedInCall
<1>3. ~LockStolen /\ Exclusive /\ DependenciesLogged /\ WalFollowsDependencies
    BY OvertakenStays, StolenStays DEF WalInv, LockInv
<1>4. /\ Len(wal) \in Nat /\ DOMAIN wal = 1..Len(wal)
      /\ \A i \in 1..Len(wal) : wal[i] \in Transaction /\ Logged(wal[i])
  <2>1. wal \in Seq(Transaction)
    BY DEF RecordInv, RecordTyped
  <2>2. Len(wal) \in Nat /\ DOMAIN wal = 1..Len(wal) /\ \A i \in 1..Len(wal) : wal[i] \in Transaction
    BY <2>1, SMTT(30)
  <2>. QED
    BY <2>1, <2>2 DEF Logged, Range
<1>5. ASSUME NEW tx \in Transaction, NEW d \in dependencies'[tx]
      PROVE  /\ d \in dependencies[tx] \/ ~Logged(tx)
             /\ AbortedInCall(tx) \/ AbortedInCall(d) \/ Logged(d)
  <2>1. CASE d \in dependencies[tx]
    BY <1>3, <2>1 DEF DependenciesLogged
  <2>2. CASE d \notin dependencies[tx]
    <3>1. /\ pc[tx] \in {"get", "decide"} /\ Request(tx) \in granted
          /\ d \in Transaction /\ Published(d)
      BY <2>2, NewDependency
    <3>2. ~Logged(tx)
      BY <3>1 DEF RecordInv, Recorded
    <3>. QED
      BY <1>3, <3>1, <3>2, DependencyIsLogged
  <2>. QED
    BY <2>1, <2>2
<1>6. CASE wal' = wal
  <2>1. DependenciesLogged'
    BY <1>1, <1>2, <1>5, <1>6 DEF DependenciesLogged, Logged, AbortedInCall
  <2>2. ASSUME NEW i \in 1..Len(wal), NEW d \in dependencies'[wal[i]]
        PROVE  \/ Overtaken(wal[i]) \/ Overtaken(d)
               \/ \E j \in 1..(i - 1) : wal[j] = d
    <3>1. d \in dependencies[wal[i]] /\ wal[i] \in Transaction /\ d \in Transaction
      BY <1>1, <1>4, <1>5
    <3>2. \/ AbortedInCall(wal[i]) \/ AbortedInCall(d) \/ \E j \in 1..(i - 1) : wal[j] = d
      BY <1>3, <3>1 DEF WalFollowsDependencies
    <3>. QED
      BY <1>2, <3>1, <3>2
  <2>3. WalFollowsDependencies'
    BY <1>6, <2>2 DEF WalFollowsDependencies, AbortedInCall
  <2>. QED
    BY <2>1, <2>3
<1>7. ASSUME NEW t \in Transaction, prepareAppend(t)
      PROVE  DependenciesLogged' /\ WalFollowsDependencies'
  <2>1. /\ \A u : Logged(u)' <=> Logged(u) \/ u = t
        /\ Len(wal') = Len(wal) + 1 /\ wal'[Len(wal) + 1] = t
        /\ \A i \in 1..Len(wal) : wal'[i] = wal[i]
        /\ dependencies' = dependencies
    BY <1>7, Appends
  <2>2. DependenciesLogged'
    BY <1>1, <1>2, <1>5, <2>1 DEF DependenciesLogged, AbortedInCall
  <2>3. ASSUME NEW i \in 1..Len(wal'), NEW d \in dependencies'[wal'[i]]
        PROVE  \/ Overtaken(wal'[i]) \/ Overtaken(d)
               \/ \E j \in 1..(i - 1) : wal'[j] = d
    <3>1. i \in 1..Len(wal) \/ i = Len(wal) + 1
      BY <1>4, <2>1, SMTT(30)
    <3>2. CASE i \in 1..Len(wal)
      <4>1. wal'[i] = wal[i] /\ wal[i] \in Transaction /\ d \in Transaction /\ d \in dependencies[wal[i]]
        BY <1>1, <1>4, <2>1, <3>2
      <4>2. \/ AbortedInCall(wal[i]) \/ AbortedInCall(d) \/ \E j \in 1..(i - 1) : wal[j] = d
        BY <1>3, <3>2, <4>1 DEF WalFollowsDependencies
      <4>3. \A j \in 1..(i - 1) : j \in 1..Len(wal)
        BY <1>4, <3>2, SMTT(30)
      <4>. QED
        BY <1>2, <2>1, <4>1, <4>2, <4>3
    <3>3. CASE i = Len(wal) + 1
      <4>1. wal'[i] = t /\ d \in Transaction
        BY <1>1, <2>1, <3>3
      <4>2. AbortedInCall(t) \/ AbortedInCall(d) \/ Logged(d)
        BY <1>5, <4>1
      <4>3. Logged(d) => \E j \in 1..Len(wal) : wal[j] = d
        BY <1>4 DEF Logged, Range
      <4>4. i - 1 = Len(wal)
        BY <1>4, <3>3, SMTT(30)
      <4>. QED
        BY <1>2, <2>1, <4>1, <4>2, <4>3, <4>4
    <3>. QED
      BY <3>1, <3>2, <3>3
  <2>4. WalFollowsDependencies'
    BY <2>3 DEF WalFollowsDependencies, AbortedInCall
  <2>. QED
    BY <2>2, <2>4
<1>. QED
    BY <1>6, <1>7, LogSteps

LEMMA InitWal == Init => WalInv
<1>. SUFFICES ASSUME Init PROVE WalInv
    OBVIOUS
<1>1. 1..Len(<< >>) = {}
    BY SMTT(30)
<1>. QED
    BY <1>1 DEF Init, WalInv, DependenciesLogged, WalFollowsDependencies

LEMMA WalInvHolds == Spec => [](LockInv /\ RecordInv /\ WalInv)
<1>1. Init => WalInv
    BY InitWal
<1>2. LockInv /\ RecordInv /\ WalInv /\ [Next]_vars => WalInv'
    BY NextWal
<1>. QED
    BY <1>1, <1>2, RecordInvHolds, PTL DEF Spec

(* The log holds a prepare record after the records of the transactions it *)
(* depends on: a dependency is found under the lock, which its writer gave *)
(* up after its own record was appended.                                   *)
THEOREM WalFollowsDependenciesHolds == Spec => []WalFollowsDependencies
<1>1. WalInv => WalFollowsDependencies
    BY DEF WalInv, WalFollowsDependencies
<1>. QED
    BY <1>1, WalInvHolds, PTL

---------------------------------------------------------------------------
(* The order in which the changes of a key are published, when no abort    *)
(* has overtaken a prepare.                                                *)

(* The decisions of a transaction for its keys are the same.  The lock is  *)
(* released by the decision for one key, the pending table written by the  *)
(* decision for each.  The heuristic that counts waiters may change its    *)
(* mind from one key to the next.                                          *)
EvenDecisions ==
    \/ strategy # "Adaptive"
    \/ scenario.heuristic = "OpenClients"
    \/ \A tx \in Transaction : \A j, k \in Changes(tx) : j = k

Even(tx) ==
    /\ pc[tx] \notin {"decide", "append", "release", "flush"} => early[tx] = << >>
    /\ \A k \in DOMAIN early[tx] :
          /\ strategy = "Pipelined" => early[tx][k]
          /\ strategy = "Traditional" => ~early[tx][k]
          /\ strategy = "Adaptive" /\ scenario.heuristic = "OpenClients" =>
                early[tx][k] = thresholds(request[tx].load, request[tx].clients,
                                          ClientsMid, ClientsHigh)

(* u published before t did.                                               *)
Precedes(u, t) ==
    \/ Logged(u) /\ pc[t] = "append"
    \/ \E i, j \in 1..Len(wal) : i < j /\ wal[i] = u /\ wal[j] = t

Changers(k) == {tx \in Transaction : Published(tx) /\ k \in Changes(tx)}

(* tx has published, and keeps the lock until its commit.                  *)
Keeps(tx, k) ==
    \/ pc[tx] \in {"append", "release"} /\ ~early[tx][k]
    \/ pc[tx] \in {"flush", "prepared", "committing"} /\ ~released_lock_early[tx]

(* A pending entry names the last transaction to have published a change   *)
(* of the key, and its record is there.                                    *)
PendingIsLast(k) ==
    LET last == pending_commit_table[k]
    IN  last # None => /\ last \in pending_prepare_records /\ strategy # "Traditional"
                       /\ \A tx \in Changers(k) : tx = last \/ Precedes(tx, last)

(* The change of the key is out of the way: its call has retired it or,    *)
(* where calls overlap, has been sent.                                     *)
Done(tx, k) == Retired(tx) \/ (k \in overlapped /\ Sent(tx))

(* After a change that is not done comes one that is pending, or whose     *)
(* transaction keeps the lock.                                             *)
PendingOrKept(k) ==
    \A tx \in Changers(k) : Done(tx, k) \/
       \E last \in Changers(k) :
          /\ last = tx \/ Precedes(tx, last)
          /\ last \in pending_prepare_records
          /\ pending_commit_table[k] = last \/ Keeps(last, k)

(* A transaction depends on the changes published before its own, or on    *)
(* one that follows them.                                                  *)
DependsOnChangers(k) ==
    \A tx \in Changers(k) : \A u \in Changers(k) : Precedes(u, tx) =>
       Done(u, k) \/ \E v \in dependencies[tx] \cap Changers(k) : u = v \/ Precedes(u, v)

(* One call commits u, and tx after it.                                    *)
Batched(u, tx) ==
    \E c \in commits : \E i, j \in 1..Len(c.batch) : i < j /\ c.batch[i] = u /\ c.batch[j] = tx

(* Changes are committed in the order of publication.                      *)
CommitsInOrder(k) ==
    \A tx \in Changers(k) : Sent(tx) => \A u \in Changers(k) : Precedes(u, tx) =>
       (Done(u, k) \/ Batched(u, tx)) /\ ~Batched(tx, u)

InOrder(k) == PendingIsLast(k) /\ PendingOrKept(k) /\ DependsOnChangers(k) /\ CommitsInOrder(k)

OrderInv ==
    /\ DOMAIN request = Transaction
    /\ EvenDecisions /\ \A tx \in Transaction : Even(tx)
    /\ NoneOvertaken => \A k \in Key : InOrder(k)

---------------------------------------------------------------------------
(* What each step leaves alone                                             *)

LEMMA Moves ==
    ASSUME LockInv, [Next]_vars, NEW u \in Transaction
    PROVE  \/ pc'[u] = pc[u]
           \/ /\ pc[u] \in {"active", "get", "getStorage", "releaseReadOnly"}
              /\ pc'[u] \in {"active", "get", "getStorage", "dropped", "panicked", "lockLost",
                             "releaseReadOnly", "acquire", "committed"}
           \/ pc[u] = "acquire" /\ pc'[u] = "decide"
           \/ pc[u] = "decide" /\ pc'[u] = "append" /\ preparePublish(u)
           \/ pc[u] = "append" /\ pc'[u] = "release" /\ prepareAppend(u)
           \/ pc[u] = "release" /\ pc'[u] = "flush" /\ prepareRelease(u)
           \/ pc[u] = "flush" /\ pc'[u] = "prepared" /\ prepareFlushed(u)
           \/ /\ pc[u] = "prepared" /\ pc'[u] = "committing"
              /\ \E batch \in Batches : commit(batch) /\ u \in Range(batch)
           \/ /\ pc[u] = "committing" /\ pc'[u] = "committed"
              /\ \E c \in commits : commitClean(c) /\ u \in Range(c.batch)
<1>1. DOMAIN pc = Transaction
    BY DEF LockInv, Typed
<1>2. ASSUME NEW tx \in Transaction, callGet(tx) \/ getStep(tx) \/ prepare(tx) \/ prepareReadOnly(tx)
      PROVE  \/ pc'[u] = pc[u]
             \/ /\ pc[u] \in {"active", "get", "getStorage", "releaseReadOnly"}
                /\ pc'[u] \in {"active", "get", "getStorage", "dropped", "panicked", "lockLost",
                               "releaseReadOnly", "acquire", "committed"}
  <2>1. pc[tx] \in {"active", "get", "getStorage", "releaseReadOnly"}
    BY <1>2 DEF callGet, get, getStep, getPending, getStorage, prepare, prepareReadOnly
  <2>2. \E p \in {"active", "get", "getStorage", "dropped", "panicked", "lockLost",
                  "releaseReadOnly", "acquire", "committed"} : pc' = [pc EXCEPT ![tx] = p]
    BY <1>2 DEF callGet, get, getStep, getPending, getStorage, prepare, prepareReadOnly, ReadFrom,
       Goto
  <2>. QED
    BY <1>1, <2>1, <2>2
<1>3. ASSUME NEW tx \in Transaction,
             abort(tx) \/ abortRelease(tx) \/ \E k \in Key : prepareDecide(tx, k)
      PROVE  pc'[u] = pc[u]
    BY <1>3 DEF abort, abortRelease, prepareDecide, handlerVars
<1>4. ASSUME NEW tx \in Transaction, prepareAcquire(tx) \/ preparePublish(tx) \/ prepareAppend(tx)
                                        \/ prepareRelease(tx) \/ prepareFlushed(tx)
      PROVE  \/ pc'[u] = pc[u]
             \/ pc[u] = "acquire" /\ pc'[u] = "decide"
             \/ pc[u] = "decide" /\ pc'[u] = "append" /\ preparePublish(u)
             \/ pc[u] = "append" /\ pc'[u] = "release" /\ prepareAppend(u)
             \/ pc[u] = "release" /\ pc'[u] = "flush" /\ prepareRelease(u)
             \/ pc[u] = "flush" /\ pc'[u] = "prepared" /\ prepareFlushed(u)
  <2>1. \/ pc[tx] = "acquire" /\ pc' = [pc EXCEPT ![tx] = "decide"]
        \/ pc[tx] = "decide" /\ pc' = [pc EXCEPT ![tx] = "append"] /\ preparePublish(tx)
        \/ pc[tx] = "append" /\ pc' = [pc EXCEPT ![tx] = "release"] /\ prepareAppend(tx)
        \/ pc[tx] = "release" /\ pc' = [pc EXCEPT ![tx] = "flush"] /\ prepareRelease(tx)
        \/ pc[tx] = "flush" /\ pc' = [pc EXCEPT ![tx] = "prepared"] /\ prepareFlushed(tx)
    BY <1>4, ZenonT(40) DEF prepareAcquire, preparePublish, publish, prepareAppend, prepareRelease,
       prepareFlushed, Goto
  <2>. QED
    BY <1>1, <2>1
<1>5. ASSUME NEW batch \in Batches, commit(batch)
      PROVE  pc'[u] = pc[u] \/ /\ pc[u] = "prepared" /\ pc'[u] = "committing"
                               /\ u \in Range(batch)
  <2>1. batch \in Seq(Transaction)
    BY BatchesAreSequences
  <2>2. DOMAIN batch = 1..Len(batch)
    BY <2>1, SMTT(30)
  <2>3. \A tx \in Range(batch) : pc[tx] = "prepared"
    BY <1>5, <2>2 DEF commit, MayCommit, Range
  <2>4. pc'[u] = IF u \in Range(batch) THEN "committing" ELSE pc[u]
    BY <1>5 DEF commit
  <2>. QED
    BY <2>3, <2>4
<1>6. ASSUME NEW c \in commits,
             \/ commitCollect(c) \/ commitUpsert(c) \/ commitBuffer(c) \/ commitRetire(c)
             \/ commitCheckHolder(c) \/ commitRelease(c)
      PROVE  pc'[u] = pc[u]
    BY <1>6 DEF commitCollect, commitUpsert, commitBuffer, commitRetire, commitCheckHolder,
       commitRelease, handlerVars
<1>7. ASSUME NEW c \in commits, commitClean(c)
      PROVE  pc'[u] = pc[u] \/ /\ pc[u] = "committing" /\ pc'[u] = "committed"
                               /\ u \in Range(c.batch)
  <2>1. pc'[u] = IF u \in Range(c.batch) THEN "committed" ELSE pc[u]
    BY <1>7 DEF commitClean
  <2>. QED
    BY <2>1 DEF LockInv, Calls
<1>8. CASE UNCHANGED vars
    BY <1>8 DEF vars, handlerVars
<1>9. CASE \E tx \in Transaction : callGet(tx) \/ getStep(tx) \/ prepare(tx) \/ prepareStep(tx)
                                      \/ abort(tx) \/ abortRelease(tx)
  <2>. PICK tx \in Transaction : callGet(tx) \/ getStep(tx) \/ prepare(tx) \/ prepareStep(tx)
                                      \/ abort(tx) \/ abortRelease(tx)
    BY <1>9
  <2>1. CASE callGet(tx) \/ getStep(tx) \/ prepare(tx) \/ prepareReadOnly(tx)
    BY <1>2, <2>1
  <2>2. CASE abort(tx) \/ abortRelease(tx) \/ \E k \in Key : prepareDecide(tx, k)
    BY <1>3, <2>2
  <2>3. CASE prepareAcquire(tx) \/ preparePublish(tx) \/ prepareAppend(tx)
                                        \/ prepareRelease(tx) \/ prepareFlushed(tx)
    BY <1>4, <2>3
  <2>. QED
    BY <2>1, <2>2, <2>3 DEF prepareStep
<1>10. CASE callCommit
    BY <1>5, <1>10 DEF callCommit
<1>11. CASE commitStep
    BY <1>6, <1>7, <1>11 DEF commitStep
<1>. QED
    BY <1>8, <1>9, <1>10, <1>11 DEF Next, Idle

(* The steps that change the pending table, the handlers' decisions and    *)
(* what storage holds                                                      *)
LEMMA Writers ==
    ASSUME LockInv, [Next]_vars
    PROVE  /\ scenario' = scenario
           /\ \/ UNCHANGED pendingVars
              \/ \E tx \in Transaction : preparePublish(tx)
              \/ \E c \in commits : commitRetire(c)
           /\ \/ applied' = applied
              \/ \E c \in commits : commitUpsert(c)
           /\ \/ buffer' = buffer
              \/ \E c \in commits : commitBuffer(c)
           /\ \/ from' = from
              \/ \E tx \in Transaction : getPending(tx) \/ getStorage(tx)
           /\ \/ key' = key
              \/ \E tx \in Transaction : callGet(tx)
           /\ \/ released_lock_early' = released_lock_early
              \/ \E tx \in Transaction : prepareRelease(tx)
           /\ \/ early' = early
              \/ \E tx \in Transaction : \E k \in Key : prepareDecide(tx, k)
              \/ \E tx \in Transaction : prepareFlushed(tx)
           /\ \/ request' = request
              \/ \E tx \in Transaction : prepare(tx)
              \/ \E tx \in Transaction : prepareFlushed(tx)
           /\ \/ panicked' = panicked
              \/ \E tx \in Transaction : getPending(tx)
              \/ \E c \in commits : commitCollect(c)
<1>1. CASE \E tx \in Transaction : callGet(tx) \/ getStep(tx) \/ prepare(tx)
                                      \/ abort(tx) \/ abortRelease(tx)
    BY <1>1 DEF callGet, get, getStep, getPending, getStorage, prepare, abort, abortRelease,
       handlerVars, storeVars
<1>2. CASE \E tx \in Transaction : prepareStep(tx)
  <2>. PICK tx \in Transaction : prepareStep(tx)
    BY <1>2
  <2>1. CASE prepareReadOnly(tx) \/ prepareAcquire(tx) \/ prepareAppend(tx)
    BY <2>1 DEF prepareReadOnly, prepareAcquire, prepareAppend, storeVars
  <2>2. CASE \E k \in Key : prepareDecide(tx, k)
    BY <2>2 DEF prepareDecide, storeVars
  <2>3. CASE preparePublish(tx)
    BY <2>3 DEF preparePublish, publish, storeVars
  <2>4. CASE prepareRelease(tx) \/ prepareFlushed(tx)
    BY <2>4 DEF prepareRelease, prepareFlushed, storeVars
  <2>. QED
    BY <2>1, <2>2, <2>3, <2>4 DEF prepareStep
<1>3. CASE callCommit
    BY <1>3 DEF callCommit, commit, storeVars
<1>4. CASE commitStep
  <2>. PICK c \in commits : \/ commitCollect(c) \/ commitUpsert(c) \/ commitBuffer(c)
                            \/ commitRetire(c) \/ commitCheckHolder(c) \/ commitRelease(c)
                            \/ commitClean(c)
    BY <1>4 DEF commitStep
  <2>1. CASE commitCollect(c) \/ commitCheckHolder(c) \/ commitRelease(c)
    BY <2>1 DEF commitCollect, commitCheckHolder, commitRelease, handlerVars, storeVars
  <2>2. CASE commitUpsert(c) \/ commitBuffer(c) \/ commitRetire(c)
    BY <2>2 DEF commitUpsert, commitBuffer, commitRetire, handlerVars, storeVars
  <2>3. CASE commitClean(c)
    BY <2>3 DEF commitClean, storeVars
  <2>. QED
    BY <2>1, <2>2, <2>3
<1>5. CASE UNCHANGED vars
    BY <1>5 DEF vars, handlerVars, storeVars
<1>. QED
    BY <1>1, <1>2, <1>3, <1>4, <1>5 DEF Next, Idle

(* A call stays until it is cleaned up.                                    *)
LEMMA CallSteps ==
    ASSUME [Next]_vars
    PROVE  \/ commits' = commits
           \/ \E batch \in Batches : /\ commit(batch)
                                      /\ commits' = commits \cup {[batch |-> batch, at |-> "collect"]}
           \/ \E c \in commits : commitClean(c)
           \/ \E c \in commits, there \in CommitPlace :
                 /\ Advance(c, there) /\ (c.at = "retire" => commitRetire(c))
                 /\ there = "retire" => commitBuffer(c)
<1>1. CASE \E tx \in Transaction : callGet(tx) \/ getStep(tx) \/ prepare(tx)
                                      \/ abort(tx) \/ abortRelease(tx)
    BY <1>1 DEF callGet, get, getStep, getPending, getStorage, prepare, abort, abortRelease
<1>2. CASE \E tx \in Transaction : prepareStep(tx)
    BY <1>2 DEF prepareStep, prepareReadOnly, prepareAcquire, prepareDecide, preparePublish,
       publish, prepareAppend, prepareRelease, prepareFlushed
<1>3. CASE callCommit
    BY <1>3 DEF callCommit, commit
<1>4. CASE commitStep
  <2>. PICK c \in commits : \/ commitCollect(c) \/ commitUpsert(c) \/ commitBuffer(c)
                            \/ commitRetire(c) \/ commitCheckHolder(c) \/ commitRelease(c)
                            \/ commitClean(c)
    BY <1>4 DEF commitStep
  <2>1. CASE commitCollect(c) \/ commitUpsert(c) \/ commitCheckHolder(c) \/ commitRelease(c)
    <3>1. c.at # "retire" /\ \E there \in CommitPlace \ {"retire"} : Advance(c, there)
      BY <2>1 DEF commitCollect, commitUpsert, commitCheckHolder, commitRelease, CommitPlace
    <3>. QED
      BY <3>1
  <2>2. CASE commitBuffer(c)
    <3>1. c.at # "retire" /\ Advance(c, "retire") /\ "retire" \in CommitPlace
      BY <2>2 DEF commitBuffer, CommitPlace
    <3>. QED
      BY <2>2, <3>1
  <2>3. CASE commitRetire(c)
    <3>1. Advance(c, "holder") /\ "holder" \in CommitPlace
      BY <2>3 DEF commitRetire, CommitPlace
    <3>. QED
      BY <2>3, <3>1
  <2>4. CASE commitClean(c)
    BY <2>4
  <2>. QED
    BY <2>1, <2>2, <2>3, <2>4
<1>5. CASE UNCHANGED vars
    BY <1>5 DEF vars
<1>. QED
    BY <1>1, <1>2, <1>3, <1>4, <1>5 DEF Next, Idle

LEMMA CallGoesOn ==
    ASSUME LockInv, [Next]_vars, NEW c \in commits
    PROVE  \/ commitClean(c)
           \/ \E d \in commits' : /\ d.batch = c.batch
                                  /\ c.at = "retire" => d.at = "retire" \/ commitRetire(c)
<1>1. ASSUME NEW d \in commits, commitClean(d)
      PROVE  commitClean(c) \/ c \in commits'
    BY <1>1 DEF commitClean
<1>2. ASSUME NEW d \in commits, NEW there, Advance(d, there), d.at = "retire" => commitRetire(d)
      PROVE  \E e \in commits' : /\ e.batch = c.batch
                                 /\ c.at = "retire" => e.at = "retire" \/ commitRetire(c)
  <2>1. PICK d1 : d1.batch = d.batch /\ d1.at = there /\ commits' = (commits \ {d}) \cup {d1}
    BY <1>2, Advanced
  <2>2. CASE c = d
    BY <1>2, <2>1, <2>2
  <2>3. CASE c # d
    BY <2>1, <2>3
  <2>. QED
    BY <2>2, <2>3
<1>. QED
    BY <1>1, <1>2, CallSteps

LEMMA CallArrives ==
    ASSUME LockInv, [Next]_vars, NEW d \in commits', d.at = "retire"
    PROVE  d \in commits \/ \E c \in commits : commitBuffer(c) /\ d.batch = c.batch
<1>1. ASSUME NEW batch, commits' = commits \cup {[batch |-> batch, at |-> "collect"]}
      PROVE  d \in commits
  <2>1. [batch |-> batch, at |-> "collect"].at = "collect"
    BY SMTT(30)
  <2>. QED
    BY <1>1, <2>1
<1>2. ASSUME NEW c \in commits, NEW there, Advance(c, there), there = "retire" => commitBuffer(c)
      PROVE  d \in commits \/ (commitBuffer(c) /\ d.batch = c.batch)
  <2>1. PICK c1 : c1.batch = c.batch /\ c1.at = there /\ commits' = (commits \ {c}) \cup {c1}
    BY <1>2, Advanced
  <2>. QED
    BY <1>2, <2>1
<1>3. ASSUME NEW c \in commits, commitClean(c) PROVE d \in commits
    BY <1>3 DEF commitClean
<1>. QED
    BY <1>1, <1>2, <1>3, CallSteps

LEMMA CallWasSent ==
    ASSUME LockInv, [Next]_vars, NEW d \in commits'
    PROVE  (\E batch \in Batches : commit(batch)) \/ \E c \in commits : d.batch = c.batch
<1>1. ASSUME NEW c \in commits, NEW there, Advance(c, there)
      PROVE  \E e \in commits : d.batch = e.batch
  <2>1. PICK c1 : c1.batch = c.batch /\ commits' = (commits \ {c}) \cup {c1}
    BY <1>1, Advanced
  <2>. QED
    BY <2>1
<1>2. ASSUME NEW c \in commits, commitClean(c) PROVE d \in commits
    BY <1>2 DEF commitClean
<1>. QED
    BY <1>1, <1>2, CallSteps

(* Only commit sends, and finds calls that overlap.                        *)
LEMMA OverlapSteps ==
    ASSUME [Next]_vars
    PROVE  overlapped' = overlapped \/ \E batch \in Batches : commit(batch)
<1>1. CASE \E tx \in Transaction : callGet(tx) \/ getStep(tx) \/ prepare(tx)
                                      \/ abort(tx) \/ abortRelease(tx)
    BY <1>1 DEF callGet, get, getStep, getPending, getStorage, prepare, abort, abortRelease
<1>2. CASE \E tx \in Transaction : prepareStep(tx)
    BY <1>2 DEF prepareStep, prepareReadOnly, prepareAcquire, prepareDecide, preparePublish,
       publish, prepareAppend, prepareRelease, prepareFlushed
<1>3. CASE callCommit
    BY <1>3 DEF callCommit
<1>4. CASE commitStep
    BY <1>4 DEF commitStep, commitCollect, commitUpsert, commitBuffer, commitRetire,
       commitCheckHolder, commitRelease, commitClean
<1>5. CASE UNCHANGED vars
    BY <1>5 DEF vars
<1>. QED
    BY <1>1, <1>2, <1>3, <1>4, <1>5 DEF Next, Idle

LEMMA OverlapsStay ==
    ASSUME [Next]_vars
    PROVE  overlapped \subseteq overlapped'
BY OverlapSteps DEF commit

---------------------------------------------------------------------------
(* Publication is a total order.                                           *)

LEMMA LogTyped ==
    ASSUME RecordInv
    PROVE  /\ Len(wal) \in Nat /\ DOMAIN wal = 1..Len(wal)
           /\ \A i \in 1..Len(wal) : wal[i] \in Transaction /\ Logged(wal[i])
           /\ \A i, j \in 1..Len(wal) : wal[i] = wal[j] => i = j
           /\ \A u : Logged(u) => u \in Transaction /\ \E i \in 1..Len(wal) : wal[i] = u
<1>1. wal \in Seq(Transaction) /\ IsInjective(wal)
    BY DEF RecordInv, RecordTyped
<1>2. Len(wal) \in Nat /\ DOMAIN wal = 1..Len(wal) /\ \A i \in 1..Len(wal) : wal[i] \in Transaction
    BY <1>1, SMTT(30)
<1>3. \A i, j \in 1..Len(wal) : wal[i] = wal[j] => i = j
    BY <1>1, <1>2 DEF IsInjective
<1>4. \A i \in 1..Len(wal) : Logged(wal[i])
    BY <1>2 DEF Logged, Range
<1>5. \A u : Logged(u) => u \in Transaction /\ \E i \in 1..Len(wal) : wal[i] = u
    BY <1>2 DEF Logged, Range
<1>. QED
    BY <1>2, <1>3, <1>4, <1>5

LEMMA PrecedesStrict ==
    ASSUME RecordInv, NEW u \in Transaction, NEW t \in Transaction, Precedes(u, t)
    PROVE  Logged(u) /\ Published(u) /\ Published(t) /\ u # t
<1>1. CASE Logged(u) /\ pc[t] = "append"
    BY <1>1 DEF RecordInv, Recorded, Published
<1>2. ASSUME NEW i \in 1..Len(wal), NEW j \in 1..Len(wal), i < j, wal[i] = u, wal[j] = t
      PROVE  Logged(u) /\ Logged(t) /\ u # t
  <2>1. i # j
    BY <1>2, LogTyped, SMTT(30)
  <2>. QED
    BY <1>2, <2>1, LogTyped
<1>. QED
    BY <1>1, <1>2 DEF Precedes, Published

LEMMA PrecedesTransitive ==
    ASSUME RecordInv, NEW u \in Transaction, NEW v \in Transaction, NEW t \in Transaction,
           Precedes(u, v), Precedes(v, t)
    PROVE  Precedes(u, t)
<1>1. Logged(u) /\ Logged(v)
    BY PrecedesStrict
<1>2. CASE pc[t] = "append"
    BY <1>1, <1>2 DEF Precedes
<1>3. CASE pc[t] # "append"
  <2>1. pc[v] # "append"
    BY <1>1 DEF RecordInv, Recorded
  <2>2. PICK i, j \in 1..Len(wal) : i < j /\ wal[i] = u /\ wal[j] = v
    BY <2>1 DEF Precedes
  <2>3. PICK m, n \in 1..Len(wal) : m < n /\ wal[m] = v /\ wal[n] = t
    BY <1>3 DEF Precedes
  <2>4. j = m
    BY <2>2, <2>3, LogTyped
  <2>5. i < n
    BY <2>2, <2>3, <2>4, LogTyped, SMTT(30)
  <2>. QED
    BY <2>2, <2>3, <2>5 DEF Precedes
<1>. QED
    BY <1>2, <1>3

LEMMA PrecedesAsymmetric ==
    ASSUME RecordInv, NEW u \in Transaction, NEW t \in Transaction, Precedes(u, t)
    PROVE  ~Precedes(t, u)
BY PrecedesStrict, PrecedesTransitive

(* Without overtaking, a transaction in its critical section is alone.     *)
LEMMA Alone ==
    ASSUME LockInv, NoneOvertaken
    PROVE  /\ Exclusive
           /\ \A u \in Transaction : pc[u] # "active" => aborting[u] = "no"
           /\ \A u \in Transaction : pc[u] \in {"append", "getStorage"} => holder = u
           /\ \A u \in Transaction : pc[u] \in {"get", "decide"} /\ Request(u) \in granted => holder = u
<1>1. Exclusive
    BY DEF LockInv, LockStolen, NoneOvertaken
<1>2. \A u \in Transaction : pc[u] # "active" => aborting[u] = "no"
    BY DEF NoneOvertaken, AbortedInCall
<1>3. \A u \in Transaction : pc[u] \in {"append", "getStorage"} => InCriticalSection(u)
    BY <1>2 DEF InCriticalSection
<1>4. \A u \in Transaction : pc[u] \in {"get", "decide"} /\ Request(u) \in granted
                                => InCriticalSection(u)
    BY <1>2 DEF InCriticalSection
<1>. QED
    BY <1>1, <1>2, <1>3, <1>4 DEF Exclusive

LEMMA PrecedesTotal ==
    ASSUME LockInv, RecordInv, NoneOvertaken, NEW u \in Transaction, NEW t \in Transaction,
           Published(u), Published(t), u # t
    PROVE  Precedes(u, t) \/ Precedes(t, u)
<1>1. ~(pc[u] = "append" /\ pc[t] = "append")
    BY Alone
<1>2. CASE pc[u] = "append"
    BY <1>1, <1>2 DEF Published, Precedes
<1>3. CASE pc[t] = "append"
    BY <1>1, <1>3 DEF Published, Precedes
<1>4. CASE Logged(u) /\ Logged(t)
  <2>1. PICK i, j \in 1..Len(wal) : wal[i] = u /\ wal[j] = t
    BY <1>4, LogTyped
  <2>2. i < j \/ j < i
    BY <2>1, LogTyped, SMTT(30)
  <2>. QED
    BY <2>1, <2>2 DEF Precedes
<1>. QED
    BY <1>2, <1>3, <1>4 DEF Published

---------------------------------------------------------------------------
(* What a step does to the order                                           *)

SameOrder ==
    /\ \A u \in Transaction : Published(u)' <=> Published(u)
    /\ \A u, t \in Transaction : Precedes(u, t)' <=> Precedes(u, t)

LEMMA AppendOrder ==
    ASSUME LockInv, RecordInv, NoneOvertaken, NEW tx \in Transaction, prepareAppend(tx)
    PROVE  SameOrder
<1>1. /\ pc[tx] = "append" /\ pc'[tx] = "release" /\ ~Logged(tx)
      /\ \A u \in Transaction \ {tx} : pc'[u] = pc[u]
      /\ \A u : Logged(u)' <=> Logged(u) \/ u = tx
      /\ Len(wal) \in Nat /\ Len(wal') = Len(wal) + 1
      /\ \A i \in 1..Len(wal) : wal'[i] = wal[i]
      /\ wal'[Len(wal) + 1] = tx
    BY Appends
<1>2. \A u \in Transaction : (pc[u] = "append" <=> u = tx) /\ pc'[u] # "append"
    BY <1>1, Alone
<1>3. \A u \in Transaction : Published(u)' <=> Published(u)
    BY <1>1, <1>2 DEF Published
<1>4. ASSUME NEW u \in Transaction, NEW t \in Transaction, Precedes(u, t) PROVE Precedes(u, t)'
  <2>1. CASE Logged(u) /\ t = tx
    <3>1. PICK i \in 1..Len(wal) : wal[i] = u
      BY <2>1, LogTyped
    <3>2. i \in 1..Len(wal') /\ Len(wal) + 1 \in 1..Len(wal') /\ i < Len(wal) + 1
      BY <1>1, SMTT(30)
    <3>. QED
      BY <1>1, <2>1, <3>1, <3>2 DEF Precedes
  <2>2. ASSUME NEW i \in 1..Len(wal), NEW j \in 1..Len(wal), i < j, wal[i] = u, wal[j] = t
        PROVE  Precedes(u, t)'
    <3>1. i \in 1..Len(wal') /\ j \in 1..Len(wal')
      BY <1>1, SMTT(30)
    <3>. QED
      BY <1>1, <2>2, <3>1 DEF Precedes
  <2>. QED
    BY <1>2, <1>4, <2>1, <2>2 DEF Precedes
<1>5. ASSUME NEW u \in Transaction, NEW t \in Transaction, Precedes(u, t)' PROVE Precedes(u, t)
  <2>1. PICK i, j \in 1..Len(wal') : i < j /\ wal'[i] = u /\ wal'[j] = t
    BY <1>2, <1>5 DEF Precedes
  <2>2. i \in 1..Len(wal) /\ (j \in 1..Len(wal) \/ j = Len(wal) + 1)
    BY <1>1, <2>1, SMTT(30)
  <2>3. wal[i] = u /\ Logged(u)
    BY <1>1, <2>1, <2>2, LogTyped
  <2>. QED
    BY <1>1, <2>1, <2>2, <2>3 DEF Precedes
<1>. QED
    BY <1>3, <1>4, <1>5 DEF SameOrder

LEMMA OrderStays ==
    ASSUME LockInv, RecordInv, NoneOvertaken, [Next]_vars,
           \A tx \in Transaction : ~preparePublish(tx)
    PROVE  SameOrder
<1>1. CASE \E tx \in Transaction : prepareAppend(tx)
    BY <1>1, AppendOrder
<1>2. CASE \A tx \in Transaction : ~prepareAppend(tx)
  <2>1. wal' = wal
    BY <1>2, LogSteps
  <2>2. \A u \in Transaction : pc'[u] = "append" <=> pc[u] = "append"
    BY <1>2, Moves
  <2>. QED
    BY <2>1, <2>2 DEF SameOrder, Published, Precedes, Logged
<1>. QED
    BY <1>1, <1>2

LEMMA PublishOrder ==
    ASSUME LockInv, RecordInv, NoneOvertaken, NEW tx \in Transaction, preparePublish(tx)
    PROVE  /\ \A u \in Transaction : Published(u)' <=> Published(u) \/ u = tx
           /\ \A u \in Transaction : Published(u) => Logged(u)
           /\ ~Published(tx)
           /\ \A u, t \in Transaction : Precedes(u, t)' <=> \/ Precedes(u, t)
                                                            \/ Published(u) /\ t = tx
<1>1. /\ pc[tx] = "decide" /\ pc'[tx] = "append" /\ ~Logged(tx) /\ wal' = wal
      /\ \A u \in Transaction \ {tx} : pc'[u] = pc[u]
    BY Publishes DEF preparePublish
<1>2. Request(tx) \in granted
    BY DEF preparePublish, publish
<1>3. \A u \in Transaction : pc[u] # "append"
    BY <1>1, <1>2, Alone
<1>4. \A u : Logged(u)' <=> Logged(u)
    BY <1>1 DEF Logged
<1>5. \A u \in Transaction : pc'[u] = "append" <=> u = tx
    BY <1>1, <1>3
<1>6. \A u \in Transaction : Published(u) <=> Logged(u)
    BY <1>3 DEF Published
<1>7. \A u \in Transaction : Published(u)' <=> Published(u) \/ u = tx
    BY <1>4, <1>5, <1>6 DEF Published
<1>8. \A u, t \in Transaction : Precedes(u, t)' <=> Precedes(u, t) \/ (Published(u) /\ t = tx)
    BY <1>1, <1>3, <1>4, <1>5, <1>6 DEF Precedes
<1>. QED
    BY <1>1, <1>6, <1>7, <1>8

---------------------------------------------------------------------------
(* Decisions                                                               *)

LEMMA Decision ==
    ASSUME NEW heuristic, NEW lt, NEW load, NEW clients, NEW s
    PROVE  /\ s = "Pipelined" => doEarlyLockRelease(s, heuristic, lt, load, clients) = TRUE
           /\ s = "Traditional" => doEarlyLockRelease(s, heuristic, lt, load, clients) = FALSE
           /\ s = "Adaptive" /\ heuristic = "OpenClients" =>
                 doEarlyLockRelease(s, heuristic, lt, load, clients)
                    = thresholds(load, clients, ClientsMid, ClientsHigh)
<1>. DEFINE decision == doEarlyLockRelease(s, heuristic, lt, load, clients)
<1>1. s = "Pipelined" => decision = TRUE
    BY SMTT(30) DEF doEarlyLockRelease
<1>2. s = "Traditional" => decision = FALSE
    BY SMTT(30) DEF doEarlyLockRelease
<1>3. s = "Adaptive" /\ heuristic = "OpenClients" =>
         decision = thresholds(load, clients, ClientsMid, ClientsHigh)
    BY SMTT(30) DEF doEarlyLockRelease
<1>. QED
    BY <1>1, <1>2, <1>3

LEMMA DecisionsStay ==
    ASSUME LockInv, [Next]_vars, NEW u \in Transaction
    PROVE  /\ pc[u] \notin {"decide", "flush"} => early'[u] = early[u]
           /\ pc[u] # "release" => released_lock_early'[u] = released_lock_early[u]
<1>1. DOMAIN early = Transaction /\ DOMAIN released_lock_early = Transaction
    BY DEF LockInv, Typed
<1>2. ASSUME NEW tx \in Transaction, prepareRelease(tx), pc[u] # "release"
      PROVE  released_lock_early'[u] = released_lock_early[u]
    BY <1>1, <1>2 DEF prepareRelease
<1>3. ASSUME NEW tx \in Transaction, NEW k \in Key, prepareDecide(tx, k), pc[u] # "decide"
      PROVE  early'[u] = early[u]
    BY <1>1, <1>3 DEF prepareDecide
<1>4. ASSUME NEW tx \in Transaction, prepareFlushed(tx), pc[u] # "flush"
      PROVE  early'[u] = early[u]
    BY <1>1, <1>4 DEF prepareFlushed
<1>. QED
    BY <1>2, <1>3, <1>4, Writers

LEMMA EvenStays ==
    ASSUME LockInv, [Next]_vars, DOMAIN request = Transaction, \A tx \in Transaction : Even(tx)
    PROVE  DOMAIN request' = Transaction /\ \A u \in Transaction : Even(u)'
<1>1. DOMAIN early = Transaction /\ DOMAIN << >> = {} /\ strategy' = strategy
      /\ scenario' = scenario
  <2>1. DOMAIN << >> = {}
    BY SMTT(30)
  <2>. QED
    BY <2>1, Writers DEF LockInv, Typed, strategy
<1>2. ASSUME NEW u \in Transaction, early'[u] = << >> PROVE Even(u)'
    BY <1>1, <1>2 DEF Even
<1>3. ASSUME NEW u \in Transaction, early'[u] = early[u], request'[u] = request[u],
             pc[u] \in {"decide", "append", "release", "flush"} =>
                pc'[u] \in {"decide", "append", "release", "flush"}
      PROVE  Even(u)'
    BY <1>1, <1>3 DEF Even
<1>4. ASSUME NEW tx \in Transaction, prepareFlushed(tx)
      PROVE  DOMAIN request' = Transaction /\ \A u \in Transaction : Even(u)'
  <2>1. early'[tx] = << >> /\ DOMAIN request' = Transaction
    BY <1>1, <1>4 DEF prepareFlushed
  <2>2. \A u \in Transaction \ {tx} : /\ early'[u] = early[u] /\ request'[u] = request[u]
                                      /\ pc'[u] = pc[u]
    BY <1>1, <1>4 DEF prepareFlushed, Goto, LockInv, Typed
  <2>. QED
    BY <1>2, <1>3, <2>1, <2>2
<1>5. ASSUME NEW tx \in Transaction, prepare(tx)
      PROVE  DOMAIN request' = Transaction /\ \A u \in Transaction : Even(u)'
  <2>1. early'[tx] = << >> /\ DOMAIN request' = Transaction
    BY <1>1, <1>5 DEF prepare, Even
  <2>2. \A u \in Transaction \ {tx} : /\ early'[u] = early[u] /\ request'[u] = request[u]
                                      /\ pc'[u] = pc[u]
    BY <1>1, <1>5 DEF prepare, Goto, LockInv, Typed
  <2>. QED
    BY <1>2, <1>3, <2>1, <2>2
<1>6. ASSUME NEW tx \in Transaction, NEW k \in Key, prepareDecide(tx, k)
      PROVE  DOMAIN request' = Transaction /\ \A u \in Transaction : Even(u)'
  <2>. DEFINE decision == doEarlyLockRelease(strategy, scenario.heuristic, lock,
                                             request[tx].load, request[tx].clients)
  <2>1. pc[tx] = "decide" /\ UNCHANGED <<pc, request>>
        /\ early' = [early EXCEPT ![tx] = Insert(@, k, decision)]
    BY <1>6 DEF prepareDecide
  <2>2. \A u \in Transaction \ {tx} : Even(u)'
    BY <1>1, <1>3, <2>1
  <2>3. /\ strategy = "Pipelined" => decision = TRUE
        /\ strategy = "Traditional" => decision = FALSE
        /\ strategy = "Adaptive" /\ scenario.heuristic = "OpenClients" =>
              decision = thresholds(request[tx].load, request[tx].clients, ClientsMid, ClientsHigh)
    BY Decision
  <2>. HIDE DEF decision
  <2>4. /\ DOMAIN early'[tx] = DOMAIN early[tx] \cup {k}
        /\ \A x \in DOMAIN early'[tx] : early'[tx][x] = IF x = k THEN decision ELSE early[tx][x]
    BY <1>1, <2>1 DEF Insert
  <2>5. ASSUME NEW x \in DOMAIN early'[tx]
        PROVE  /\ strategy = "Pipelined" => early'[tx][x]
               /\ strategy = "Traditional" => ~early'[tx][x]
               /\ strategy = "Adaptive" /\ scenario.heuristic = "OpenClients" =>
                    early'[tx][x] = thresholds(request[tx].load, request[tx].clients,
                                               ClientsMid, ClientsHigh)
    <3>1. CASE x = k
      BY <2>3, <2>4, <3>1
    <3>2. CASE x # k
      BY <2>4, <3>2 DEF Even
    <3>. QED
      BY <3>1, <3>2
  <2>6. Even(tx)'
    BY <1>1, <2>1, <2>5 DEF Even
  <2>. QED
    BY <2>1, <2>2, <2>6
<1>7. CASE /\ \A tx \in Transaction : ~prepareFlushed(tx) /\ ~prepare(tx)
           /\ \A tx \in Transaction : \A k \in Key : ~prepareDecide(tx, k)
  <2>1. early' = early /\ request' = request
    BY <1>7, Writers
  <2>2. ASSUME NEW u \in Transaction, pc[u] \in {"decide", "append", "release", "flush"}
        PROVE  pc'[u] \in {"decide", "append", "release", "flush"}
    BY <1>7, <2>2, Moves
  <2>. QED
    BY <1>3, <2>1, <2>2
<1>. QED
    BY <1>4, <1>5, <1>6, <1>7

(* The decision for one key is the decision for all.                       *)
LEMMA SameDecision ==
    ASSUME LockInv, EvenDecisions, NEW tx \in Transaction, Even(tx),
           NEW j \in DOMAIN early[tx], NEW k \in DOMAIN early[tx], early[tx][j]
    PROVE  early[tx][k]
<1>1. strategy \in {"Traditional", "Pipelined", "Adaptive"}
    BY SMTT(30) DEF LockInv, Typed, Scenario, CommitStrategy, strategy
<1>2. DOMAIN early[tx] \subseteq Changes(tx)
    BY DEF LockInv, Local
<1>3. CASE strategy = "Traditional"
    BY <1>3 DEF Even
<1>4. CASE strategy = "Pipelined"
    BY <1>4 DEF Even
<1>5. CASE strategy = "Adaptive" /\ scenario.heuristic = "OpenClients"
    BY <1>5 DEF Even
<1>6. CASE strategy = "Adaptive" /\ scenario.heuristic # "OpenClients"
    BY <1>2, <1>6, ZenonT(40) DEF EvenDecisions
<1>. QED
    BY <1>1, <1>3, <1>4, <1>5, <1>6

LEMMA KeepsStays ==
    ASSUME LockInv, [Next]_vars, EvenDecisions, NEW u \in Transaction, Even(u),
           NEW k \in Changes(u), Keeps(u, k), pc'[u] # "committed"
    PROVE  Keeps(u, k)'
<1>1. /\ pc[u] \notin {"decide", "flush"} => early'[u] = early[u]
      /\ pc[u] # "release" => released_lock_early'[u] = released_lock_early[u]
    BY DecisionsStay
<1>2. CASE pc[u] = "append"
  <2>1. pc'[u] \in {"append", "release"}
    BY <1>2, Moves
  <2>. QED
    BY <1>1, <1>2, <2>1 DEF Keeps
<1>3. CASE pc[u] = "release" /\ pc'[u] = "release"
    BY <1>1, <1>3 DEF Keeps
<1>4. CASE pc[u] = "release" /\ pc'[u] # "release"
  <2>1. prepareRelease(u) /\ pc'[u] = "flush"
    BY <1>4, Moves
  <2>2. PICK first \in Changes(u) :
           released_lock_early' = [released_lock_early EXCEPT ![u] = early[u][first]]
    BY <2>1 DEF prepareRelease
  <2>3. DOMAIN early[u] = Changes(u) /\ ~early[u][k] /\ DOMAIN released_lock_early = Transaction
    BY <1>4 DEF LockInv, Local, Typed, Keeps
  <2>4. ~early[u][first]
    BY <2>3, SameDecision
  <2>. QED
    BY <2>1, <2>2, <2>3, <2>4 DEF Keeps
<1>5. CASE pc[u] \in {"flush", "prepared", "committing"}
  <2>1. pc'[u] \in {"flush", "prepared", "committing"}
    BY <1>5, Moves
  <2>. QED
    BY <1>1, <1>5, <2>1 DEF Keeps
<1>. QED
    BY <1>2, <1>3, <1>4, <1>5 DEF Keeps

---------------------------------------------------------------------------
(* What stays                                                              *)

LEMMA DependenciesGrow ==
    ASSUME RecordInv, LockInv, [Next]_vars, NEW u \in Transaction
    PROVE  dependencies[u] \subseteq dependencies'[u]
<1>1. ASSUME NEW tx \in Transaction, getPending(tx)
      PROVE  dependencies[u] \subseteq dependencies'[u]
    BY <1>1 DEF getPending, readDependencies, RecordInv, RecordTyped
<1>2. ASSUME NEW tx \in Transaction, publish(tx)
      PROVE  dependencies[u] \subseteq dependencies'[u]
    BY <1>2, Publishes
<1>. QED
    BY <1>1, <1>2, DependencySteps

LEMMA RetiredStays ==
    ASSUME LockInv, RecordInv, [Next]_vars, NEW u \in Transaction, Retired(u)
    PROVE  Retired(u)'
<1>1. Logged(u)'
  <2>1. ASSUME NEW tx \in Transaction, prepareAppend(tx) PROVE Logged(u)'
    BY <2>1, Appends DEF Retired
  <2>. QED
    BY <2>1, LogSteps DEF Retired, Logged
<1>2. u \notin pending_prepare_records'
  <2>1. CASE UNCHANGED pendingVars
    BY <2>1 DEF pendingVars, Retired
  <2>2. ASSUME NEW tx \in Transaction, publish(tx) PROVE u \notin pending_prepare_records'
    BY <2>2, Publishes DEF Retired
  <2>3. ASSUME NEW c \in commits, commitRetire(c) PROVE u \notin pending_prepare_records'
    BY <2>3 DEF commitRetire, Retired
  <2>. QED
    BY <2>1, <2>2, <2>3, Writers DEF preparePublish
<1>. QED
    BY <1>1, <1>2 DEF Retired

LEMMA DoneStays ==
    ASSUME LockInv, RecordInv, [Next]_vars, NEW u \in Transaction, NEW k, Done(u, k)
    PROVE  Done(u, k)'
<1>1. Retired(u) => Retired(u)'
    BY RetiredStays
<1>2. k \in overlapped => k \in overlapped'
    BY OverlapsStay
<1>3. Sent(u) => Sent(u)'
    BY Moves DEF Sent
<1>. QED
    BY <1>1, <1>2, <1>3 DEF Done

(* A record in a call that has not retired it, and one in a call that has  *)
LEMMA InCall ==
    ASSUME LockInv, RecordInv, NEW c \in commits, NEW u \in Range(c.batch)
    PROVE  /\ u \in Transaction /\ Logged(u) /\ Published(u) /\ pc[u] = "committing"
           /\ c.at \in Unretired => ~Retired(u)
           /\ c.at \notin Unretired => Retired(u)
           /\ \A d \in commits : u \in Range(d.batch) => d = c
<1>1. u \in Transaction /\ pc[u] = "committing" /\ \A d \in commits : u \in Range(d.batch) => d = c
    BY BatchTyped DEF LockInv, Typed, Calls
<1>. QED
    BY <1>1 DEF RecordInv, Recorded, Retired, Published

LEMMA IndexInCall ==
    ASSUME LockInv, NEW c \in commits
    PROVE  /\ Len(c.batch) \in Nat
           /\ \A i \in 1..Len(c.batch) : c.batch[i] \in Range(c.batch)
           /\ \A u \in Range(c.batch) : \E i \in 1..Len(c.batch) : c.batch[i] = u
           /\ RecordInv => \A i, j \in 1..Len(c.batch) : c.batch[i] = c.batch[j] => i = j
<1>1. c.batch \in Seq(Transaction)
    BY BatchTyped DEF LockInv, Typed
<1>2. Len(c.batch) \in Nat /\ DOMAIN c.batch = 1..Len(c.batch)
    BY <1>1, SMTT(30)
<1>. QED
    BY <1>2 DEF Range, RecordInv, RecordTyped, IsInjective

LEMMA PublishedPlace ==
    ASSUME RecordInv, NEW u \in Transaction, Published(u)
    PROVE  /\ pc[u] \in {"append", "release", "flush", "prepared", "committing", "committed"}
           /\ Retired(u) => pc[u] \in {"committing", "committed"}
           /\ LockInv /\ pc[u] = "committed" => Retired(u)
<1>1. pc[u] \in {"append", "release", "flush", "prepared", "committing", "committed"}
    BY DEF RecordInv, Recorded, Published
<1>2. Retired(u) => pc[u] \in {"committing", "committed"}
    BY <1>1 DEF RecordInv, Recorded, Retired
<1>3. ASSUME LockInv, pc[u] = "committed" PROVE Retired(u)
    BY <1>3 DEF RecordInv, Recorded, Retired, Published, LockInv, Calls
<1>. QED
    BY <1>1, <1>2, <1>3

LEMMA CommitsInOrderStays ==
    ASSUME LockInv, RecordInv, [Next]_vars, \A batch \in Batches : ~commit(batch),
           NEW k, CommitsInOrder(k),
           \A tx, u \in Transaction :
              tx \in Changers(k)' /\ u \in Changers(k)' /\ Precedes(u, tx)' /\ Sent(tx)'
              => tx \in Changers(k) /\ u \in Changers(k) /\ Precedes(u, tx) /\ Sent(tx)
    PROVE  CommitsInOrder(k)'
<1>. SUFFICES ASSUME NEW tx \in Changers(k)', NEW u \in Changers(k)', Precedes(u, tx)', Sent(tx)'
              PROVE  (Done(u, k) \/ Batched(u, tx))' /\ ~Batched(tx, u)'
    BY DEF CommitsInOrder
<1>1. tx \in Transaction /\ u \in Transaction
    BY DEF Changers
<1>2. tx \in Changers(k) /\ u \in Changers(k) /\ Precedes(u, tx) /\ Sent(tx)
    BY <1>1
<1>3. ASSUME ~Done(u, k)' PROVE Batched(u, tx)'
  <2>1. ~Done(u, k) /\ ~Retired(u)
    BY <1>1, <1>3, DoneStays DEF Done
  <2>2. PICK c \in commits : \E i, j \in 1..Len(c.batch) : i < j /\ c.batch[i] = u /\ c.batch[j] = tx
    BY <1>2, <2>1 DEF CommitsInOrder, Batched
  <2>3. ~commitClean(c)
    <3>1. u \in Range(c.batch)
      <4>1. \A i \in 1..Len(c.batch) : c.batch[i] \in Range(c.batch)
        BY IndexInCall
      <4>. QED
        BY <2>2, <4>1
    <3>2. c.at \in Unretired
      BY <2>1, <3>1, InCall
    <3>. QED
      BY <3>2 DEF commitClean, Unretired
  <2>4. PICK d \in commits' : d.batch = c.batch
    BY <2>3, CallGoesOn
  <2>. QED
    BY <2>2, <2>4 DEF Batched
<1>4. ASSUME Batched(tx, u)' PROVE Batched(tx, u)
  <2>1. PICK d \in commits' : \E i, j \in 1..Len(d.batch) : i < j /\ d.batch[i] = tx /\ d.batch[j] = u
    BY <1>4 DEF Batched
  <2>2. PICK c \in commits : d.batch = c.batch
    BY CallWasSent
  <2>. QED
    BY <2>1, <2>2 DEF Batched
<1>. QED
    BY <1>2, <1>3, <1>4 DEF CommitsInOrder

---------------------------------------------------------------------------
(* Steps that publish, commit and retire nothing                           *)

LEMMA QuietOrder ==
    ASSUME LockInv, RecordInv, RecordInv', OrderInv, NoneOvertaken, [Next]_vars, SameOrder,
           UNCHANGED pendingVars, \A batch \in Batches : ~commit(batch), NEW k \in Key
    PROVE  InOrder(k)'
<1>1. UNCHANGED <<scenario, pending_prepare_records, pending_commit_table>>
    BY Writers DEF pendingVars
<1>2. /\ Changers(k)' = Changers(k)
      /\ \A u, t \in Transaction : Precedes(u, t)' <=> Precedes(u, t)
    BY <1>1 DEF SameOrder, Changers, Changes, work
<1>3. InOrder(k) /\ Changers(k) \subseteq Transaction
    BY DEF OrderInv, Changers
<1>4. \A u \in Transaction : (Retired(u) => Retired(u)') /\ (Done(u, k) => Done(u, k)')
    BY RetiredStays, DoneStays
<1>5. pending_commit_table[k] \in Transaction \cup {None}
    BY DEF RecordInv, RecordTyped, PendingCommitTable
<1>6. PendingIsLast(k)'
    BY <1>1, <1>2, <1>3, <1>5 DEF InOrder, PendingIsLast, strategy
<1>7. PendingOrKept(k)'
  <2>1. ASSUME NEW last \in Changers(k), last \in pending_prepare_records, Keeps(last, k)
        PROVE  Keeps(last, k)'
    <3>1. last \in Transaction /\ k \in Changes(last)
      BY DEF Changers
    <3>2. pc'[last] # "committed"
      <4>1. last \in pending_prepare_records'
        BY <1>1, <2>1
      <4>2. ~Retired(last)'
        BY <4>1 DEF Retired
      <4>3. pc[last] # "committed"
        BY <2>1 DEF Keeps
      <4>4. pc'[last] = "committed" => \E c \in commits : commitClean(c) /\ last \in Range(c.batch)
        BY <2>1, <3>1, <4>3, Moves DEF Keeps
      <4>5. \A c \in commits : commitClean(c) /\ last \in Range(c.batch) => Retired(last)
        BY InCall DEF commitClean, Unretired
      <4>. QED
        BY <1>4, <3>1, <4>2, <4>4, <4>5
    <3>. QED
      BY <2>1, <3>1, <3>2, KeepsStays DEF OrderInv
  <2>. QED
    BY <1>1, <1>2, <1>3, <1>4, <2>1 DEF InOrder, PendingOrKept
<1>8. DependsOnChangers(k)'
    BY <1>2, <1>3, <1>4, DependenciesGrow DEF InOrder, DependsOnChangers
<1>9. CommitsInOrder(k)'
  <2>1. ASSUME NEW tx \in Changers(k), Sent(tx)' PROVE Sent(tx)
    <3>1. tx \in Transaction /\ Published(tx)
      BY DEF Changers
    <3>2. pc[tx] \in {"append", "release", "flush", "prepared", "committing", "committed"}
      BY <3>1, PublishedPlace
    <3>. QED
      BY <2>1, <3>1, <3>2, Moves DEF Sent
  <2>. QED
    BY <1>2, <1>3, <2>1, CommitsInOrderStays DEF InOrder
<1>. QED
    BY <1>6, <1>7, <1>8, <1>9 DEF InOrder

---------------------------------------------------------------------------
(* publish                                                                 *)

(* Who keeps the lock holds it.                                            *)
LEMMA KeeperHolds ==
    ASSUME LockInv, RecordInv, NoneOvertaken, NEW u \in Transaction, NEW k, Keeps(u, k),
           u \in pending_prepare_records
    PROVE  holder = u
<1>1. aborting[u] = "no" /\ Exclusive
    BY Alone DEF Keeps
<1>2. pc[u] = "committing" => \E c \in commits : u \in Range(c.batch) /\ c.at # "clean"
    BY DEF RecordInv, Recorded, Unretired
<1>3. InCriticalSection(u)
    BY <1>1, <1>2 DEF InCriticalSection, Keeps
<1>. QED
    BY <1>1, <1>3 DEF Exclusive

LEMMA PublishInOrder ==
    ASSUME LockInv, RecordInv, RecordInv', OrderInv, NoneOvertaken, [Next]_vars,
           NEW t \in Transaction, preparePublish(t), NEW k \in Key
    PROVE  InOrder(k)'
<1>1. /\ \A u \in Transaction : Published(u)' <=> Published(u) \/ u = t
      /\ \A u \in Transaction : Published(u) => Logged(u)
      /\ ~Published(t)
      /\ \A u, v \in Transaction : Precedes(u, v)' <=> \/ Precedes(u, v)
                                                       \/ Published(u) /\ v = t
    BY PublishOrder
<1>2. /\ pc[t] = "decide" /\ pc'[t] = "append"
      /\ \A u \in Transaction \ {t} : pc'[u] = pc[u]
      /\ pending_prepare_records' = pending_prepare_records \cup {t}
      /\ pending_commit_table'[k] =
            IF strategy = "Traditional" \/ k \notin Changes(t) THEN pending_commit_table[k]
            ELSE IF early[t][k] THEN t ELSE None
      /\ \A u \in Transaction \ {t} : dependencies'[u] = dependencies[u]
      /\ strategy # "Traditional" =>
            dependencies'[t] = dependencies[t]
               \cup ({pending_commit_table[x] : x \in Changes(t)} \ {None})
      /\ UNCHANGED <<scenario, early, released_lock_early, wal>>
    BY Publishes DEF preparePublish
<1>3. DOMAIN early[t] = Changes(t) /\ Request(t) \in granted
    BY DEF preparePublish, publish
<1>4. holder = t
    BY <1>2, <1>3, Alone
<1>5. InOrder(k) /\ Changers(k) \subseteq Transaction /\ t \notin Changers(k)
    BY <1>1 DEF OrderInv, Changers
<1>6. /\ k \notin Changes(t) => Changers(k)' = Changers(k)
      /\ k \in Changes(t) => Changers(k)' = Changers(k) \cup {t}
    BY <1>1, <1>2 DEF Changers, Changes, work
<1>7. \A u, v \in Changers(k) : Precedes(u, v)' <=> Precedes(u, v)
    BY <1>1, <1>5
<1>8. \A u \in Changers(k) : ~Precedes(t, u)' /\ Precedes(u, t)'
    BY <1>1, <1>5, PrecedesStrict DEF Changers
<1>9. \A u \in Transaction : Done(u, k) => Done(u, k)'
    BY DoneStays
<1>10. \A u \in Changers(k) : Keeps(u, k)' <=> Keeps(u, k)
    BY <1>2, <1>5 DEF Keeps
<1>11. pending_commit_table[k] # None => pending_commit_table[k] \in Changers(k)
    BY DEF RecordInv, RecordTyped, PendingCommitTable, PendingPublished, Changers
<1>12. PendingIsLast(k)'
  <2>1. CASE pending_commit_table'[k] = pending_commit_table[k] /\ k \notin Changes(t)
    BY <1>2, <1>5, <1>6, <1>7, <1>11, <2>1 DEF InOrder, PendingIsLast, strategy
  <2>2. CASE pending_commit_table'[k] = t /\ strategy # "Traditional" /\ k \in Changes(t)
    BY <1>2, <1>6, <1>8, <2>2 DEF PendingIsLast, strategy
  <2>3. CASE pending_commit_table'[k] = None
    BY <2>3 DEF PendingIsLast
  <2>4. CASE strategy = "Traditional"
    <3>1. pending_commit_table'[k] = None
      BY <1>2, <1>5, <2>4 DEF InOrder, PendingIsLast
    <3>. QED
      BY <2>3, <3>1
  <2>. QED
    BY <1>2, <2>1, <2>2, <2>3, <2>4
<1>13. PendingOrKept(k)'
  <2>1. CASE k \notin Changes(t)
    BY <1>2, <1>5, <1>6, <1>7, <1>9, <1>10, <2>1 DEF InOrder, PendingOrKept
  <2>2. CASE k \in Changes(t)
    <3>1. pending_commit_table'[k] = t \/ Keeps(t, k)'
      <4>1. strategy = "Traditional" => ~early[t][k]
        BY <1>3, <2>2 DEF OrderInv, Even
      <4>2. CASE early[t][k]
        BY <1>2, <2>2, <4>1, <4>2
      <4>3. CASE ~early[t][k]
        BY <1>2, <4>3 DEF Keeps
      <4>. QED
        BY <4>2, <4>3
    <3>2. t \in pending_prepare_records' /\ t \in Changers(k)'
      BY <1>2, <1>6, <2>2
    <3>3. \A u \in Changers(k)' : t = u \/ Precedes(u, t)'
      BY <1>6, <1>8, <2>2
    <3>. QED
      BY <3>1, <3>2, <3>3 DEF PendingOrKept
  <2>. QED
    BY <2>1, <2>2
<1>14. DependsOnChangers(k)'
  <2>. SUFFICES ASSUME NEW tx \in Changers(k)', NEW u \in Changers(k)', Precedes(u, tx)',
                       ~Done(u, k)'
                PROVE  \E v \in dependencies'[tx] \cap Changers(k)' : u = v \/ Precedes(u, v)'
    BY DEF DependsOnChangers
  <2>1. u \in Changers(k)
    <3>1. ~Precedes(t, t)'
      BY <1>1, PrecedesStrict
    <3>2. \A v \in Changers(k)' : ~Precedes(t, v)'
      BY <1>6, <1>8, <3>1
    <3>3. u # t
      BY <3>2
    <3>. QED
      BY <1>6, <3>3
  <2>2. ~Done(u, k)
    BY <1>5, <1>9, <2>1
  <2>3. CASE tx \in Changers(k)
    <3>1. Precedes(u, tx) /\ dependencies'[tx] = dependencies[tx]
      BY <1>2, <1>5, <1>7, <2>1, <2>3
    <3>2. PICK v \in dependencies[tx] \cap Changers(k) : u = v \/ Precedes(u, v)
      BY <1>5, <2>1, <2>2, <2>3, <3>1 DEF InOrder, DependsOnChangers
    <3>. QED
      BY <1>6, <1>7, <2>1, <3>1, <3>2
  <2>4. CASE tx = t /\ k \in Changes(t)
    <3>1. PICK last \in Changers(k) :
             /\ last = u \/ Precedes(u, last)
             /\ last \in pending_prepare_records
             /\ pending_commit_table[k] = last \/ Keeps(last, k)
      BY <1>5, <2>1, <2>2 DEF InOrder, PendingOrKept
    <3>2. last \in Transaction /\ last # t /\ last # None
      BY <1>5, NoneAssumption
    <3>3. ~Keeps(last, k)
      BY <1>4, <3>1, <3>2, KeeperHolds
    <3>4. pending_commit_table[k] = last
      BY <3>1, <3>3
    <3>5. strategy # "Traditional"
      BY <1>5, <3>2, <3>4 DEF InOrder, PendingIsLast
    <3>6. last \in dependencies'[t]
      BY <1>2, <2>4, <3>2, <3>4, <3>5
    <3>. QED
      BY <1>6, <1>7, <2>1, <2>4, <3>1, <3>6
  <2>. QED
    BY <1>6, <2>3, <2>4
<1>15. CommitsInOrder(k)'
  <2>1. ASSUME NEW tx \in Transaction, NEW u \in Transaction,
               tx \in Changers(k)', u \in Changers(k)', Precedes(u, tx)', Sent(tx)'
        PROVE  tx \in Changers(k) /\ u \in Changers(k) /\ Precedes(u, tx) /\ Sent(tx)
    <3>1. tx # t
      BY <1>2, <2>1 DEF Sent
    <3>2. tx \in Changers(k) /\ Sent(tx)
      BY <1>2, <1>6, <2>1, <3>1 DEF Sent
    <3>3. u # t
      BY <1>8, <2>1, <3>2
    <3>. QED
      BY <1>6, <1>7, <2>1, <3>2, <3>3
  <2>2. \A batch \in Batches : ~commit(batch)
    <3>1. ASSUME NEW batch \in Batches, commit(batch) PROVE FALSE
      <4>1. pc'[t] = IF t \in Range(batch) THEN "committing" ELSE pc[t]
        BY <3>1 DEF commit
      <4>. QED
        BY <1>2, <4>1
    <3>. QED
      BY <3>1
  <2>. QED
    BY <1>5, <2>1, <2>2, CommitsInOrderStays DEF InOrder
<1>. QED
    BY <1>12, <1>13, <1>14, <1>15 DEF InOrder

---------------------------------------------------------------------------
(* commit: a batch holds, before each of its transactions, the changes     *)
(* published earlier that no call has taken; or has retired, if the batch  *)
(* overlaps none.                                                          *)

LEMMA BatchInOrder ==
    ASSUME LockInv, RecordInv, NEW batch \in Batches, commit(batch), NEW k \in Key, InOrder(k),
           NEW j \in 1..Len(batch), k \in Changes(batch[j]),
           NEW u \in Changers(k), Precedes(u, batch[j]),
           ~Sent(u) \/ (k \notin overlapped' /\ ~Retired(u))
    PROVE  \E i \in 1..Len(batch) : i < j /\ batch[i] = u
<1>. DEFINE Out(v) == ~Sent(v) \/ (k \notin overlapped' /\ ~Retired(v))
            Late(n) == /\ k \in Changes(batch[n])
                       /\ \E v \in Changers(k) : /\ Precedes(v, batch[n]) /\ Out(v)
                                                 /\ \A i \in 1..Len(batch) : i < n => batch[i] # v
            S == {n \in 1..Len(batch) : Late(n)}
<1>1. batch \in Seq(Transaction)
    BY BatchesAreSequences
<1>2. Len(batch) \in Nat /\ \A n \in 1..Len(batch) : batch[n] \in Transaction
    BY <1>1, SMTT(30)
<1>3. S \in SUBSET Nat
  <2>1. 1..Len(batch) \subseteq Nat
    BY <1>2, SMTT(30)
  <2>. QED
    BY <2>1
<1>4. S = {}
  <2>. SUFFICES ASSUME S # {} PROVE FALSE
    OBVIOUS
  <2>. HIDE DEF S
  <2>1. PICK n \in S : \A m \in S : n <= m
    BY <1>3, Least
  <2>2. n \in 1..Len(batch) /\ Late(n)
    BY <2>1 DEF S
  <2>3. PICK v \in Changers(k) : /\ Precedes(v, batch[n]) /\ Out(v)
                                 /\ \A i \in 1..Len(batch) : i < n => batch[i] # v
    BY <2>2
  <2>4. /\ pc[batch[n]] = "prepared"
        /\ \A d \in dependencies[batch[n]] : Sent(d) \/ \E i \in 1..(n - 1) : batch[i] = d
    BY <2>2 DEF commit, MayCommit
  <2>5. batch[n] \in Changers(k)
    <3>1. Logged(batch[n])
      BY <1>2, <2>2, <2>4 DEF RecordInv, Recorded
    <3>. QED
      BY <1>2, <2>2, <3>1 DEF Changers, Published
  <2>6. v \in Transaction /\ ~Retired(v) /\ ~Done(v, k)
    <3>1. v \in Transaction /\ Published(v)
      BY DEF Changers
    <3>2. Retired(v) => Sent(v)
      BY <3>1, PublishedPlace DEF Sent
    <3>3. k \notin overlapped' => k \notin overlapped
      BY DEF commit
    <3>. QED
      BY <2>3, <3>1, <3>2, <3>3 DEF Done
  <2>7. PICK w \in dependencies[batch[n]] \cap Changers(k) : v = w \/ Precedes(v, w)
    BY <2>3, <2>5, <2>6 DEF InOrder, DependsOnChangers
  <2>8. w \in Transaction /\ Published(w) /\ k \in Changes(w)
    BY <2>7 DEF Changers
  <2>9. ASSUME Sent(w) PROVE FALSE
    <3>1. v # w => \E c \in commits : \E i, m \in 1..Len(c.batch) : c.batch[i] = v /\ c.batch[m] = w
      <4>1. v # w => Batched(v, w)
        BY <2>6, <2>7, <2>9 DEF InOrder, CommitsInOrder
      <4>. QED
        BY <4>1 DEF Batched
    <3>2. ASSUME NEW c \in commits, NEW i \in 1..Len(c.batch), NEW m \in 1..Len(c.batch),
                 c.batch[i] = v, c.batch[m] = w
          PROVE  Sent(v) /\ pc[w] = "committing"
      <4>1. v \in Range(c.batch) /\ w \in Range(c.batch)
        BY <3>2, IndexInCall
      <4>. QED
        BY <4>1, InCall DEF Sent
    <3>3. k \notin overlapped' /\ ~Retired(v)
      BY <2>3, <2>9, <3>1, <3>2
    <3>4. pc[w] = "committing"
      <4>1. CASE pc[w] = "committed"
        <5>1. Retired(w)
          BY <2>8, <4>1, PublishedPlace
        <5>. QED
          BY <3>1, <3>2, <3>3, <5>1
      <4>. QED
        BY <2>9, <4>1 DEF Sent
    <3>5. batch[n] \in Range(batch)
      <4>1. DOMAIN batch = 1..Len(batch)
        BY <1>1, SMTT(30)
      <4>. QED
        BY <2>2, <4>1 DEF Range
    <3>6. k \in Overlaps(batch)
      BY <2>2, <2>7, <2>8, <3>4, <3>5 DEF Overlaps
    <3>. QED
      BY <3>3, <3>6 DEF commit
  <2>10. ASSUME NEW i \in 1..(n - 1), batch[i] = w PROVE FALSE
    <3>1. i \in 1..Len(batch) /\ i < n /\ ~(n <= i)
      BY <1>2, <2>2, SMTT(30)
    <3>2. v # w
      BY <2>3, <2>10, <3>1
    <3>3. \A m \in 1..Len(batch) : m < i => m < n
      BY <1>2, <2>2, <3>1, SMTT(30)
    <3>4. Late(i)
      BY <2>3, <2>7, <2>8, <2>10, <3>2, <3>3
    <3>5. i \in S
      BY <3>1, <3>4 DEF S
    <3>. QED
      BY <2>1, <3>1, <3>5
  <2>. QED
    BY <2>4, <2>7, <2>9, <2>10
<1>. QED
    BY <1>4

LEMMA CommitInOrder ==
    ASSUME LockInv, RecordInv, RecordInv', OrderInv, NoneOvertaken, [Next]_vars,
           NEW batch \in Batches, commit(batch), NEW k \in Key
    PROVE  InOrder(k)'
<1>. DEFINE c1 == [batch |-> batch, at |-> "collect"]
<1>1. /\ MayCommit(batch) /\ commits' = commits \cup {c1}
      /\ pc' = [tx \in Transaction |-> IF tx \in Range(batch) THEN "committing" ELSE pc[tx]]
      /\ \A i \in 1..Len(batch) : pc[batch[i]] = "prepared"
      /\ UNCHANGED <<scenario, early, released_lock_early, dependencies, pending_prepare_records,
                     pending_commit_table, wal>>
    BY DEF commit, MayCommit, pendingVars
<1>2. c1.batch = batch
    BY SMTT(30)
<1>. HIDE DEF c1
<1>3. batch \in Seq(Transaction)
    BY BatchesAreSequences
<1>4. DOMAIN batch = 1..Len(batch) /\ \A i \in 1..Len(batch) : batch[i] \in Transaction
    BY <1>3, SMTT(30)
<1>5. \A u \in Range(batch) : pc[u] = "prepared" /\ \E i \in 1..Len(batch) : batch[i] = u
    BY <1>1, <1>4 DEF Range
<1>6. \A u \in Transaction : pc'[u] = pc[u] \/ (pc[u] = "prepared" /\ pc'[u] = "committing")
    BY <1>1, <1>5
<1>7. \A u \in Transaction : Published(u)' <=> Published(u)
    BY <1>1, <1>6 DEF Published, Logged
<1>8. \A u, v \in Transaction : Precedes(u, v)' <=> Precedes(u, v)
    BY <1>1, <1>6 DEF Precedes, Logged
<1>9. Changers(k)' = Changers(k) /\ Changers(k) \subseteq Transaction /\ InOrder(k)
    BY <1>1, <1>7 DEF Changers, Changes, work, OrderInv
<1>10. \A u \in Transaction : (Retired(u)' <=> Retired(u)) /\ (Done(u, k) => Done(u, k)')
    BY <1>1, DoneStays DEF Retired, Logged
<1>11. \A u \in Transaction : Keeps(u, k) => Keeps(u, k)'
    BY <1>1, <1>6 DEF Keeps
<1>12. pending_commit_table[k] # None => pending_commit_table[k] \in Transaction
    BY DEF RecordInv, RecordTyped, PendingCommitTable
<1>13. PendingIsLast(k)'
    BY <1>1, <1>8, <1>9, <1>12 DEF InOrder, PendingIsLast, strategy
<1>14. PendingOrKept(k)'
    BY <1>1, <1>8, <1>9, <1>10, <1>11 DEF InOrder, PendingOrKept
<1>15. DependsOnChangers(k)'
    BY <1>1, <1>8, <1>9, <1>10 DEF InOrder, DependsOnChangers
<1>16. CommitsInOrder(k)'
  <2>. SUFFICES ASSUME NEW tx \in Changers(k), NEW u \in Changers(k), Precedes(u, tx), Sent(tx)'
                PROVE  (Done(u, k) \/ Batched(u, tx))' /\ ~Batched(tx, u)'
    BY <1>8, <1>9 DEF CommitsInOrder
  <2>1. ASSUME Batched(tx, u)'
        PROVE  Batched(tx, u) \/ \E i, n \in 1..Len(batch) : i < n /\ batch[i] = tx /\ batch[n] = u
    BY <1>1, <1>2, <2>1 DEF Batched
  <2>2. CASE tx \in Range(batch)
    <3>1. PICK j \in 1..Len(batch) : batch[j] = tx
      BY <1>5, <2>2
    <3>2. k \in Changes(tx) /\ tx \in Transaction /\ u \in Transaction
      BY DEF Changers
    <3>3. ASSUME ~Sent(u) \/ (k \notin overlapped' /\ ~Retired(u))
          PROVE  \E i \in 1..Len(batch) : i < j /\ batch[i] = u
      BY <1>9, <3>1, <3>2, <3>3, BatchInOrder
    <3>4. ASSUME ~Done(u, k)' PROVE Batched(u, tx)'
      <4>1. ~Sent(u) \/ (k \notin overlapped' /\ ~Retired(u))
        <5>1. Sent(u) => Sent(u)'
          BY <1>6, <3>2 DEF Sent
        <5>. QED
          BY <1>10, <3>2, <3>4, <5>1 DEF Done
      <4>2. PICK i \in 1..Len(batch) : i < j /\ batch[i] = u
        BY <3>3, <4>1
      <4>. QED
        BY <1>1, <1>2, <3>1, <4>2 DEF Batched
    <3>5. ASSUME Batched(tx, u)' PROVE FALSE
      <4>1. ~Batched(tx, u)
        <5>1. ASSUME NEW c \in commits, NEW i \in 1..Len(c.batch), c.batch[i] = tx PROVE FALSE
          <6>1. tx \in Range(c.batch)
            BY <5>1, IndexInCall
          <6>. QED
            BY <1>5, <2>2, <6>1, InCall
        <5>. QED
          BY <5>1 DEF Batched
      <4>2. PICK i, n \in 1..Len(batch) : i < n /\ batch[i] = tx /\ batch[n] = u
        BY <2>1, <3>5, <4>1
      <4>3. ~Sent(u)
        BY <1>1, <4>2 DEF Sent
      <4>4. PICK m \in 1..Len(batch) : m < j /\ batch[m] = u
        BY <3>3, <4>3
      <4>5. i = j /\ m = n
        BY <1>4, <3>1, <4>2, <4>4 DEF Batches, IsInjective
      <4>. QED
        BY <4>2, <4>4, <4>5, <1>3, SMTT(30)
    <3>. QED
      BY <3>4, <3>5
  <2>3. CASE tx \notin Range(batch)
    <3>1. Sent(tx) /\ u \in Transaction
      BY <1>1, <1>9, <2>3 DEF Sent
    <3>2. (Done(u, k) \/ Batched(u, tx)) /\ ~Batched(tx, u)
      BY <1>9, <3>1 DEF InOrder, CommitsInOrder
    <3>3. Batched(u, tx) => Batched(u, tx)'
      BY <1>1 DEF Batched
    <3>4. \A i \in 1..Len(batch) : batch[i] # tx
      BY <1>4, <2>3 DEF Range
    <3>. QED
      BY <1>10, <2>1, <3>1, <3>2, <3>3, <3>4
  <2>. QED
    BY <2>2, <2>3
<1>. QED
    BY <1>13, <1>14, <1>15, <1>16 DEF InOrder

---------------------------------------------------------------------------
(* commitRetire                                                            *)

LEMMA BatchedHere ==
    ASSUME LockInv, RecordInv, NEW c \in commits, NEW i \in 1..Len(c.batch), NEW u
    PROVE  /\ Batched(c.batch[i], u) => \E n \in 1..Len(c.batch) : i < n /\ c.batch[n] = u
           /\ Batched(u, c.batch[i]) => \E n \in 1..Len(c.batch) : n < i /\ c.batch[n] = u
<1>1. /\ \A j \in 1..Len(c.batch) : c.batch[j] \in Range(c.batch)
      /\ \A n, j \in 1..Len(c.batch) : c.batch[n] = c.batch[j] => n = j
    BY IndexInCall
<1>2. ASSUME NEW d \in commits, NEW n \in 1..Len(d.batch), d.batch[n] = c.batch[i]
      PROVE  d = c
  <2>1. d.batch[n] \in Range(d.batch)
    BY IndexInCall
  <2>. QED
    BY <1>1, <1>2, <2>1, InCall
<1>3. Batched(c.batch[i], u) => \E n \in 1..Len(c.batch) : i < n /\ c.batch[n] = u
    BY <1>1, <1>2 DEF Batched
<1>4. Batched(u, c.batch[i]) => \E n \in 1..Len(c.batch) : n < i /\ c.batch[n] = u
    BY <1>1, <1>2 DEF Batched
<1>. QED
    BY <1>3, <1>4

LEMMA BatchedTogether ==
    ASSUME LockInv, RecordInv, NEW c \in commits, NEW tx \in Range(c.batch), NEW u,
           Batched(u, tx)
    PROVE  u \in Range(c.batch)
<1>1. PICK d \in commits : \E i, j \in 1..Len(d.batch) : d.batch[i] = u /\ d.batch[j] = tx
    BY DEF Batched
<1>2. PICK i, j \in 1..Len(d.batch) : d.batch[i] = u /\ d.batch[j] = tx
    BY <1>1
<1>3. u \in Range(d.batch) /\ tx \in Range(d.batch)
    BY <1>1, <1>2, IndexInCall
<1>4. d = c
    BY <1>1, <1>3, InCall
<1>. QED
    BY <1>3, <1>4

(* In a call, a transaction comes after those published before it and, if  *)
(* none overlaps, those of other calls and earlier ones come before it.    *)
LEMMA CallInOrder ==
    ASSUME LockInv, RecordInv, NoneOvertaken, NEW k \in Key, CommitsInOrder(k), NEW c \in commits,
           c.at \in Unretired, NEW i \in 1..Len(c.batch), k \in Changes(c.batch[i])
    PROVE  /\ c.batch[i] \in Changers(k)
           /\ \A j \in 1..Len(c.batch) : i < j /\ k \in Changes(c.batch[j]) =>
                 Precedes(c.batch[i], c.batch[j])
           /\ \A u \in Changers(k) :
                 k \notin overlapped /\ Sent(u) /\ u \notin Range(c.batch) =>
                    Precedes(u, c.batch[i])
<1>1. /\ Len(c.batch) \in Nat
      /\ \A j \in 1..Len(c.batch) : c.batch[j] \in Range(c.batch)
      /\ \A n, j \in 1..Len(c.batch) : c.batch[n] = c.batch[j] => n = j
    BY IndexInCall
<1>2. ASSUME NEW j \in 1..Len(c.batch)
      PROVE  /\ c.batch[j] \in Transaction /\ Published(c.batch[j]) /\ ~Retired(c.batch[j])
             /\ pc[c.batch[j]] = "committing"
    BY <1>1, InCall, ZenonT(40)
<1>3. \A j \in 1..Len(c.batch) : k \in Changes(c.batch[j]) => c.batch[j] \in Changers(k)
    BY <1>2 DEF Changers
<1>4. ASSUME NEW j \in 1..Len(c.batch), i < j, k \in Changes(c.batch[j])
      PROVE  Precedes(c.batch[i], c.batch[j])
  <2>1. i # j
    BY <1>1, <1>4, SMTT(30)
  <2>2. c.batch[i] # c.batch[j]
    BY <1>1, <2>1
  <2>3. ASSUME Precedes(c.batch[j], c.batch[i]) PROVE FALSE
    <3>1. c.batch[j] \in Changers(k) /\ c.batch[i] \in Changers(k)
      BY <1>3, <1>4
    <3>2. ~Batched(c.batch[i], c.batch[j])
      BY <1>2, <2>3, <3>1 DEF CommitsInOrder, Sent
    <3>. QED
      BY <1>4, <3>2 DEF Batched
  <2>. QED
    BY <1>2, <2>2, <2>3, PrecedesTotal
<1>5. ASSUME NEW u \in Changers(k), k \notin overlapped, Sent(u), u \notin Range(c.batch)
      PROVE  Precedes(u, c.batch[i])
  <2>1. u \in Transaction /\ Published(u) /\ u # c.batch[i]
    BY <1>1, <1>5 DEF Changers
  <2>2. ASSUME Precedes(c.batch[i], u) PROVE FALSE
    <3>1. Batched(c.batch[i], u)
      BY <1>2, <1>3, <1>5, <2>2 DEF CommitsInOrder, Done
    <3>2. PICK n \in 1..Len(c.batch) : i < n /\ c.batch[n] = u
      BY <2>1, <3>1, BatchedHere
    <3>. QED
      BY <1>1, <1>5, <3>2
  <2>. QED
    BY <1>2, <2>1, <2>2, PrecedesTotal
<1>. QED
    BY <1>3, <1>4, <1>5

(* A changer of the key in the batch, and the last one                     *)
LEMMA LastOfCall ==
    ASSUME LockInv, RecordInv, NoneOvertaken, NEW k \in Key, CommitsInOrder(k), NEW c \in commits,
           c.at \in Unretired, NEW u \in Range(c.batch), k \in Changes(u)
    PROVE  LET last == lastChanger(k, c.batch, work)
           IN  /\ k \in changedKeys(c.batch, work) /\ last \in Range(c.batch) /\ last \in Changers(k)
               /\ u = last \/ Precedes(u, last)
<1>1. PICK i \in 1..Len(c.batch) : c.batch[i] = u
    BY IndexInCall
<1>2. c.batch \in Seq(Transaction)
    BY BatchTyped DEF LockInv, Typed
<1>3. k \in changedKeys(c.batch, work)
    BY <1>1 DEF changedKeys, changersOf, Changes
<1>. DEFINE m == Max(changersOf(k, c.batch, work))
<1>4. /\ m \in 1..Len(c.batch) /\ lastChanger(k, c.batch, work) = c.batch[m]
      /\ k \in Changes(c.batch[m]) /\ c.batch[m] \in Range(c.batch) /\ i <= m
    BY <1>1, <1>2, <1>3, LastChanger DEF Changes
<1>. HIDE DEF m
<1>5. i < m \/ i = m
    BY <1>4, IndexInCall, SMTT(30)
<1>6. c.batch[m] \in Changers(k) /\ (i < m => Precedes(c.batch[i], c.batch[m]))
    BY <1>1, <1>4, CallInOrder
<1>. QED
    BY <1>1, <1>3, <1>4, <1>5, <1>6

LEMMA RetireInOrder ==
    ASSUME LockInv, RecordInv, OrderInv, NoneOvertaken, [Next]_vars, SameOrder,
           NEW c \in commits, commitRetire(c), NEW k \in Key
    PROVE  InOrder(k)'
<1>1. /\ c.at = "retire" /\ Advance(c, "holder") /\ c.at \in Unretired
      /\ pending_prepare_records' = pending_prepare_records \ Range(c.batch)
      /\ UNCHANGED <<scenario, pc, early, released_lock_early, dependencies, wal>>
    BY DEF commitRetire, handlerVars, Unretired
<1>2. /\ \A u : Retired(u)' <=> Retired(u) \/ u \in Range(c.batch)
      /\ pending_commit_table'[k] =
            IF strategy # "Traditional" /\ k \in changedKeys(c.batch, work)
                  /\ pending_commit_table[k] = lastChanger(k, c.batch, work)
            THEN None ELSE pending_commit_table[k]
    BY Retires
<1>3. /\ Changers(k)' = Changers(k) /\ Changers(k) \subseteq Transaction
      /\ \A u, t \in Transaction : Precedes(u, t)' <=> Precedes(u, t)
      /\ InOrder(k)
    BY <1>1 DEF SameOrder, Changers, Changes, work, OrderInv
<1>4. pending_commit_table[k] # None => pending_commit_table[k] \in Changers(k)
    BY DEF RecordInv, RecordTyped, PendingCommitTable, PendingPublished, Changers
<1>5. \A u \in Range(c.batch) : u \in Transaction /\ ~Retired(u) /\ pc[u] = "committing"
    BY <1>1, InCall
<1>6. ASSUME pending_commit_table'[k] # None
      PROVE  /\ pending_commit_table'[k] = pending_commit_table[k]
             /\ pending_commit_table[k] \notin Range(c.batch)
  <2>. DEFINE w == pending_commit_table[k]
              last == lastChanger(k, c.batch, work)
  <2>1. pending_commit_table'[k] = w
    BY <1>2, <1>6
  <2>2. /\ w \in Transaction /\ k \in Changes(w) /\ strategy # "Traditional"
        /\ \A u \in Changers(k) : u = w \/ Precedes(u, w)
    BY <1>3, <1>4, <1>6, <2>1 DEF InOrder, PendingIsLast, Changers
  <2>3. ASSUME w \in Range(c.batch) PROVE FALSE
    <3>1. /\ k \in changedKeys(c.batch, work) /\ last \in Changers(k)
          /\ w = last \/ Precedes(w, last)
      BY <1>1, <1>3, <2>2, <2>3, LastOfCall DEF InOrder
    <3>2. w = last
      BY <1>3, <2>2, <3>1, PrecedesAsymmetric
    <3>. QED
      BY <1>2, <1>6, <2>2, <3>1, <3>2
  <2>. QED
    BY <2>1, <2>3
<1>7. PendingIsLast(k)'
  <2>. SUFFICES ASSUME pending_commit_table'[k] # None PROVE PendingIsLast(k)'
    BY DEF PendingIsLast
  <2>1. /\ pending_commit_table'[k] = pending_commit_table[k]
        /\ pending_commit_table[k] \notin Range(c.batch)
    BY <1>6
  <2>. QED
    BY <1>1, <1>3, <1>4, <2>1 DEF InOrder, PendingIsLast, strategy
<1>11. \A u \in Transaction : Done(u, k) => Done(u, k)'
    BY DoneStays
<1>8. PendingOrKept(k)'
  <2>. SUFFICES ASSUME NEW tx \in Changers(k), ~Done(tx, k), tx \notin Range(c.batch)
                PROVE  \E last \in Changers(k)' :
                          /\ last = tx \/ Precedes(tx, last)'
                          /\ last \in pending_prepare_records'
                          /\ pending_commit_table'[k] = last \/ Keeps(last, k)'
    BY <1>2, <1>3, <1>11 DEF PendingOrKept, Done
  <2>1. PICK last \in Changers(k) :
           /\ last = tx \/ Precedes(tx, last)
           /\ last \in pending_prepare_records
           /\ pending_commit_table[k] = last \/ Keeps(last, k)
    BY <1>3 DEF InOrder, PendingOrKept
  <2>2. ASSUME last \in Range(c.batch) PROVE FALSE
    <3>1. Precedes(tx, last) /\ pc[last] = "committing"
      BY <1>5, <2>1, <2>2
    <3>2. Batched(tx, last)
      BY <1>3, <3>1 DEF InOrder, CommitsInOrder, Sent
    <3>. QED
      BY <2>2, <3>2, BatchedTogether
  <2>3. pending_commit_table[k] = last => pending_commit_table'[k] = last
    <3>1. c.batch \in Seq(Transaction)
      BY BatchTyped DEF LockInv, Typed
    <3>2. k \in changedKeys(c.batch, work) => lastChanger(k, c.batch, work) \in Range(c.batch)
      BY <3>1, LastChanger
    <3>. QED
      BY <1>2, <2>2, <3>2
  <2>4. Keeps(last, k)' <=> Keeps(last, k)
    BY <1>1 DEF Keeps
  <2>. QED
    BY <1>1, <1>3, <2>1, <2>2, <2>3, <2>4
<1>9. DependsOnChangers(k)'
    BY <1>1, <1>3, <1>11 DEF InOrder, DependsOnChangers
<1>10. CommitsInOrder(k)'
  <2>1. ASSUME NEW batch \in Batches, commit(batch) PROVE FALSE
    <3>1. PICK d : d.at = "holder" /\ commits' = (commits \ {c}) \cup {d}
      BY <1>1, Advanced
    <3>2. c \in commits'
      BY <2>1 DEF commit
    <3>. QED
      BY <1>1, <3>1, <3>2
  <2>. QED
    BY <1>1, <1>3, <2>1, CommitsInOrderStays DEF InOrder, Sent
<1>. QED
    BY <1>7, <1>8, <1>9, <1>10 DEF InOrder

---------------------------------------------------------------------------

LEMMA InitOrder == Init /\ EvenDecisions => OrderInv
<1>. SUFFICES ASSUME Init, EvenDecisions PROVE OrderInv
    OBVIOUS
<1>1. DOMAIN << >> = {}
    BY SMTT(30)
<1>2. \A tx \in Transaction : Even(tx)
    BY <1>1 DEF Init, Even
<1>3. \A tx \in Transaction : ~Published(tx)
    BY <1>1 DEF Init, Published, Logged, Range
<1>4. \A k \in Key : InOrder(k)
    BY <1>3 DEF Init, InOrder, PendingIsLast, PendingOrKept, DependsOnChangers, CommitsInOrder, Changers
<1>. QED
    BY <1>2, <1>4 DEF Init, OrderInv

LEMMA NextOrder == LockInv /\ RecordInv /\ RecordInv' /\ OrderInv /\ [Next]_vars => OrderInv'
<1>. SUFFICES ASSUME LockInv, RecordInv, RecordInv', OrderInv, [Next]_vars PROVE OrderInv'
    OBVIOUS
<1>1. DOMAIN request' = Transaction /\ \A u \in Transaction : Even(u)'
    BY EvenStays DEF OrderInv
<1>2. EvenDecisions'
    BY Writers DEF OrderInv, EvenDecisions, strategy, Changes, work
<1>3. ASSUME NoneOvertaken', NEW k \in Key PROVE InOrder(k)'
  <2>1. NoneOvertaken
    BY <1>3, OvertakenStays DEF NoneOvertaken
  <2>2. CASE \E tx \in Transaction : preparePublish(tx)
    BY <2>1, <2>2, PublishInOrder
  <2>3. CASE \E batch \in Batches : commit(batch)
    BY <2>1, <2>3, CommitInOrder
  <2>4. CASE /\ \A tx \in Transaction : ~preparePublish(tx)
             /\ \A batch \in Batches : ~commit(batch)
    <3>1. SameOrder
      BY <2>1, <2>4, OrderStays
    <3>2. CASE \E c \in commits : commitRetire(c)
      BY <2>1, <3>1, <3>2, RetireInOrder
    <3>3. CASE UNCHANGED pendingVars
      BY <2>1, <2>4, <3>1, <3>3, QuietOrder
    <3>. QED
      BY <2>4, <3>2, <3>3, Writers
  <2>. QED
    BY <2>2, <2>3, <2>4
<1>. QED
    BY <1>1, <1>2, <1>3 DEF OrderInv

LEMMA OrderInvHolds == Spec /\ EvenDecisions => [](LockInv /\ RecordInv /\ OrderInv)
<1>1. Init /\ EvenDecisions => OrderInv
    BY InitOrder
<1>2. LockInv /\ RecordInv /\ RecordInv' /\ OrderInv /\ [Next]_vars => OrderInv'
    BY NextOrder
<1>. QED
    BY <1>1, <1>2, RecordInvHolds, PTL DEF Spec

(* A transaction that is over has left no record, pending entry, soft      *)
(* release, request or lock behind.                                        *)
THEOREM FinishedLeavesNothingHolds == Spec /\ EvenDecisions => []FinishedLeavesNothing
<1>1. LockInv /\ RecordInv /\ OrderInv => FinishedLeavesNothing
  <2>. SUFFICES ASSUME LockInv, RecordInv, OrderInv, NoneOvertaken, NEW tx \in Transaction, Finished(tx)
                PROVE  /\ tx \notin pending_prepare_records
                       /\ tx \notin Range(pending_commit_table)
                       /\ tx \notin lock.soft_released
                       /\ tx # lock.current_holder
                       /\ \A q \in Range(lock.waiting_to_acquire) : q.transaction # tx
    BY DEF FinishedLeavesNothing
  <2>1. \/ pc[tx] = "committed" /\ aborting[tx] = "no"
        \/ pc[tx] = "active" /\ aborting[tx] = "done"
    BY DEF Finished, Committed, NoneOvertaken, AbortedInCall
  <2>2. tx \notin pending_prepare_records
    BY <2>1 DEF RecordInv, Recorded, LockInv, Calls
  <2>3. tx \notin Range(pending_commit_table)
    <3>1. DOMAIN pending_commit_table = Key /\ tx # None
      BY NoneAssumption DEF RecordInv, RecordTyped, PendingCommitTable
    <3>2. \A k \in Key : pending_commit_table[k] # tx
      BY <2>2, <3>1 DEF OrderInv, InOrder, PendingIsLast
    <3>. QED
      BY <3>1, <3>2 DEF Range
  <2>4. tx \notin lock.soft_released
    BY <2>1, Alone DEF Exclusive
  <2>5. tx # lock.current_holder
    <3>1. ~InCriticalSection(tx)
      BY <2>1 DEF InCriticalSection
    <3>2. Owner(tx)
      BY DEF LockInv
    <3>3. holder # tx
      BY <2>1, <3>1, <3>2 DEF Owner
    <3>. QED
      BY <3>3 DEF holder
  <2>6. ASSUME NEW q \in Range(lock.waiting_to_acquire), q.transaction = tx PROVE FALSE
    BY <2>1, <2>6 DEF LockInv, Requests, Outstanding, queue
  <2>. QED
    BY <2>2, <2>3, <2>4, <2>5, <2>6
<1>. QED
    BY <1>1, OrderInvHolds, PTL

---------------------------------------------------------------------------
(* What is read and stored.                                                *)

(* tx has not published, and may still do so.                              *)
Reading(tx) ==
    aborting[tx] = "no" /\ pc[tx] \in 
              {"active", "get", "getStorage", "releaseReadOnly", "acquire", "decide"}

Before(u, tx) == Published(u) /\ (Published(tx) => Precedes(u, tx))

(* What tx has read of the key is the last change published before its own. *)
ReadsLast(tx, k) ==
    LET writer == from[tx][k]
    IN  Reading(tx) \/ Published(tx) =>
           /\ writer # None => writer \in Changers(k) /\ Before(writer, tx)
           /\ \A u \in Changers(k) : u # tx /\ Before(u, tx) =>
                 writer # None /\ (u = writer \/ Precedes(u, writer))

ReadsDone(tx) ==
    pc[tx] \in {"acquire", "decide"} \/ Published(tx) => DOMAIN from[tx] = Reads(tx)

Buffered(tx) == Retired(tx) \/ \E c \in commits : tx \in Range(c.batch) /\ c.at = "retire"

BufferIsLast(k) ==
    LET last == buffer[k]
    IN  /\ last # None => Buffered(last) /\ last \in Changers(k)
        /\ \A tx \in Changers(k) : Buffered(tx) => last # None /\ (tx = last \/ Precedes(tx, last))

(* Storage has seen the changes of a key in the order of publication, none *)
(* left out.                                                               *)
AppliedInOrder(k) ==
    \A i \in 1..Len(applied[k]) :
       LET tx == applied[k][i]
       IN  k \in Changes(tx) =>
              /\ \A j \in 1..(i - 1) : k \in Changes(applied[k][j]) => Precedes(applied[k][j], tx)
              /\ \A u \in Changers(k) : Precedes(u, tx) => \E j \in 1..(i - 1) : applied[k][j] = u

ValueInv ==
    NoneOvertaken =>
       /\ NoPanic
       /\ \A k \in Key \ overlapped : BufferIsLast(k) /\ AppliedInOrder(k)
       /\ \A tx \in Transaction :
             /\ ReadsDone(tx)
             /\ \A k \in DOMAIN from[tx] \ overlapped : ReadsLast(tx, k)
             /\ pc[tx] = "getStorage" /\ key[tx] \notin overlapped =>
                   \A u \in Changers(key[tx]) : Retired(u)

---------------------------------------------------------------------------
(* Steps of the order of publication                                       *)

LEMMA OrderGrows ==
    ASSUME LockInv, RecordInv, NoneOvertaken, [Next]_vars
    PROVE  /\ scenario' = scenario
           /\ \A u \in Transaction : Published(u) => Published(u)'
           /\ \A u, t \in Transaction : Precedes(u, t) => Precedes(u, t)'
           /\ \A u, t \in Transaction : Published(t) => (Precedes(u, t)' <=> Precedes(u, t))
<1>1. scenario' = scenario
    BY Writers
<1>2. CASE \A tx \in Transaction : ~preparePublish(tx)
  <2>1. SameOrder
    BY <1>2, OrderStays
  <2>. QED
    BY <1>1, <2>1 DEF SameOrder
<1>3. CASE \E tx \in Transaction : preparePublish(tx)
  <2>1. PICK tx \in Transaction : preparePublish(tx)
    BY <1>3
  <2>2. /\ \A u \in Transaction : Published(u)' <=> Published(u) \/ u = tx
        /\ ~Published(tx)
        /\ \A u, t \in Transaction : Precedes(u, t)' <=> \/ Precedes(u, t)
                                                         \/ Published(u) /\ t = tx
    BY <2>1, PublishOrder
  <2>. QED
    BY <1>1, <2>2
<1>. QED
    BY <1>2, <1>3

LEMMA ChangersGrow ==
    ASSUME LockInv, RecordInv, NoneOvertaken, [Next]_vars, NEW k
    PROVE  /\ Changers(k) \subseteq Changers(k)' /\ Changers(k) \subseteq Transaction
           /\ \A u \in Changers(k)' : Published(u) => u \in Changers(k)
<1>1. /\ scenario' = scenario
      /\ \A u \in Transaction : Published(u) => Published(u)'
    BY OrderGrows
<1>2. \A u : Changes(u)' = Changes(u)
    BY <1>1 DEF Changes, work
<1>. QED
    BY <1>1, <1>2 DEF Changers

(* No handler panics.                                                      *)
LEMMA PanicFree ==
    ASSUME LockInv, RecordInv, OrderInv, NoneOvertaken, [Next]_vars, NoPanic
    PROVE  NoPanic'
<1>1. CASE panicked' = panicked
    BY <1>1 DEF NoPanic
<1>2. CASE \E tx \in Transaction : getPending(tx)
  <2>1. PICK tx \in Transaction : getPending(tx)
    BY <1>2
  <2>. DEFINE dependency == pending_commit_table[key[tx]]
  <2>2. key[tx] \in Key
    BY <2>1, WorkTyped DEF getPending, LockInv, Local
  <2>3. dependency # None =>
           dependency \in pending_prepare_records /\ key[tx] \in Changes(dependency)
    BY <2>2 DEF OrderInv, InOrder, PendingIsLast, RecordInv, PendingPublished
  <2>4. panicked' = panicked
    BY <2>1, <2>3 DEF getPending
  <2>. QED
    BY <2>4 DEF NoPanic
<1>3. CASE \E c \in commits : commitCollect(c)
  <2>1. PICK c \in commits : commitCollect(c)
    BY <1>3
  <2>2. Range(c.batch) \subseteq pending_prepare_records
    <3>1. c.at \in Unretired
      BY <2>1 DEF commitCollect, Unretired
    <3>2. \A u \in Range(c.batch) : u \in Transaction
      BY BatchTyped DEF LockInv
    <3>. QED
      BY <3>1, <3>2 DEF RecordInv, Recorded
  <2>. QED
    BY <2>1, <2>2 DEF commitCollect, NoPanic
<1>. QED
    BY <1>1, <1>2, <1>3, Writers

---------------------------------------------------------------------------
(* The prefetching buffer holds the last change that commits have put      *)
(* there.                                                                  *)

LEMMA BufferedPlace ==
    ASSUME LockInv, RecordInv, NEW u \in Transaction, Buffered(u)
    PROVE  Published(u) /\ pc[u] \in {"committing", "committed"}
<1>1. CASE Retired(u)
  <2>1. Published(u)
    BY <1>1 DEF Retired, Published
  <2>. QED
    BY <1>1, <2>1, PublishedPlace
<1>2. CASE \E c \in commits : u \in Range(c.batch)
    BY <1>2, InCall
<1>. QED
    BY <1>1, <1>2 DEF Buffered

(* A change that retires was in a call.                                    *)
LEMMA RetiresFromCall ==
    ASSUME LockInv, RecordInv, [Next]_vars, NEW u \in Transaction, Retired(u)', ~Retired(u)
    PROVE  \E c \in commits : u \in Range(c.batch) /\ c.at = "retire"
<1>1. CASE \E c \in commits : commitRetire(c)
  <2>1. PICK c \in commits : commitRetire(c)
    BY <1>1
  <2>2. u \in Range(c.batch)
    BY <2>1, Retires
  <2>. QED
    BY <2>1, <2>2 DEF commitRetire
<1>2. CASE pending_prepare_records \subseteq pending_prepare_records'
  <2>1. u \notin pending_prepare_records /\ u \in Range(wal') /\ u \notin Range(wal)
    BY <1>2 DEF Retired, Logged
  <2>2. PICK tx \in Transaction : prepareAppend(tx)
    BY <2>1, LogSteps
  <2>3. u = tx /\ pc[u] = "append"
    BY <2>1, <2>2, Appends DEF Logged
  <2>. QED
    BY <2>1, <2>3 DEF RecordInv, Recorded
<1>3. ASSUME NEW tx \in Transaction, preparePublish(tx)
      PROVE  pending_prepare_records \subseteq pending_prepare_records'
    BY <1>3 DEF preparePublish, publish
<1>. QED
    BY <1>1, <1>2, <1>3, Writers DEF pendingVars

LEMMA BufferedSteps ==
    ASSUME LockInv, RecordInv, [Next]_vars, NEW u \in Transaction
    PROVE  Buffered(u)' <=> \/ Buffered(u)
                            \/ \E c \in commits : commitBuffer(c) /\ u \in Range(c.batch)
<1>1. ASSUME NEW c \in commits, commitBuffer(c), u \in Range(c.batch) PROVE Buffered(u)'
  <2>1. Advance(c, "retire")
    BY <1>1 DEF commitBuffer
  <2>2. \E d : d.batch = c.batch /\ d.at = "retire" /\ commits' = (commits \ {c}) \cup {d}
    BY <2>1, Advanced
  <2>3. PICK d : d.batch = c.batch /\ d.at = "retire" /\ commits' = (commits \ {c}) \cup {d}
    BY <2>2
  <2>. QED
    BY <1>1, <2>3 DEF Buffered
<1>2. ASSUME Retired(u) PROVE Buffered(u)'
  <2>1. Retired(u)'
    BY <1>2, RetiredStays
  <2>. QED
    BY <2>1 DEF Buffered
<1>3. ASSUME NEW c \in commits, c.at = "retire", u \in Range(c.batch) PROVE Buffered(u)'
  <2>1. ~commitClean(c)
    BY <1>3 DEF commitClean
  <2>2. PICK d \in commits' : d.batch = c.batch /\ (d.at = "retire" \/ commitRetire(c))
    BY <1>3, <2>1, CallGoesOn
  <2>3. CASE d.at = "retire"
    BY <1>3, <2>2, <2>3 DEF Buffered
  <2>4. CASE commitRetire(c)
    <3>1. Retired(u)'
      BY <1>3, <2>4, Retires
    <3>. QED
      BY <3>1 DEF Buffered
  <2>. QED
    BY <2>2, <2>3, <2>4
<1>4. ASSUME Retired(u)' PROVE Buffered(u)
    BY <1>4, RetiresFromCall DEF Buffered
<1>5. ASSUME NEW d \in commits', d.at = "retire", u \in Range(d.batch)
      PROVE  Buffered(u) \/ \E c \in commits : commitBuffer(c) /\ u \in Range(c.batch)
  <2>1. d \in commits \/ \E c \in commits : commitBuffer(c) /\ d.batch = c.batch
    BY <1>5, CallArrives
  <2>. QED
    BY <1>5, <2>1 DEF Buffered
<1>6. Buffered(u)' => Retired(u)' \/ \E d \in commits' : d.at = "retire" /\ u \in Range(d.batch)
    BY DEF Buffered
<1>7. Buffered(u) => Retired(u) \/ \E c \in commits : c.at = "retire" /\ u \in Range(c.batch)
    BY DEF Buffered
<1>. QED
    BY <1>1, <1>2, <1>3, <1>4, <1>5, <1>6, <1>7

LEMMA BufferQuiet ==
    ASSUME LockInv, RecordInv, NoneOvertaken, [Next]_vars, NEW k \in Key, BufferIsLast(k),
           \A c \in commits : ~commitBuffer(c)
    PROVE  BufferIsLast(k)'
<1>. DEFINE last == buffer[k]
<1>1. buffer' = buffer /\ last \in Transaction \cup {None}
    BY Writers DEF RecordInv, RecordTyped, PendingCommitTable
<1>2. \A u \in Transaction : Buffered(u)' <=> Buffered(u)
    BY BufferedSteps
<1>3. /\ Changers(k) \subseteq Changers(k)' /\ Changers(k)' \subseteq Transaction
      /\ \A u \in Changers(k)' : Published(u) => u \in Changers(k)
    BY ChangersGrow DEF Changers
<1>4. \A u, t \in Transaction : Precedes(u, t) => Precedes(u, t)'
    BY OrderGrows
<1>5. last # None => Buffered(last)' /\ last \in Changers(k)'
    BY <1>1, <1>2, <1>3 DEF BufferIsLast
<1>6. ASSUME NEW tx \in Changers(k)', Buffered(tx)'
      PROVE  last # None /\ (tx = last \/ Precedes(tx, last)')
  <2>1. tx \in Transaction /\ Buffered(tx)
    BY <1>2, <1>3, <1>6
  <2>2. tx \in Changers(k)
    BY <1>3, <1>6, <2>1, BufferedPlace
  <2>3. last # None /\ (tx = last \/ Precedes(tx, last))
    BY <2>1, <2>2 DEF BufferIsLast
  <2>. QED
    BY <1>1, <1>4, <2>1, <2>3
<1>7. \A tx \in Changers(k)' : Buffered(tx)' => last # None /\ (tx = last \/ Precedes(tx, last)')
    BY <1>6
<1>. QED
    BY <1>1, <1>5, <1>7 DEF BufferIsLast

LEMMA BufferInOrder ==
    ASSUME LockInv, RecordInv, NoneOvertaken, [Next]_vars, NEW k \in Key \ overlapped,
           BufferIsLast(k), CommitsInOrder(k), NEW c \in commits, commitBuffer(c)
    PROVE  BufferIsLast(k)'
<1>1. /\ c.at \in Unretired /\ c.at # "retire" /\ pc' = pc /\ Advance(c, "retire")
      /\ buffer'[k] = IF k \in changedKeys(c.batch, work)
                      THEN lastChanger(k, c.batch, work) ELSE buffer[k]
    BY DEF commitBuffer, handlerVars, Unretired
<1>2. \A u \in Transaction : Buffered(u)' <=> Buffered(u) \/ u \in Range(c.batch)
  <2>1. ASSUME NEW d \in commits, commitBuffer(d) PROVE d = c
    <3>1. d.at = "buffer" /\ Advance(d, "retire")
      BY <2>1 DEF commitBuffer
    <3>2. \E d1 : d1.at = "retire" /\ commits' = (commits \ {d}) \cup {d1}
      BY <3>1, Advanced
    <3>3. \E c1 : c1.at = "retire" /\ commits' = (commits \ {c}) \cup {c1}
      BY <1>1, Advanced
    <3>4. c.at = "buffer"
      BY DEF commitBuffer
    <3>5. "buffer" # "retire"
      OBVIOUS
    <3>. QED
      BY <3>1, <3>2, <3>3, <3>4, <3>5
  <2>. QED
    BY <2>1, BufferedSteps
<1>3. SameOrder
  <2>1. \A tx \in Transaction : ~preparePublish(tx)
    BY <1>1, Publishes DEF preparePublish
  <2>. QED
    BY <2>1, OrderStays
<1>4. /\ Changers(k)' = Changers(k) /\ Changers(k) \subseteq Transaction
      /\ \A u, t \in Transaction : Precedes(u, t)' <=> Precedes(u, t)
    BY <1>3, Writers DEF SameOrder, Changers, Changes, work
<1>5. Range(c.batch) \subseteq Transaction
    BY BatchTyped DEF LockInv
<1>6. CASE k \in changedKeys(c.batch, work)
  <2>1. PICK last : last = lastChanger(k, c.batch, work)
    OBVIOUS
  <2>2. /\ last \in Range(c.batch) /\ last \in Changers(k) /\ last # None
    <3>1. c.batch \in Seq(Transaction)
      BY BatchTyped DEF LockInv
    <3>2. last \in Range(c.batch) /\ k \in Changes(last)
      BY <1>6, <2>1, <3>1, LastChanger DEF Changes
    <3>3. last \in Changers(k)
      BY <3>2, InCall DEF Changers
    <3>. QED
      BY <3>2, <3>3, <1>4, NoneAssumption
  <2>3. ASSUME NEW tx \in Changers(k), Buffered(tx)'
        PROVE  tx = last \/ Precedes(tx, last)
    <3>1. CASE tx \in Range(c.batch)
      BY <1>1, <2>1, <3>1, LastOfCall DEF Changers
    <3>2. CASE tx \notin Range(c.batch)
      <4>1. Sent(tx)
        BY <1>2, <1>4, <2>3, <3>2, BufferedPlace DEF Sent
      <4>2. PICK i \in 1..Len(c.batch) : c.batch[i] = last
        BY <2>2, IndexInCall
      <4>3. k \in Changes(c.batch[i])
        BY <2>2, <4>2 DEF Changers
      <4>4. Precedes(tx, c.batch[i])
        BY <1>1, <3>2, <4>1, <4>2, <4>3, CallInOrder
      <4>. QED
        BY <4>2, <4>4
    <3>. QED
      BY <3>1, <3>2
  <2>4. buffer'[k] = last
    BY <1>1, <1>6, <2>1
  <2>5. Buffered(last)' /\ last \in Changers(k)'
    BY <1>2, <1>4, <1>5, <2>2
  <2>6. \A tx \in Changers(k)' : Buffered(tx)' => tx = last \/ Precedes(tx, last)'
    BY <1>4, <2>2, <2>3
  <2>. QED
    BY <2>2, <2>4, <2>5, <2>6 DEF BufferIsLast
<1>7. CASE k \notin changedKeys(c.batch, work)
  <2>1. PICK last : last = buffer[k]
    OBVIOUS
  <2>2. buffer'[k] = last /\ last \in Transaction \cup {None}
    BY <1>1, <1>7, <2>1 DEF RecordInv, RecordTyped, PendingCommitTable
  <2>3. ASSUME NEW tx \in Changers(k), tx \in Range(c.batch) PROVE FALSE
    BY <1>1, <1>7, <2>3, LastOfCall DEF Changers
  <2>4. \A tx \in Changers(k) : Buffered(tx)' <=> Buffered(tx)
    BY <1>2, <1>4, <2>3
  <2>5. last # None => Buffered(last)' /\ last \in Changers(k)'
    BY <1>4, <2>1, <2>4 DEF BufferIsLast
  <2>6. \A tx \in Changers(k)' : Buffered(tx)' => last # None /\ (tx = last \/ Precedes(tx, last)')
    BY <1>4, <2>1, <2>2, <2>4 DEF BufferIsLast
  <2>. QED
    BY <2>2, <2>5, <2>6 DEF BufferIsLast
<1>. QED
    BY <1>6, <1>7

---------------------------------------------------------------------------
(* Storage sees the changes in the order of publication.                   *)

LEMMA AppliedPlace ==
    ASSUME LockInv, RecordInv, NEW k \in Key
    PROVE  /\ applied[k] \in Seq(Transaction) /\ Len(applied[k]) \in Nat
           /\ \A i \in 1..Len(applied[k]) : applied[k][i] \in Range(applied[k])
           /\ \A u \in Range(applied[k]) : \E i \in 1..Len(applied[k]) : applied[k][i] = u
           /\ \A u \in Range(applied[k]) :
                 u \in Transaction /\ Published(u) /\ pc[u] \in {"committing", "committed"}
           /\ \A c \in commits : c.at = "upsert" => Range(c.batch) \cap Range(applied[k]) = {}
<1>1. applied[k] \in Seq(Transaction)
    BY DEF RecordInv, RecordTyped
<1>2. Len(applied[k]) \in Nat /\ DOMAIN applied[k] = 1..Len(applied[k])
    BY <1>1, SMTT(30)
<1>3. Range(applied[k]) \subseteq Transaction
    BY <1>1, <1>2, SMTT(30) DEF Range
<1>4. ASSUME NEW u \in Range(applied[k])
      PROVE  /\ u \in Transaction /\ Published(u) /\ pc[u] \in {"committing", "committed"}
             /\ \A c \in commits : c.at = "upsert" => u \notin Range(c.batch)
  <2>1. Retired(u) \/ \E c \in commits : u \in Range(c.batch) /\ c.at \in {"failed", "buffer", "retire"}
    BY DEF RecordInv, StoredBy
  <2>2. CASE Retired(u)
    <3>1. Buffered(u)
      BY <2>2 DEF Buffered
    <3>2. Published(u) /\ pc[u] \in {"committing", "committed"}
      BY <1>3, <3>1, BufferedPlace
    <3>3. ASSUME NEW c \in commits, c.at = "upsert", u \in Range(c.batch) PROVE FALSE
      BY <2>2, <3>3, InCall DEF Unretired
    <3>. QED
      BY <1>3, <3>2, <3>3
  <2>3. ASSUME NEW d \in commits, u \in Range(d.batch), d.at # "upsert"
        PROVE  /\ Published(u) /\ pc[u] \in {"committing", "committed"}
               /\ \A c \in commits : c.at = "upsert" => u \notin Range(c.batch)
    BY <2>3, InCall
  <2>4. \A p \in {"failed", "buffer", "retire"} : p # "upsert"
    OBVIOUS
  <2>. QED
    BY <1>3, <2>1, <2>2, <2>3, <2>4
<1>5. /\ \A i \in 1..Len(applied[k]) : applied[k][i] \in Range(applied[k])
      /\ \A u \in Range(applied[k]) : \E i \in 1..Len(applied[k]) : applied[k][i] = u
    BY <1>2 DEF Range
<1>. QED
    BY <1>1, <1>2, <1>4, <1>5

LEMMA AppliedQuiet ==
    ASSUME LockInv, RecordInv, NoneOvertaken, [Next]_vars, NEW k \in Key, AppliedInOrder(k),
           applied'[k] = applied[k]
    PROVE  AppliedInOrder(k)'
<1>1. \A u : Changes(u)' = Changes(u)
    BY Writers DEF Changes, work
<1>2. \A i \in 1..Len(applied[k]) : applied[k][i] \in Transaction /\ Published(applied[k][i])
    BY AppliedPlace
<1>3. \A u, t \in Transaction : Published(t) => (Precedes(u, t)' <=> Precedes(u, t))
    BY OrderGrows
<1>4. Len(applied[k]) \in Nat
    BY AppliedPlace
<1>5. ASSUME NEW i \in 1..Len(applied[k]), NEW tx, tx = applied[k][i], k \in Changes(tx)
      PROVE  /\ \A j \in 1..(i - 1) : k \in Changes(applied[k][j]) => Precedes(applied[k][j], tx)
             /\ \A u \in Changers(k) : Precedes(u, tx) => \E j \in 1..(i - 1) : applied[k][j] = u
    BY <1>5 DEF AppliedInOrder
<1>6. ASSUME NEW i \in 1..Len(applied[k]), NEW tx, tx = applied[k][i], k \in Changes(tx)
      PROVE  /\ \A j \in 1..(i - 1) : \A a : a = applied[k][j] /\ k \in Changes(a) => Precedes(a, tx)'
             /\ \A u \in Changers(k)' : Precedes(u, tx)' => \E j \in 1..(i - 1) : applied[k][j] = u
  <2>1. tx \in Transaction /\ Published(tx)
    BY <1>2, <1>6
  <2>2. \A j \in 1..(i - 1) : j \in 1..Len(applied[k])
    BY <1>4, SMTT(30)
  <2>3. ASSUME NEW u \in Changers(k)', Precedes(u, tx)'
        PROVE  \E j \in 1..(i - 1) : applied[k][j] = u
    <3>1. u \in Transaction
      BY DEF Changers
    <3>2. Precedes(u, tx)
      BY <1>3, <2>1, <2>3, <3>1
    <3>3. u \in Changers(k)
      BY <2>1, <3>1, <3>2, ChangersGrow, PrecedesStrict
    <3>. QED
      BY <1>5, <1>6, <3>2, <3>3
  <2>4. ASSUME NEW j \in 1..(i - 1), NEW a, a = applied[k][j], k \in Changes(a)
        PROVE  Precedes(a, tx)'
    <3>1. a \in Transaction
      BY <1>2, <2>2, <2>4
    <3>2. Precedes(a, tx)
      BY <1>5, <1>6, <2>4
    <3>. QED
      BY <1>3, <2>1, <3>1, <3>2
  <2>. QED
    BY <2>3, <2>4
<1>7. SUFFICES ASSUME NEW i \in 1..Len(applied'[k]), (k \in Changes(applied[k][i]))'
               PROVE  (/\ \A j \in 1..(i - 1) : k \in Changes(applied[k][j]) =>
                             Precedes(applied[k][j], applied[k][i])
                       /\ \A u \in Changers(k) : Precedes(u, applied[k][i]) =>
                             \E j \in 1..(i - 1) : applied[k][j] = u)'
    BY DEF AppliedInOrder
<1>8. PICK tx : tx = applied[k][i]
    OBVIOUS
<1>9. i \in 1..Len(applied[k]) /\ k \in Changes(tx)
    BY <1>1, <1>7, <1>8
<1>. QED
    BY <1>1, <1>6, <1>8, <1>9, ZenonT(40)

LEMMA UpsertInOrder ==
    ASSUME LockInv, RecordInv, NoneOvertaken, [Next]_vars, NEW k \in Key \ overlapped,
           AppliedInOrder(k), CommitsInOrder(k), NEW c \in commits, commitUpsert(c)
    PROVE  AppliedInOrder(k)'
<1>. DEFINE old == applied[k]
            n   == Len(old)
<1>1. c.at = "upsert" /\ c.at \in Unretired /\ pc' = pc
    BY DEF commitUpsert, Unretired, handlerVars
<1>2. CASE applied'[k] = old
    BY <1>2, AppliedQuiet
<1>3. CASE applied'[k] = old \o c.batch
  <2>1. c.batch \in Seq(Transaction) /\ Range(c.batch) \subseteq Transaction
    BY BatchTyped DEF LockInv
  <2>2. /\ old \in Seq(Transaction) /\ n \in Nat
        /\ \A i \in 1..n : old[i] \in Range(old)
        /\ \A u \in Range(old) : \E i \in 1..n : old[i] = u
        /\ \A u \in Range(old) :
              u \in Transaction /\ Published(u) /\ pc[u] \in {"committing", "committed"}
        /\ Range(c.batch) \cap Range(old) = {}
    BY <1>1, AppliedPlace
  <2>3. /\ Len(old \o c.batch) = n + Len(c.batch) /\ Len(c.batch) \in Nat
        /\ \A i \in 1..n : (old \o c.batch)[i] = old[i]
        /\ \A i \in 1..Len(c.batch) : (old \o c.batch)[n + i] = c.batch[i]
        /\ \A i \in 1..(n + Len(c.batch)) :
              i \in 1..n \/ \E j \in 1..Len(c.batch) : i = n + j
    <3>. DEFINE s == old
                t == c.batch
    <3>1. s \in Seq(Transaction) /\ t \in Seq(Transaction)
      BY <2>1, <2>2
    <3>. HIDE DEF s, t
    <3>2. Len(s \o t) = Len(s) + Len(t) /\ Len(t) \in Nat
      BY <3>1, SMTT(30)
    <3>3. \A i \in 1..Len(s) : (s \o t)[i] = s[i]
      BY <3>1, SMTT(30)
    <3>4. \A i \in 1..Len(t) : (s \o t)[Len(s) + i] = t[i]
      BY <3>1, SMTT(30)
    <3>5. ASSUME NEW i \in 1..(Len(s) + Len(t)), i \notin 1..Len(s)
          PROVE  i - Len(s) \in 1..Len(t) /\ i = Len(s) + (i - Len(s))
      BY <3>1, <3>5, SMTT(30)
    <3>. QED
      BY <3>2, <3>3, <3>4, <3>5 DEF s, t
  <2>4. /\ \A u : Changes(u)' = Changes(u)
        /\ Changers(k)' = Changers(k)
        /\ \A u, t \in Transaction : Precedes(u, t)' <=> Precedes(u, t)
    <3>1. \A tx \in Transaction : ~preparePublish(tx)
      BY <1>1, Publishes DEF preparePublish
    <3>2. SameOrder
      BY <3>1, OrderStays
    <3>. QED
      BY <3>2, Writers DEF SameOrder, Changers, Changes, work
  <2>. HIDE DEF old, n
  <2>5. ASSUME NEW i \in 1..n, k \in Changes(old[i])
        PROVE  /\ \A j \in 1..(i - 1) : k \in Changes(old[j]) => Precedes(old[j], old[i])
               /\ \A u \in Changers(k) : Precedes(u, old[i]) => \E j \in 1..(i - 1) : old[j] = u
    BY <2>5 DEF AppliedInOrder, old, n
  <2>6. ASSUME NEW m \in 1..Len(c.batch), k \in Changes(c.batch[m])
        PROVE  /\ \A j \in 1..n : k \in Changes(old[j]) => Precedes(old[j], c.batch[m])
               /\ \A j \in 1..(m - 1) : k \in Changes(c.batch[j]) => Precedes(c.batch[j], c.batch[m])
               /\ \A u \in Changers(k) : Precedes(u, c.batch[m]) =>
                     \/ \E j \in 1..n : old[j] = u
                     \/ \E j \in 1..(m - 1) : c.batch[j] = u
    <3>1. c.batch[m] \in Changers(k) /\ Sent(c.batch[m])
      <4>1. c.batch[m] \in Range(c.batch)
        BY IndexInCall
      <4>. QED
        BY <2>6, <4>1, InCall DEF Changers, Sent
    <3>2. ASSUME NEW j \in 1..n, k \in Changes(old[j]) PROVE Precedes(old[j], c.batch[m])
      <4>1. old[j] \in Changers(k) /\ Sent(old[j]) /\ old[j] \notin Range(c.batch)
        BY <2>2, <3>2 DEF Changers, Sent
      <4>. QED
        BY <1>1, <2>6, <4>1, CallInOrder
    <3>3. ASSUME NEW j \in 1..(m - 1), k \in Changes(c.batch[j])
          PROVE  Precedes(c.batch[j], c.batch[m])
      <4>1. j \in 1..Len(c.batch) /\ j < m
        BY <2>3, SMTT(30)
      <4>. QED
        BY <1>1, <2>6, <3>3, <4>1, CallInOrder
    <3>4. ASSUME NEW u \in Changers(k), Precedes(u, c.batch[m])
          PROVE  \/ \E j \in 1..n : old[j] = u
                 \/ \E j \in 1..(m - 1) : c.batch[j] = u
      <4>1. Retired(u) \/ Batched(u, c.batch[m])
        BY <3>1, <3>4 DEF CommitsInOrder, Done
      <4>2. CASE Retired(u)
        <5>1. u \in Range(old)
          BY <4>2 DEF RecordInv, StoredBy, Changers, old
        <5>. QED
          BY <2>2, <5>1
      <4>3. CASE Batched(u, c.batch[m])
        <5>1. PICK j \in 1..Len(c.batch) : j < m /\ c.batch[j] = u
          <6>1. Batched(u, c.batch[m]) => \E j \in 1..Len(c.batch) : j < m /\ c.batch[j] = u
            BY ONLY LockInv, RecordInv, c \in commits, m \in 1..Len(c.batch), BatchedHere, ZenonT(60)
          <6>. QED
            BY <4>3, <6>1
        <5>2. j \in 1..(m - 1)
          BY <2>3, <5>1, SMTT(30)
        <5>. QED
          BY <5>1, <5>2
      <4>. QED
        BY <4>1, <4>2, <4>3
    <3>. QED
      BY <3>2, <3>3, <3>4
  <2>7. SUFFICES ASSUME NEW i \in 1..Len(applied'[k]), (k \in Changes(applied[k][i]))'
                 PROVE  (/\ \A j \in 1..(i - 1) : k \in Changes(applied[k][j]) =>
                               Precedes(applied[k][j], applied[k][i])
                         /\ \A u \in Changers(k) : Precedes(u, applied[k][i]) =>
                               \E j \in 1..(i - 1) : applied[k][j] = u)'
    BY DEF AppliedInOrder
  <2>. DEFINE new == old \o c.batch
  <2>8. i \in 1..(n + Len(c.batch))
    BY <1>3, <2>3, <2>7
  <2>9. PICK tx : tx = new[i]
    OBVIOUS
  <2>10. k \in Changes(tx)
    BY <1>3, <2>4, <2>7, <2>9
  <2>11. /\ \A j \in 1..(i - 1) : k \in Changes(new[j]) => Precedes(new[j], tx)
         /\ \A u \in Changers(k) : Precedes(u, tx) => \E j \in 1..(i - 1) : new[j] = u
    <3>1. CASE i \in 1..n
      <4>1. tx = old[i] /\ \A j \in 1..(i - 1) : new[j] = old[j]
        BY <2>2, <2>3, <2>9, <3>1, SMTT(30)
      <4>. HIDE DEF new
      <4>2. k \in Changes(old[i])
        BY <2>10, <4>1
      <4>3. /\ \A j \in 1..(i - 1) : k \in Changes(old[j]) => Precedes(old[j], old[i])
            /\ \A u \in Changers(k) : Precedes(u, old[i]) => \E j \in 1..(i - 1) : old[j] = u
        BY <2>5, <3>1, <4>2
      <4>. QED
        BY <4>1, <4>3
    <3>2. ASSUME NEW m \in 1..Len(c.batch), i = n + m
          PROVE  /\ \A j \in 1..(i - 1) : k \in Changes(new[j]) => Precedes(new[j], tx)
                 /\ \A u \in Changers(k) : Precedes(u, tx) => \E j \in 1..(i - 1) : new[j] = u
      <4>1. tx = c.batch[m]
        BY <2>3, <2>9, <3>2
      <4>2. ASSUME NEW j \in 1..(i - 1)
            PROVE  \/ j \in 1..n /\ new[j] = old[j]
                   \/ \E l \in 1..(m - 1) : new[j] = c.batch[l]
        <5>1. j \in 1..(n + Len(c.batch))
          BY <2>2, <2>3, <3>2, SMTT(30)
        <5>2. CASE j \in 1..n
          BY <2>3, <5>2
        <5>3. ASSUME NEW l \in 1..Len(c.batch), j = n + l
              PROVE  l \in 1..(m - 1) /\ new[j] = c.batch[l]
          <6>1. l \in 1..(m - 1)
            BY <2>2, <2>3, <3>2, <5>3, SMTT(30)
          <6>. QED
            BY <2>3, <5>3, <6>1
        <5>. QED
          BY <2>3, <5>1, <5>2, <5>3
      <4>3. /\ \A j \in 1..n : j \in 1..(i - 1) /\ new[j] = old[j]
            /\ \A l \in 1..(m - 1) : n + l \in 1..(i - 1) /\ new[n + l] = c.batch[l]
        <5>1. \A j \in 1..n : j \in 1..(i - 1)
          BY <2>2, <2>3, <3>2, SMTT(30)
        <5>2. \A l \in 1..(m - 1) : n + l \in 1..(i - 1) /\ l \in 1..Len(c.batch)
          BY <2>2, <2>3, <3>2, SMTT(30)
        <5>. QED
          BY <2>3, <5>1, <5>2
      <4>4. /\ \A j \in 1..n : k \in Changes(old[j]) => Precedes(old[j], tx)
            /\ \A l \in 1..(m - 1) : k \in Changes(c.batch[l]) => Precedes(c.batch[l], tx)
            /\ \A u \in Changers(k) : Precedes(u, tx) =>
                  \/ \E j \in 1..n : old[j] = u
                  \/ \E l \in 1..(m - 1) : c.batch[l] = u
        BY <2>6, <2>10, <4>1
      <4>. HIDE DEF new
      <4>5. ASSUME NEW j \in 1..(i - 1), k \in Changes(new[j]) PROVE Precedes(new[j], tx)
        BY <4>2, <4>4, <4>5
      <4>6. ASSUME NEW u \in Changers(k), Precedes(u, tx) PROVE \E j \in 1..(i - 1) : new[j] = u
        BY <4>3, <4>4, <4>6
      <4>. QED
        BY <4>5, <4>6
    <3>. QED
      BY <2>3, <2>8, <3>1, <3>2
  <2>12. tx \in Transaction /\ \A j \in 1..(i - 1) : new[j] \in Transaction
    <3>1. new \in Seq(Transaction) /\ Len(new) = n + Len(c.batch) /\ Len(new) \in Nat
      BY <2>1, <2>2, <2>3, Concatenation, SMTT(30)
    <3>. HIDE DEF new
    <3>2. i \in 1..Len(new) /\ \A j \in 1..(i - 1) : j \in 1..Len(new)
      BY <2>8, <3>1, SMTT(30)
    <3>. QED
      BY <2>9, <3>1, <3>2, SMTT(30)
  <2>13. applied'[k] = new
    BY <1>3
  <2>. HIDE DEF new
  <2>14. /\ \A j \in 1..(i - 1) : \A a : a = applied'[k][j] /\ k \in Changes(a) => Precedes(a, tx)'
         /\ \A u \in Changers(k) : Precedes(u, tx)' => \E j \in 1..(i - 1) : applied'[k][j] = u
    <3>1. ASSUME NEW u \in Changers(k), Precedes(u, tx)'
          PROVE  \E j \in 1..(i - 1) : applied'[k][j] = u
      BY <2>4, <2>11, <2>12, <2>13, <3>1 DEF Changers
    <3>2. ASSUME NEW j \in 1..(i - 1), NEW a, a = applied'[k][j], k \in Changes(a)
          PROVE  Precedes(a, tx)'
      BY <2>4, <2>11, <2>12, <2>13, <3>2
    <3>. QED
      BY <3>1, <3>2
  <2>15. applied'[k][i] = tx
    BY <2>13, <2>9
  <2>. QED
    BY <2>4, <2>14, <2>15
<1>. QED
    BY <1>2, <1>3, Upserts

---------------------------------------------------------------------------
(* What a transaction reads is the last change published.                  *)

LEMMA Arrives ==
    ASSUME LockInv, [Next]_vars, NEW u \in Transaction
    PROVE  /\ pc'[u] = "getStorage" /\ pc[u] # "getStorage" => getPending(u)
           /\ pc'[u] = "acquire" /\ pc[u] # "acquire" => prepare(u)
<1>. SUFFICES ASSUME pc'[u] \in {"getStorage", "acquire"}, pc'[u] # pc[u]
              PROVE  /\ pc'[u] = "getStorage" => getPending(u)
                     /\ pc'[u] = "acquire" => prepare(u)
    OBVIOUS
<1>1. DOMAIN pc = Transaction
    BY DEF LockInv, Typed
<1>2. pc[u] \in {"active", "get", "getStorage", "releaseReadOnly"}
    BY Moves
<1>3. CASE \E tx \in Transaction : callGet(tx) \/ getStep(tx) \/ prepare(tx) \/ prepareStep(tx)
                                      \/ abort(tx) \/ abortRelease(tx)
  <2>1. PICK tx \in Transaction : callGet(tx) \/ getStep(tx) \/ prepare(tx) \/ prepareStep(tx)
                                      \/ abort(tx) \/ abortRelease(tx)
    BY <1>3
  <2>2. CASE callGet(tx)
    <3>1. pc' = [pc EXCEPT ![tx] = "get"]
      BY <2>2 DEF callGet, get, Goto
    <3>. QED
      BY <1>1, <3>1
  <2>3. CASE getStorage(tx)
    <3>1. \E p \in {"active", "dropped"} : pc' = [pc EXCEPT ![tx] = p]
      BY <2>3 DEF getStorage, ReadFrom, Goto
    <3>. QED
      BY <1>1, <3>1
  <2>4. CASE getPending(tx)
    <3>1. \E p \in {"getStorage", "active", "dropped", "panicked"} : pc' = [pc EXCEPT ![tx] = p]
      BY <2>4 DEF getPending, ReadFrom, Goto
    <3>2. u = tx /\ pc'[u] # "acquire"
      BY <1>1, <3>1
    <3>. QED
      BY <2>4, <3>2
  <2>5. CASE prepare(tx)
    <3>1. \E p \in {"lockLost", "releaseReadOnly", "acquire"} : pc' = [pc EXCEPT ![tx] = p]
      BY <2>5 DEF prepare, Goto
    <3>2. u = tx /\ pc'[u] # "getStorage"
      BY <1>1, <3>1
    <3>. QED
      BY <2>5, <3>2
  <2>6. CASE prepareReadOnly(tx) \/ prepareAcquire(tx)
    <3>1. \E p \in {"committed", "decide"} : pc' = [pc EXCEPT ![tx] = p]
      BY <2>6 DEF prepareReadOnly, prepareAcquire, Goto
    <3>. QED
      BY <1>1, <3>1
  <2>7. CASE preparePublish(tx) \/ prepareAppend(tx) \/ prepareRelease(tx) \/ prepareFlushed(tx)
    <3>1. \E p \in {"append", "release", "flush", "prepared"} : pc' = [pc EXCEPT ![tx] = p]
      BY <2>7 DEF preparePublish, publish, prepareAppend, prepareRelease, prepareFlushed, Goto
    <3>. QED
      BY <1>1, <3>1
  <2>8. CASE abort(tx) \/ abortRelease(tx) \/ \E k \in Key : prepareDecide(tx, k)
    BY <2>8 DEF abort, abortRelease, prepareDecide, handlerVars
  <2>. QED
    BY <2>1, <2>2, <2>3, <2>4, <2>5, <2>6, <2>7, <2>8 DEF getStep, prepareStep
<1>4. CASE callCommit
  <2>1. PICK batch \in Batches : commit(batch)
    BY <1>4 DEF callCommit
  <2>2. pc'[u] = IF u \in Range(batch) THEN "committing" ELSE pc[u]
    BY <2>1 DEF commit
  <2>. QED
    BY <2>2
<1>5. CASE commitStep
  <2>1. PICK c \in commits : \/ commitCollect(c) \/ commitUpsert(c) \/ commitBuffer(c)
                             \/ commitRetire(c) \/ commitCheckHolder(c) \/ commitRelease(c)
                             \/ commitClean(c)
    BY <1>5 DEF commitStep
  <2>2. pc' = pc \/ pc'[u] = IF u \in Range(c.batch) THEN "committed" ELSE pc[u]
    BY <2>1 DEF commitCollect, commitUpsert, commitBuffer, commitRetire, commitCheckHolder,
       commitRelease, commitClean, handlerVars
  <2>. QED
    BY <2>2
<1>6. CASE UNCHANGED vars
    BY <1>6 DEF vars, handlerVars
<1>. QED
    BY <1>3, <1>4, <1>5, <1>6 DEF Next, Idle

LEMMA AbortStays ==
    ASSUME LockInv, [Next]_vars, NEW u \in Transaction, aborting'[u] = "no"
    PROVE  aborting[u] = "no"
<1>1. DOMAIN aborting = Transaction
    BY DEF LockInv, Typed
<1>2. \/ aborting' = aborting
      \/ \E tx \in Transaction : abort(tx) \/ abortRelease(tx)
  <2>1. CASE \E tx \in Transaction : callGet(tx) \/ getStep(tx) \/ prepare(tx)
    BY <2>1 DEF callGet, get, getStep, getPending, getStorage, prepare
  <2>2. CASE \E tx \in Transaction : prepareStep(tx)
    BY <2>2 DEF prepareStep, prepareReadOnly, prepareAcquire, prepareDecide, preparePublish, publish,
       prepareAppend, prepareRelease, prepareFlushed
  <2>3. CASE callCommit
    BY <2>3 DEF callCommit, commit
  <2>4. CASE commitStep
    BY <2>4 DEF commitStep, commitCollect, commitUpsert, commitBuffer, commitRetire,
       commitCheckHolder, commitRelease, commitClean
  <2>5. CASE UNCHANGED vars
    BY <2>5 DEF vars
  <2>. QED
    BY <2>1, <2>2, <2>3, <2>4, <2>5 DEF Next, Idle
<1>3. ASSUME NEW tx \in Transaction, abort(tx) \/ abortRelease(tx) PROVE aborting[u] = "no"
  <2>1. \E a \in {"release", "done"} : aborting' = [aborting EXCEPT ![tx] = a]
    BY <1>3 DEF abort, abortRelease
  <2>. QED
    BY <1>1, <2>1
<1>. QED
    BY <1>2, <1>3

LEMMA ReadSteps ==
    ASSUME LockInv, [Next]_vars, NEW u \in Transaction
    PROVE  /\ from'[u] = from[u] \/ getPending(u) \/ getStorage(u)
           /\ pc[u] # "active" => key'[u] = key[u]
<1>1. DOMAIN from = Transaction /\ DOMAIN key = Transaction
    BY DEF LockInv, Typed
<1>2. ASSUME NEW tx \in Transaction, getPending(tx) \/ getStorage(tx), tx # u
      PROVE  from'[u] = from[u]
  <2>1. from' = from \/ \E value : from' = [from EXCEPT ![tx] = value]
    BY <1>2 DEF getPending, getStorage, ReadFrom
  <2>. QED
    BY <1>1, <1>2, <2>1
<1>3. ASSUME NEW tx \in Transaction, callGet(tx), pc[u] # "active" PROVE key'[u] = key[u]
  <2>1. pc[tx] = "active" /\ \E k : key' = [key EXCEPT ![tx] = k]
    BY <1>3 DEF callGet, get
  <2>. QED
    BY <1>1, <1>3, <2>1
<1>4. \/ from' = from
      \/ \E tx \in Transaction : getPending(tx) \/ getStorage(tx)
    BY Writers
<1>5. key' = key \/ \E tx \in Transaction : callGet(tx)
    BY Writers
<1>. QED
    BY <1>2, <1>3, <1>4, <1>5

(* A transaction that has read and not yet published holds the lock.       *)
LEMMA ReaderHolds ==
    ASSUME LockInv, NoneOvertaken, NEW tx \in Transaction, NEW k \in DOMAIN from[tx], Reading(tx)
    PROVE  holder = tx
<1>1. from[tx] # << >> /\ HasReads(tx)
  <2>1. DOMAIN << >> = {}
    BY SMTT(30)
  <2>. QED
    BY <2>1 DEF LockInv, Local, HasReads
<1>2. InCriticalSection(tx)
    BY <1>1 DEF InCriticalSection, Reading
<1>. QED
    BY <1>2, Alone DEF Exclusive

LEMMA ReadingStays ==
    ASSUME LockInv, [Next]_vars, NEW u \in Transaction, Reading(u)'
    PROVE  Reading(u)
<1>1. aborting[u] = "no"
    BY AbortStays DEF Reading
<1>2. pc[u] \in {"active", "get", "getStorage", "releaseReadOnly", "acquire", "decide"}
    BY Moves DEF Reading
<1>. QED
    BY <1>1, <1>2 DEF Reading

(* What has been read stays the last change before the reader's own.       *)
LEMMA ReadsLastStays ==
    ASSUME LockInv, RecordInv, NoneOvertaken, [Next]_vars, NEW tx \in Transaction,
           NEW k \in DOMAIN from[tx], from'[tx][k] = from[tx][k], ReadsLast(tx, k)
    PROVE  ReadsLast(tx, k)'
<1>1. PICK writer : writer = from[tx][k]
    OBVIOUS
<1>. SUFFICES ASSUME Reading(tx)' \/ Published(tx)'
              PROVE  /\ writer # None => writer \in Changers(k)' /\ Before(writer, tx)'
                     /\ \A u \in Changers(k)' : u # tx /\ Before(u, tx)' =>
                           writer # None /\ (u = writer \/ Precedes(u, writer)')
    BY <1>1 DEF ReadsLast
<1>2. Changers(k) \subseteq Transaction /\ Changers(k)' \subseteq Transaction
    BY DEF Changers
<1>3. Reading(tx) \/ Published(tx) =>
         /\ writer # None => writer \in Changers(k) /\ Before(writer, tx)
         /\ \A u \in Changers(k) : u # tx /\ Before(u, tx) =>
               writer # None /\ (u = writer \/ Precedes(u, writer))
    BY <1>1 DEF ReadsLast
<1>4. CASE \A t \in Transaction : ~preparePublish(t)
  <2>1. SameOrder
    BY <1>4, OrderStays
  <2>2. /\ Changers(k)' = Changers(k)
        /\ \A u, t \in Transaction : Precedes(u, t)' <=> Precedes(u, t)
        /\ \A u \in Transaction : Published(u)' <=> Published(u)
    BY <2>1, Writers DEF SameOrder, Changers, Changes, work
  <2>3. \A u \in Transaction : Before(u, tx)' <=> Before(u, tx)
    BY <2>2 DEF Before
  <2>4. Reading(tx) \/ Published(tx)
    BY <2>2, ReadingStays
  <2>. QED
    BY <1>2, <1>3, <2>2, <2>3, <2>4
<1>5. CASE \E t \in Transaction : preparePublish(t)
  <2>1. PICK t \in Transaction : preparePublish(t)
    BY <1>5
  <2>2. /\ \A u \in Transaction : Published(u)' <=> Published(u) \/ u = t
        /\ ~Published(t)
        /\ \A u, v \in Transaction : Precedes(u, v)' <=> \/ Precedes(u, v)
                                                         \/ Published(u) /\ v = t
    BY <2>1, PublishOrder
  <2>3. /\ Changers(k) \subseteq Changers(k)'
        /\ \A u \in Changers(k)' : Published(u) => u \in Changers(k)
    BY ChangersGrow
  <2>4. pc[t] = "decide" /\ Request(t) \in granted /\ pc'[t] = "append"
    BY <2>1, Publishes DEF preparePublish, publish
  <2>5. holder = t /\ aborting[t] = "no"
    BY <2>4, Alone
  <2>6. CASE tx = t
    <3>1. Reading(tx)
      BY <2>4, <2>5, <2>6 DEF Reading
    <3>2. \A u \in Transaction : u # t => (Before(u, tx)' <=> Before(u, tx))
      BY <2>2, <2>6, PrecedesStrict DEF Before
    <3>3. writer # None => writer # t
      BY <1>3, <2>2, <3>1 DEF Before
    <3>4. \A u \in Changers(k)' : u # t => u \in Changers(k)
      <4>1. \A u \in Changers(k)' : Published(u)'
        BY DEF Changers
      <4>. QED
        BY <1>2, <2>2, <2>3, <4>1
    <3>. QED
      BY <1>2, <1>3, <2>2, <2>3, <2>6, <3>1, <3>2, <3>3, <3>4
  <2>7. CASE tx # t
    <3>1. ~Reading(tx)'
      BY <2>5, <2>7, ReaderHolds, ReadingStays
    <3>2. Published(tx)
      BY <2>2, <2>7, <3>1
    <3>3. \A u \in Transaction : Before(u, tx)' <=> Before(u, tx)
      BY <2>2, <2>7, <3>2, PrecedesStrict DEF Before
    <3>4. ASSUME NEW u \in Changers(k)', Before(u, tx) PROVE u \in Changers(k)
      BY <2>3, <3>4 DEF Before
    <3>. QED
      BY <1>2, <1>3, <2>2, <2>3, <3>2, <3>3, <3>4
  <2>. QED
    BY <2>6, <2>7
<1>. QED
    BY <1>4, <1>5

(* What is read is the last change when it is read.                        *)
LEMMA NewRead ==
    ASSUME LockInv, RecordInv, NoneOvertaken, [Next]_vars, NEW tx \in Transaction, pc[tx] # "decide",
           ~Published(tx), NEW k, NEW writer, from'[tx][k] = writer,
           pc[tx] # "append", \A t \in Transaction : ~preparePublish(t),
           writer # None => writer \in Changers(k),
           \A u \in Changers(k) : writer # None /\ (u = writer \/ Precedes(u, writer))
    PROVE  ReadsLast(tx, k)'
<1>1. SameOrder
    BY OrderStays
<1>2. /\ Changers(k)' = Changers(k) /\ Changers(k) \subseteq Transaction
      /\ \A u, t \in Transaction : Precedes(u, t)' <=> Precedes(u, t)
      /\ \A u \in Transaction : Published(u)' <=> Published(u)
    BY <1>1, Writers DEF SameOrder, Changers, Changes, work
<1>3. \A u \in Changers(k) : Before(u, tx)'
    BY <1>2 DEF Before, Changers
<1>. QED
    BY <1>2, <1>3 DEF ReadsLast

(* getPending finds the last change, or none that is not in the buffer.    *)
LEMMA GetPendingReads ==
    ASSUME LockInv, RecordInv, OrderInv, NoneOvertaken, [Next]_vars,
           NEW tx \in Transaction, getPending(tx),
           \A k \in DOMAIN from[tx] \ overlapped : ReadsLast(tx, k)
    PROVE  /\ \A k \in DOMAIN from'[tx] \ overlapped : ReadsLast(tx, k)'
           /\ pc'[tx] = "getStorage" /\ key[tx] \notin overlapped =>
                 \A u \in Changers(key[tx])' : Retired(u)'
<1>. DEFINE dependency == pending_commit_table[key[tx]]
            found == strategy # "Traditional" /\ dependency # None
<1>1. /\ pc[tx] = "get" /\ Request(tx) \in granted /\ key' = key /\ key[tx] \in Key
    BY WorkTyped DEF getPending, LockInv, Local
<1>2. holder = tx /\ ~Published(tx)
  <2>1. holder = tx
    BY <1>1, Alone
  <2>. QED
    BY <1>1, <2>1, PublishedPlace
<1>3. \A t \in Transaction : ~preparePublish(t)
  <2>1. ASSUME NEW t \in Transaction, preparePublish(t) PROVE FALSE
    <3>1. pc[t] = "decide" /\ Request(t) \in granted
      BY <2>1 DEF preparePublish, publish
    <3>2. t = tx
      BY <1>2, <3>1, Alone
    <3>. QED
      BY <1>1, <3>1, <3>2
  <2>. QED
    BY <2>1
<1>4. /\ SameOrder /\ InOrder(key[tx])
      /\ Changers(key[tx])' = Changers(key[tx]) /\ Changers(key[tx]) \subseteq Transaction
  <2>1. SameOrder
    BY <1>3, OrderStays
  <2>. QED
    BY <1>1, <2>1, Writers DEF SameOrder, Changers, Changes, work, OrderInv
<1>5. CASE ~found
  <2>1. from' = from /\ pc' = [pc EXCEPT ![tx] = "getStorage"]
    BY <1>5 DEF getPending, Goto
  <2>2. \A k \in DOMAIN from'[tx] \ overlapped : ReadsLast(tx, k)'
    BY <2>1, ReadsLastStays
  <2>3. dependency = None
    BY <1>4, <1>5 DEF InOrder, PendingIsLast
  <2>4. ASSUME key[tx] \notin overlapped, NEW u \in Changers(key[tx]), ~Retired(u)
        PROVE  FALSE
    <3>1. PICK last \in Changers(key[tx]) :
             /\ last \in pending_prepare_records
             /\ dependency = last \/ Keeps(last, key[tx])
      BY <1>4, <2>4 DEF InOrder, PendingOrKept, Done
    <3>2. last \in Transaction /\ last # None
      BY <1>4, NoneAssumption
    <3>3. Keeps(last, key[tx])
      BY <2>3, <3>1, <3>2
    <3>4. holder = last
      BY <3>1, <3>2, <3>3, KeeperHolds
    <3>. QED
      BY <1>2, <3>1, <3>4 DEF Changers
  <2>5. ASSUME key[tx] \notin overlapped PROVE \A u \in Changers(key[tx])' : Retired(u)'
    <3>1. ASSUME NEW u \in Changers(key[tx]) PROVE Retired(u)'
      BY <1>4, <2>4, <2>5, RetiredStays
    <3>. QED
      BY <1>4, <3>1
  <2>. QED
    BY <2>2, <2>5
<1>6. CASE found
  <2>1. /\ dependency \in pending_prepare_records /\ dependency \in Changers(key[tx])
        /\ \A u \in Changers(key[tx]) : u = dependency \/ Precedes(u, dependency)
    <3>1. /\ dependency \in pending_prepare_records
          /\ \A u \in Changers(key[tx]) : u = dependency \/ Precedes(u, dependency)
      BY <1>4, <1>6 DEF InOrder, PendingIsLast
    <3>2. dependency \in Transaction /\ Published(dependency) /\ key[tx] \in Changes(dependency)
      BY <1>1, <1>6 DEF RecordInv, RecordTyped, PendingCommitTable, PendingPublished
    <3>. QED
      BY <3>1, <3>2 DEF Changers
  <2>2. ReadFrom(tx, dependency)
    <3>1. key[tx] \in Changes(dependency)
      BY <2>1 DEF Changers
    <3>. QED
      BY <1>6, <2>1, <3>1 DEF getPending
  <2>3. /\ DOMAIN from'[tx] = DOMAIN from[tx] \cup {key[tx]}
        /\ \A k \in DOMAIN from'[tx] : from'[tx][k] = IF k = key[tx] THEN dependency ELSE from[tx][k]
        /\ pc'[tx] # "getStorage"
    BY <2>2, ReadKept, ZenonT(40)
  <2>4. ReadsLast(tx, key[tx])'
    <3>1. PICK k : k = key[tx]
      OBVIOUS
    <3>2. PICK writer : writer = dependency
      OBVIOUS
    <3>3. from'[tx][k] = writer /\ writer # None
      BY <1>6, <2>3, <3>1, <3>2
    <3>4. writer \in Changers(k) /\ \A u \in Changers(k) : u = writer \/ Precedes(u, writer)
      BY <2>1, <3>1, <3>2
    <3>5. ReadsLast(tx, k)'
      BY <1>1, <1>2, <1>3, <3>3, <3>4, NewRead
    <3>. QED
      BY <1>1, <3>1, <3>5
  <2>5. ASSUME NEW k \in DOMAIN from[tx] \ overlapped, k # key[tx] PROVE ReadsLast(tx, k)'
    BY <2>3, <2>5, ReadsLastStays
  <2>6. ASSUME NEW k \in DOMAIN from'[tx] \ overlapped PROVE ReadsLast(tx, k)'
    BY <1>1, <2>3, <2>4, <2>5
  <2>. QED
    BY <2>3, <2>6
<1>. QED
    BY <1>5, <1>6

LEMMA GetStorageReads ==
    ASSUME LockInv, RecordInv, OrderInv, NoneOvertaken, [Next]_vars,
           NEW tx \in Transaction, getStorage(tx),
           \A k \in DOMAIN from[tx] \ overlapped : ReadsLast(tx, k),
           key[tx] \notin overlapped =>
              BufferIsLast(key[tx]) /\ \A u \in Changers(key[tx]) : Retired(u)
    PROVE  \A k \in DOMAIN from'[tx] \ overlapped : ReadsLast(tx, k)'
<1>1. pc[tx] = "getStorage" /\ key[tx] \in Key /\ key' = key
    BY WorkTyped DEF getStorage, LockInv, Local
<1>2. ~Published(tx)
    BY <1>1, PublishedPlace
<1>3. \A t \in Transaction : ~preparePublish(t)
  <2>1. ASSUME NEW t \in Transaction, preparePublish(t) PROVE FALSE
    <3>1. pc[t] = "decide" /\ Request(t) \in granted
      BY <2>1 DEF preparePublish, publish
    <3>2. t = tx
      BY <1>1, <3>1, Alone
    <3>. QED
      BY <1>1, <3>1, <3>2
  <2>. QED
    BY <2>1
<1>4. PICK k : k = key[tx]
    OBVIOUS
<1>5. PICK writer : writer = IF buffer[k] # None THEN buffer[k] ELSE store[k]
    OBVIOUS
<1>6. ReadFrom(tx, writer)
    BY <1>4, <1>5 DEF getStorage
<1>7. /\ DOMAIN from'[tx] = DOMAIN from[tx] \cup {k}
      /\ \A j \in DOMAIN from'[tx] : from'[tx][j] = IF j = k THEN writer ELSE from[tx][j]
  <2>1. /\ DOMAIN from'[tx] = DOMAIN from[tx] \cup {key[tx]}
        /\ \A j \in DOMAIN from'[tx] : from'[tx][j] = IF j = key[tx] THEN writer ELSE from[tx][j]
    BY <1>6, ReadKept, ZenonT(40)
  <2>. QED
    BY <1>4, <2>1
<1>8. k \notin overlapped => BufferIsLast(k) /\ \A u \in Changers(k) : Buffered(u)
    BY <1>4 DEF Buffered
<1>9. ASSUME k \notin overlapped
      PROVE  /\ writer # None => writer \in Changers(k)
             /\ \A u \in Changers(k) : writer # None /\ (u = writer \/ Precedes(u, writer))
  <2>1. CASE buffer[k] # None
    BY <1>4, <1>5, <1>8, <1>9, <2>1 DEF BufferIsLast
  <2>2. CASE buffer[k] = None
    <3>1. Changers(k) = {}
      BY <1>4, <1>8, <1>9, <2>2 DEF BufferIsLast
    <3>2. store[k] = None \/ (store[k] \in Range(applied[k]) /\ k \in Changes(store[k]))
      BY <1>1, <1>4 DEF RecordInv, StoredBy, Holds
    <3>3. store[k] \in Range(applied[k]) => store[k] \in Transaction /\ Published(store[k])
      BY <1>1, <1>4, AppliedPlace
    <3>4. store[k] = None
      BY <3>1, <3>2, <3>3 DEF Changers
    <3>. QED
      BY <1>5, <2>2, <3>1, <3>4
  <2>. QED
    BY <2>1, <2>2
<1>10. ASSUME k \notin overlapped PROVE ReadsLast(tx, k)'
  <2>1. from'[tx][k] = writer
    BY <1>7
  <2>2. pc[tx] # "decide" /\ pc[tx] # "append"
    BY <1>1
  <2>. QED
    BY <1>2, <1>3, <1>9, <1>10, <2>1, <2>2, NewRead
<1>11. ASSUME NEW j \in DOMAIN from[tx] \ overlapped, j # k PROVE ReadsLast(tx, j)'
    BY <1>7, <1>11, ReadsLastStays
<1>. QED
    BY <1>7, <1>10, <1>11

(* All reads are done before the transaction publishes.                    *)
LEMMA ReadsDoneStays ==
    ASSUME LockInv, RecordInv, NoneOvertaken, [Next]_vars, NEW tx \in Transaction, ReadsDone(tx)
    PROVE  ReadsDone(tx)'
<1>. SUFFICES ASSUME pc'[tx] \in {"acquire", "decide"} \/ Published(tx)'
              PROVE  DOMAIN from'[tx] = Reads(tx)'
    BY DEF ReadsDone
<1>1. Reads(tx)' = Reads(tx)
    BY Writers DEF Reads, work
<1>2. CASE prepare(tx)
    BY <1>1, <1>2 DEF prepare
<1>3. CASE ~prepare(tx)
  <2>1. pc[tx] \in {"acquire", "decide"} \/ Published(tx)
    <3>1. CASE pc'[tx] \in {"acquire", "decide"}
      BY <1>3, <3>1, Moves, Arrives
    <3>2. CASE Published(tx)' /\ \A t \in Transaction : ~preparePublish(t)
      BY <3>2, OrderStays DEF SameOrder
    <3>3. ASSUME NEW t \in Transaction, preparePublish(t), Published(tx)'
          PROVE  pc[tx] = "decide" \/ Published(tx)
      <4>1. Published(tx) \/ tx = t
        BY <3>3, PublishOrder
      <4>. QED
        BY <3>3, <4>1 DEF preparePublish, publish
    <3>. QED
      BY <3>1, <3>2, <3>3
  <2>2. pc[tx] \notin {"get", "getStorage"}
    BY <2>1, PublishedPlace
  <2>3. from'[tx] = from[tx]
    BY <2>2, ReadSteps DEF getPending, getStorage
  <2>. QED
    BY <1>1, <2>1, <2>3 DEF ReadsDone
<1>. QED
    BY <1>2, <1>3

(* While a get goes on to storage, nothing is published.                   *)
LEMMA StorageReadStays ==
    ASSUME LockInv, RecordInv, NoneOvertaken, [Next]_vars, NEW tx \in Transaction,
           pc[tx] = "getStorage", \A u \in Changers(key[tx]) : Retired(u)
    PROVE  \A u \in Changers(key[tx])' : Retired(u)'
<1>1. key'[tx] = key[tx]
    BY ReadSteps
<1>2. \A t \in Transaction : ~preparePublish(t)
  <2>1. ASSUME NEW t \in Transaction, preparePublish(t) PROVE FALSE
    <3>1. pc[t] = "decide" /\ Request(t) \in granted
      BY <2>1 DEF preparePublish, publish
    <3>2. t = tx
      BY <3>1, Alone
    <3>. QED
      BY <3>1, <3>2
  <2>. QED
    BY <2>1
<1>3. Changers(key[tx])' = Changers(key[tx]) /\ Changers(key[tx]) \subseteq Transaction
  <2>1. SameOrder
    BY <1>2, OrderStays
  <2>. QED
    BY <1>1, <2>1, Writers DEF SameOrder, Changers, Changes, work
<1>4. ASSUME NEW u \in Changers(key[tx]) PROVE Retired(u)'
    BY <1>3, RetiredStays
<1>. QED
    BY <1>3, <1>4

LEMMA InitValue == Init => ValueInv
<1>. SUFFICES ASSUME Init PROVE ValueInv
    OBVIOUS
<1>1. Range(<< >>) = {} /\ Len(<< >>) = 0 /\ DOMAIN << >> = {} /\ 1..0 = {}
  <2>1. DOMAIN << >> = {} /\ Len(<< >>) = 0 /\ 1..0 = {}
    BY SMTT(30)
  <2>. QED
    BY <2>1 DEF Range
<1>2. \A tx \in Transaction : ~Published(tx) /\ ~Retired(tx) /\ pc[tx] = "active" /\ from[tx] = << >>
    BY <1>1 DEF Init, Published, Retired, Logged
<1>3. \A k : Changers(k) = {}
    BY <1>2 DEF Changers
<1>4. \A k \in Key : BufferIsLast(k) /\ AppliedInOrder(k)
    BY <1>1, <1>3 DEF Init, BufferIsLast, AppliedInOrder
<1>5. \A tx \in Transaction : ReadsDone(tx)
    BY <1>2 DEF ReadsDone
<1>6. NoPanic
    BY DEF Init, NoPanic
<1>. QED
    BY <1>1, <1>2, <1>4, <1>5, <1>6 DEF ValueInv

LEMMA NextValue ==
    LockInv /\ RecordInv /\ OrderInv /\ ValueInv /\ [Next]_vars => ValueInv'
<1>. SUFFICES ASSUME LockInv, RecordInv, OrderInv, ValueInv, [Next]_vars, NoneOvertaken'
              PROVE  /\ NoPanic'
                     /\ \A k \in Key \ overlapped' : BufferIsLast(k)' /\ AppliedInOrder(k)'
                     /\ \A tx \in Transaction :
                           /\ ReadsDone(tx)'
                           /\ \A k \in DOMAIN from'[tx] \ overlapped' : ReadsLast(tx, k)'
                           /\ pc'[tx] = "getStorage" /\ key'[tx] \notin overlapped' =>
                                 \A u \in Changers(key[tx])' : Retired(u)'
    BY DEF ValueInv
<1>. overlapped \subseteq overlapped'
    BY OverlapsStay
<1>1. NoneOvertaken
    BY OvertakenStays DEF NoneOvertaken
<1>2. NoPanic'
    BY <1>1, PanicFree DEF ValueInv
<1>3. \A k \in Key \ overlapped : BufferIsLast(k) /\ AppliedInOrder(k) /\ CommitsInOrder(k)
    BY <1>1 DEF ValueInv, OrderInv, InOrder
<1>4. \A tx \in Transaction :
         /\ ReadsDone(tx) /\ \A k \in DOMAIN from[tx] \ overlapped : ReadsLast(tx, k)
         /\ pc[tx] = "getStorage" /\ key[tx] \notin overlapped =>
               \A u \in Changers(key[tx]) : Retired(u)
    BY <1>1 DEF ValueInv
<1>5. ASSUME NEW k \in Key \ overlapped PROVE BufferIsLast(k)' /\ AppliedInOrder(k)'
  <2>1. BufferIsLast(k)'
    <3>1. CASE \E c \in commits : commitBuffer(c)
      BY <1>1, <1>3, <3>1, BufferInOrder
    <3>2. CASE \A c \in commits : ~commitBuffer(c)
      BY <1>1, <1>3, <3>2, BufferQuiet
    <3>. QED
      BY <3>1, <3>2
  <2>2. AppliedInOrder(k)'
    <3>1. CASE \E c \in commits : commitUpsert(c)
      BY <1>1, <1>3, <3>1, UpsertInOrder
    <3>2. CASE applied' = applied
      BY <1>1, <1>3, <3>2, AppliedQuiet
    <3>. QED
      BY <3>1, <3>2, Writers
  <2>. QED
    BY <2>1, <2>2
<1>6. ASSUME NEW tx \in Transaction PROVE ReadsDone(tx)'
    BY <1>1, <1>4, ReadsDoneStays
<1>7. ASSUME NEW tx \in Transaction
      PROVE  \A k \in DOMAIN from'[tx] \ overlapped : ReadsLast(tx, k)'
  <2>1. CASE getPending(tx)
    BY <1>1, <1>4, <2>1, GetPendingReads
  <2>2. CASE getStorage(tx)
    <3>1. pc[tx] = "getStorage" /\ key[tx] \in Key
      BY <2>2, WorkTyped DEF getStorage, LockInv, Local
    <3>2. key[tx] \notin overlapped =>
             BufferIsLast(key[tx]) /\ \A u \in Changers(key[tx]) : Retired(u)
      BY <1>3, <1>4, <3>1
    <3>. QED
      BY <1>1, <1>4, <2>2, <3>2, GetStorageReads
  <2>3. CASE from'[tx] = from[tx]
    BY <1>1, <1>4, <2>3, ReadsLastStays
  <2>. QED
    BY <2>1, <2>2, <2>3, ReadSteps
<1>8. ASSUME NEW tx \in Transaction, pc'[tx] = "getStorage", key'[tx] \notin overlapped'
      PROVE  \A u \in Changers(key[tx])' : Retired(u)'
  <2>1. CASE pc[tx] = "getStorage"
    BY <1>1, <1>4, <1>8, <2>1, StorageReadStays, ReadSteps
  <2>2. CASE getPending(tx)
    BY <1>1, <1>4, <1>8, <2>2, GetPendingReads DEF getPending
  <2>. QED
    BY <1>8, <2>1, <2>2, Arrives
<1>. QED
    BY <1>2, <1>5, <1>6, <1>7, <1>8

LEMMA ValueInvHolds == Spec /\ EvenDecisions => [](LockInv /\ RecordInv /\ OrderInv /\ ValueInv)
<1>1. Init => ValueInv
    BY InitValue
<1>2. LockInv /\ RecordInv /\ OrderInv /\ ValueInv /\ [Next]_vars => ValueInv'
    BY NextValue
<1>. QED
    BY <1>1, <1>2, OrderInvHolds, PTL DEF Spec

(* No handler hits its unwrap or panic!: a pending entry always has a      *)
(* prepare record that changes the key, and commit finds the records of    *)
(* its batch.                                                              *)
THEOREM NoPanicHolds == Spec /\ EvenDecisions => [](NoneOvertaken => NoPanic)
<1>1. ValueInv => (NoneOvertaken => NoPanic)
    BY DEF ValueInv
<1>. QED
    BY <1>1, ValueInvHolds, PTL

(* Of the changes of a key, in storage order, one that also read the key   *)
(* comes right after the one it read from, unless the commits of two       *)
(* changes of the key, one of which depends on the other, overlapped.      *)
THEOREM NoLostUpdateHolds == Spec /\ EvenDecisions => []NoLostUpdate
<1>1. LockInv /\ RecordInv /\ ValueInv => NoLostUpdate
  <2>. SUFFICES ASSUME LockInv, RecordInv, ValueInv, NoneOvertaken, NEW k \in Key \ overlapped,
                       NEW i \in 1..Len(applied[k]),
                       k \in Reads(applied[k][i]) \cap Changes(applied[k][i])
                PROVE  IF from[applied[k][i]][k] = None
                       THEN \A j \in 1..(i - 1) : ~(k \in Changes(applied[k][j]))
                       ELSE \E j \in 1..(i - 1) :
                               /\ applied[k][j] = from[applied[k][i]][k]
                               /\ k \in Changes(applied[k][j])
                               /\ \A between \in (j + 1)..(i - 1) :
                                     ~(k \in Changes(applied[k][between]))
    BY DEF NoLostUpdate
  <2>. DEFINE tx == applied[k][i]
              writer == from[tx][k]
  <2>1. /\ Len(applied[k]) \in Nat
        /\ \A j \in 1..Len(applied[k]) : applied[k][j] \in Transaction /\ Published(applied[k][j])
    BY AppliedPlace
  <2>2. \A j \in 1..(i - 1) : j \in 1..Len(applied[k])
    BY <2>1, SMTT(30)
  <2>3. tx \in Transaction /\ Published(tx) /\ k \in DOMAIN from[tx]
    BY <2>1 DEF ValueInv, ReadsDone
  <2>4. /\ writer # None => writer \in Changers(k) /\ Precedes(writer, tx)
        /\ \A u \in Changers(k) : Precedes(u, tx) => writer # None /\ (u = writer \/ Precedes(u, writer))
    <3>1. ReadsLast(tx, k)
      BY <2>3 DEF ValueInv
    <3>2. \A u \in Changers(k) : Precedes(u, tx) => u # tx /\ Before(u, tx)
      BY <2>3, PrecedesStrict DEF Before, Changers
    <3>. QED
      BY <2>3, <3>1, <3>2 DEF ReadsLast, Before
  <2>5. ASSUME NEW m \in 1..Len(applied[k]), k \in Changes(applied[k][m])
        PROVE  /\ \A j \in 1..(m - 1) : k \in Changes(applied[k][j]) =>
                     Precedes(applied[k][j], applied[k][m])
               /\ \A u \in Changers(k) : Precedes(u, applied[k][m]) =>
                     \E j \in 1..(m - 1) : applied[k][j] = u
    BY <2>5 DEF ValueInv, AppliedInOrder
  <2>6. ASSUME NEW j \in 1..(i - 1), k \in Changes(applied[k][j])
        PROVE  applied[k][j] \in Changers(k) /\ Precedes(applied[k][j], tx)
    BY <2>1, <2>2, <2>5, <2>6 DEF Changers
  <2>7. CASE writer = None
    BY <2>4, <2>6, <2>7
  <2>8. CASE writer # None
    <3>1. PICK j \in 1..(i - 1) : applied[k][j] = writer
      BY <2>4, <2>5, <2>8
    <3>2. writer \in Transaction /\ k \in Changes(applied[k][j])
      BY <2>4, <2>8, <3>1 DEF Changers
    <3>3. ASSUME NEW between \in (j + 1)..(i - 1), k \in Changes(applied[k][between])
          PROVE  FALSE
      <4>. DEFINE b == applied[k][between]
      <4>1. between \in 1..(i - 1) /\ j \in 1..(between - 1)
        BY <2>1, <3>1, SMTT(30)
      <4>2. b \in Changers(k) /\ Precedes(b, tx)
        BY <2>6, <3>3, <4>1
      <4>3. b = writer \/ Precedes(b, writer)
        BY <2>4, <4>2
      <4>4. between \in 1..Len(applied[k]) /\ b \in Transaction
        BY <2>1, <2>2, <4>1
      <4>5. Precedes(writer, b)
        BY <2>5, <3>1, <3>2, <3>3, <4>1, <4>4
      <4>. QED
        BY <3>2, <4>3, <4>4, <4>5, PrecedesStrict, PrecedesAsymmetric
    <3>. QED
      BY <2>8, <3>1, <3>2, <3>3
  <2>. QED
    BY <2>7, <2>8
<1>. QED
    BY <1>1, ValueInvHolds, PTL
=============================================================================
