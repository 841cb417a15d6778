-------------------------- MODULE RangeCacheProofs --------------------------
(***************************************************************************)
(* Proofs about the two caches of a range.                                 *)
(*                                                                         *)
(* MemTable, the epoch cache, for any size of the ring, of the tables and  *)
(* of the writes: a read is never stale and finds what was not cleared.    *)
(* The invariant says that the tables in use are those the walk of get     *)
(* passes first, and hold ever older writes.                               *)
(*                                                                         *)
(* PrefetchingBuffer (PB), for any transactions, keys and number of        *)
(* commits: type correctness, no panic, a single fetch per key, and reads  *)
(* that are fresh unless the key was changed behind the buffer's back.     *)
(***************************************************************************)
EXTENDS MemTable, WellFoundedInduction, TLAPS

USE Zenon

CONSTANTS Transaction, MaxCommits, FetchMayFail, StorageDeletes
VARIABLES storage, prefetch_store, key_state, transaction_keys, channel,
          fetch_sequence_number, call, committing, commits, failed, raced, panicked

PB == INSTANCE PrefetchingBuffer

Write == [key : Key, epoch : Nat, deleted : BOOLEAN]
Memtable == [status : {"MUTABLE", "IMMUTABLE", "FLUSHED"}, size_in_bytes : Nat,
             latest_epoch : Nat, oldest_epoch : Nat, entries : SUBSET (1..Len(written))]

(* How far a table is behind the mutable one, in steps of the walk of get  *)
Age(t) == IF t <= mut_memtable_idx THEN mut_memtable_idx - t
          ELSE mut_memtable_idx + NumWriteBuffers - t

Free(t) == memtables[t].status = "FLUSHED"

Typed ==
    /\ mut_memtable_idx \in Table
    /\ latest_epoch \in Nat
    /\ cleared \in Nat \cup {None}
    /\ written \in Seq(Write)
    /\ memtables \in [Table -> Memtable]

(* One table is mutable, and a free table is empty.                        *)
Statuses ==
    \A t \in Table :
       /\ memtables[t].status = "MUTABLE" <=> t = mut_memtable_idx
       /\ Free(t) => memtables[t].entries = {}

(* The writer's epochs never decrease.                                     *)
Epochs ==
    \A w \in 1..Len(written) :
       /\ written[w].epoch <= latest_epoch
       /\ \A v \in 1..w : written[v].epoch <= written[w].epoch

(* The epochs a table gives for its entries                                *)
Bounded ==
    \A t \in Table :
       /\ memtables[t].latest_epoch <= latest_epoch
       /\ memtables[t].oldest_epoch <= latest_epoch
       /\ \A w \in memtables[t].entries :
             /\ memtables[t].oldest_epoch <= written[w].epoch
             /\ written[w].epoch <= memtables[t].latest_epoch

(* A table in use holds older writes than those between it and the mutable *)
(* one, which are all in use.                                              *)
Ordered ==
    \A t, u \in Table : Age(t) < Age(u) /\ ~Free(u) =>
       /\ ~Free(t)
       /\ memtables[u].latest_epoch <= memtables[t].latest_epoch
       /\ \A w \in memtables[t].entries, v \in memtables[u].entries : v < w

Held(w) == \E t \in Table : w \in memtables[t].entries

(* A write that is in no table has been cleared, and everything before it. *)
Dropped ==
    \A w \in 1..Len(written) :
       \/ Held(w)
       \/ /\ cleared # None /\ written[w].epoch <= cleared
          /\ \A v \in 1..Len(written) : Held(v) => w < v

IInv == Typed /\ Statuses /\ Epochs /\ Bounded /\ Ordered /\ Dropped

---------------------------------------------------------------------------
(* Arithmetic of the ring                                                  *)

(* The modulus of the ring on one turn                                     *)
LEMMA Modulo ==
    ASSUME NEW n \in Nat \ {0}, NEW a \in 0..(n - 1)
    PROVE  a % n = a /\ (a + n) % n = a
BY SMTT(30)

(* The maximum of two numbers                                              *)
LEMMA MaxOfTwo ==
    ASSUME NEW a \in Nat, NEW b \in Nat
    PROVE  /\ Max({a, b}) \in Nat /\ Max({a, b}) \in {a, b}
           /\ a <= Max({a, b}) /\ b <= Max({a, b})
<1>1. \E x \in {a, b} : \A y \in {a, b} : x >= y
    <2>1. CASE a >= b
        BY SMTT(30), <2>1
    <2>2. CASE ~(a >= b)
        BY SMTT(30), <2>2
    <2>. QED  BY <2>1, <2>2
<1>2. Max({a, b}) \in {a, b} /\ \A y \in {a, b} : Max({a, b}) >= y
    BY <1>1 DEF Max
<1>. QED  BY <1>2

(* Age is the number of the step at which the walk of get comes to a       *)
(* table.                                                                  *)
LEMMA Walk ==
    ASSUME Typed
    PROVE  /\ \A t \in Table : Age(t) \in Table /\ backwards(Age(t)) = t
           /\ \A i \in Table : backwards(i) \in Table /\ Age(backwards(i)) = i
           /\ Age(mut_memtable_idx) = 0
           /\ \A t \in Table : Age(t) = 0 => t = mut_memtable_idx
<1>1. ASSUME NEW i \in Table
      PROVE  backwards(i) = IF i <= mut_memtable_idx THEN mut_memtable_idx - i
                            ELSE mut_memtable_idx + NumWriteBuffers - i
    <2>1. CASE i <= mut_memtable_idx
        <3>1. mut_memtable_idx - i \in 0..(NumWriteBuffers - 1)
            BY SMTT(30), <2>1, MemTableAssumption DEF Typed, Table
        <3>2. mut_memtable_idx + NumWriteBuffers - i = (mut_memtable_idx - i) + NumWriteBuffers
            BY SMTT(30), <2>1, MemTableAssumption DEF Typed, Table
        <3>. QED  BY <2>1, <3>1, <3>2, Modulo, MemTableAssumption DEF backwards
    <2>2. CASE ~(i <= mut_memtable_idx)
        <3>1. mut_memtable_idx + NumWriteBuffers - i \in 0..(NumWriteBuffers - 1)
            BY SMTT(30), <2>2, MemTableAssumption DEF Typed, Table
        <3>. QED  BY <2>2, <3>1, Modulo, MemTableAssumption DEF backwards
    <2>. QED  BY <2>1, <2>2
<1>2. \A i \in Table : backwards(i) \in Table /\ Age(backwards(i)) = i
    BY SMTT(30), <1>1, MemTableAssumption DEF Typed, Table, Age
<1>3. \A t \in Table : Age(t) \in Table /\ backwards(Age(t)) = t
    BY SMTT(30), <1>1, MemTableAssumption DEF Typed, Table, Age
<1>4. /\ Age(mut_memtable_idx) = 0
      /\ \A t \in Table : Age(t) = 0 => t = mut_memtable_idx
    BY SMTT(30), MemTableAssumption DEF Typed, Table, Age
<1>. QED  BY <1>2, <1>3, <1>4

---------------------------------------------------------------------------
(* The invariant is inductive                                              *)

(* Initially table 0 is mutable and all are empty.                         *)
LEMMA InitIInv == Init => IInv
<1>. SUFFICES ASSUME Init PROVE IInv
    OBVIOUS
<1>1. /\ written = << >> /\ Len(written) = 0 /\ 1..Len(written) = {}
      /\ written \in Seq(Write)
    BY SMTT(30) DEF Init
<1>2. /\ mut_memtable_idx = 0 /\ 0 \in Table
      /\ latest_epoch = 0 /\ cleared = None
    BY SMTT(30), MemTableAssumption DEF Init, Table
<1>3. memtables = [i \in Table |-> IF i = 0 THEN [NewTable EXCEPT !.status = "MUTABLE"]
                                   ELSE NewTable]
    BY DEF Init
<1>4. /\ NewTable \in Memtable
      /\ [NewTable EXCEPT !.status = "MUTABLE"] \in Memtable
    BY <1>1 DEF NewTable, Memtable
<1>5. \A t \in Table : /\ memtables[t] \in Memtable
                       /\ memtables[t].status = IF t = 0 THEN "MUTABLE" ELSE "FLUSHED"
                       /\ memtables[t].latest_epoch = 0
                       /\ memtables[t].oldest_epoch = 0
                       /\ memtables[t].entries = {}
    BY <1>3, <1>4 DEF NewTable
<1>6. Typed
    BY <1>1, <1>2, <1>3, <1>4 DEF Typed
<1>7. Statuses /\ Bounded
    BY SMTT(30), <1>2, <1>5 DEF Statuses, Bounded, Free
<1>8. Epochs /\ Dropped
    BY <1>1 DEF Epochs, Dropped
<1>9. Ordered
  <2>. SUFFICES ASSUME NEW t \in Table, NEW u \in Table, Age(t) < Age(u), ~Free(u) PROVE FALSE
      BY DEF Ordered
  <2>1. u = 0
      BY <1>5 DEF Free
  <2>. QED  BY SMTT(30), <1>2, <1>6, <2>1, Walk, MemTableAssumption DEF Table
<1>. QED  BY <1>6, <1>7, <1>8, <1>9 DEF IInv

(* A write is accepted: what all such steps have in common.                *)
Accepts(epoch) ==
    /\ epoch \in Nat /\ latest_epoch <= epoch
    /\ \E key \in Key, deleted \in BOOLEAN :
          written' = Append(written, [key |-> key, epoch |-> epoch, deleted |-> deleted])
    /\ latest_epoch' = epoch
    /\ cleared' = cleared

(* The history after a write is accepted                                   *)
LEMMA History ==
    ASSUME Typed, NEW epoch, Accepts(epoch)
    PROVE  /\ written' \in Seq(Write)
           /\ Len(written) \in Nat /\ Len(written') = Len(written) + 1
           /\ \A w \in 1..Len(written) : written'[w] = written[w] /\ written[w].epoch \in Nat
           /\ written'[Len(written) + 1].epoch = epoch
<1>1. PICK key \in Key, deleted \in BOOLEAN :
         written' = Append(written, [key |-> key, epoch |-> epoch, deleted |-> deleted])
    BY DEF Accepts
<1>. DEFINE new == [key |-> key, epoch |-> epoch, deleted |-> deleted]
<1>2. new \in Write /\ new.epoch = epoch
    BY DEF Accepts, Write
<1>. HIDE DEF new
<1>3. written' = Append(written, new)
    BY <1>1 DEF new
<1>4. written \in Seq(Write)
    BY DEF Typed
<1>5. \A w \in 1..Len(written) : written[w] \in Write
    BY SMTT(30), <1>4
<1>. QED  BY SMTT(30), <1>2, <1>3, <1>4, <1>5 DEF Write

(* The writer's epochs keep their order.                                   *)
LEMMA EpochsStep ==
    ASSUME Typed, Epochs, NEW epoch, Accepts(epoch)
    PROVE  Epochs'
<1>. SUFFICES ASSUME NEW w \in 1..Len(written')
              PROVE  /\ written'[w].epoch <= latest_epoch'
                     /\ \A v \in 1..w : written'[v].epoch <= written'[w].epoch
    BY DEF Epochs
<1>. USE History
<1>1. latest_epoch \in Nat /\ epoch \in Nat /\ latest_epoch <= epoch /\ latest_epoch' = epoch
    BY DEF Typed, Accepts
<1>2. \A v \in 1..Len(written) : written'[v].epoch <= epoch
    BY SMTT(30), <1>1 DEF Epochs
<1>3. CASE w = Len(written) + 1
  <2>. SUFFICES ASSUME NEW v \in 1..w PROVE written'[v].epoch <= epoch
      BY <1>1, <1>3
  <2>1. CASE v = w
      BY SMTT(30), <1>1, <1>3, <2>1
  <2>2. CASE v # w
      BY SMTT(30), <1>2, <1>3, <2>2
  <2>. QED  BY <2>1, <2>2
<1>4. CASE w \in 1..Len(written)
  <2>1. \A v \in 1..w : v \in 1..Len(written) /\ written[v].epoch <= written[w].epoch
      BY SMTT(30), <1>4 DEF Epochs
  <2>. QED  BY <1>1, <1>2, <1>4, <2>1
<1>. QED  BY SMTT(30), <1>3, <1>4

(* The write is entered into table x, which is or becomes the mutable one. *)
Enters(x, epoch) ==
    /\ x \in Table /\ mut_memtable_idx' = x
    /\ x = mut_memtable_idx \/ Free(x)
    /\ memtables' \in [Table -> Memtable']
    /\ memtables'[x].status = "MUTABLE"
    /\ memtables'[x].entries = memtables[x].entries \cup {Len(written) + 1}
    /\ memtables'[x].latest_epoch = epoch
    /\ \A w \in memtables[x].entries : memtables'[x].oldest_epoch <= written[w].epoch
    /\ memtables'[x].oldest_epoch <= epoch
    /\ \A t \in Table \ {x} :
          /\ memtables'[t].entries = memtables[t].entries
          /\ memtables'[t].latest_epoch = memtables[t].latest_epoch
          /\ memtables'[t].oldest_epoch = memtables[t].oldest_epoch
          /\ memtables'[t].status # "MUTABLE"
          /\ Free(t)' <=> Free(t)
    /\ \A t, u \in Table : Age(t)' < Age(u)' => u # x /\ (t = x \/ Age(t) < Age(u))

(* A write that enters the mutable table, in whichever of the two ways,    *)
(* keeps the ring in order.                                                *)
LEMMA EntersIInv ==
    ASSUME IInv, NEW epoch, Accepts(epoch), NEW x, Enters(x, epoch)
    PROVE  IInv'
<1>. USE DEF IInv
<1>. DEFINE n == Len(written)
<1>0. /\ n \in Nat /\ Len(written') = n + 1 /\ written' \in Seq(Write)
      /\ \A w \in 1..n : written'[w] = written[w] /\ written[w].epoch \in Nat
      /\ written'[n + 1].epoch = epoch
    BY History
<1>1. /\ latest_epoch \in Nat /\ epoch \in Nat /\ latest_epoch <= epoch
      /\ latest_epoch' = epoch /\ cleared' = cleared
    BY DEF Typed, Accepts
<1>2. \A t \in Table : /\ memtables[t].entries \subseteq 1..n
                       /\ memtables[t].latest_epoch \in Nat
                       /\ memtables[t].oldest_epoch \in Nat
                       /\ memtables'[t].latest_epoch \in Nat
                       /\ memtables'[t].oldest_epoch \in Nat
    BY DEF Typed, Memtable, Enters
<1>. HIDE DEF n
<1>3. Typed'
    BY <1>0, <1>1 DEF Typed, Enters
<1>4. Epochs'
    BY EpochsStep
<1>5. Statuses'
    BY DEF Enters, Statuses, Free
<1>6. Bounded'
  <2>. SUFFICES ASSUME NEW t \in Table
                PROVE  /\ memtables'[t].latest_epoch <= epoch
                       /\ memtables'[t].oldest_epoch <= epoch
                       /\ \A w \in memtables'[t].entries :
                             /\ memtables'[t].oldest_epoch <= written'[w].epoch
                             /\ written'[w].epoch <= memtables'[t].latest_epoch
      BY <1>1 DEF Bounded
  <2>1. \A w \in memtables[t].entries :
           /\ w \in 1..n /\ written'[w] = written[w] /\ written[w].epoch \in Nat
           /\ memtables[t].oldest_epoch <= written[w].epoch
           /\ written[w].epoch <= memtables[t].latest_epoch
           /\ written[w].epoch <= epoch
      BY SMTT(30), <1>0, <1>1, <1>2 DEF Bounded, Epochs, n
  <2>2. memtables[t].latest_epoch <= epoch /\ memtables[t].oldest_epoch <= epoch
      BY SMTT(30), <1>1, <1>2 DEF Bounded
  <2>3. CASE t = x
      <3>1. \A w \in memtables'[x].entries : w = n + 1 \/ w \in memtables[x].entries
          BY DEF Enters, n
      <3>2. /\ memtables'[x].latest_epoch = epoch /\ memtables'[x].oldest_epoch <= epoch
            /\ \A w \in memtables[x].entries : memtables'[x].oldest_epoch <= written[w].epoch
          BY DEF Enters
      <3>. QED  BY SMTT(30), <1>0, <1>1, <2>1, <2>3, <3>1, <3>2
  <2>4. CASE t # x
      BY <2>1, <2>2, <2>4 DEF Enters
  <2>. QED  BY <2>3, <2>4
<1>7. Ordered'
  <2>. SUFFICES ASSUME NEW t \in Table, NEW u \in Table, Age(t)' < Age(u)', ~Free(u)'
                PROVE  /\ ~Free(t)'
                       /\ memtables'[u].latest_epoch <= memtables'[t].latest_epoch
                       /\ \A w \in memtables'[t].entries, v \in memtables'[u].entries : v < w
      BY DEF Ordered
  <2>1. /\ u # x /\ (t = x \/ Age(t) < Age(u)) /\ ~Free(u)
        /\ memtables'[u].entries = memtables[u].entries
        /\ memtables'[u].latest_epoch = memtables[u].latest_epoch
      BY DEF Enters
  <2>2. CASE t = x
      <3>1. ~Free(t)' /\ memtables'[t].latest_epoch = epoch
          BY <2>2 DEF Enters, Free
      <3>2. memtables[u].latest_epoch <= epoch
          BY SMTT(30), <1>1, <1>2 DEF Bounded
      <3>3. ASSUME NEW w \in memtables'[t].entries, NEW v \in memtables[u].entries
            PROVE  v < w
        <4>1. CASE w = n + 1
            BY SMTT(30), <1>0, <1>2, <4>1
        <4>2. CASE w \in memtables[x].entries
          <5>1. ~Free(x)
              BY <4>2 DEF Statuses, Enters
          <5>2. Age(x) < Age(u) => v < w
              BY <2>1, <4>2 DEF Ordered, Enters
          <5>3. CASE mut_memtable_idx = x
              <6>1. Age(x) = 0 /\ Age(u) \in Nat /\ Age(u) # 0
                  BY SMTT(30), <2>1, <5>3, Walk DEF Table
              <6>. QED  BY SMTT(30), <5>2, <6>1
          <5>4. CASE mut_memtable_idx # x
              BY <5>1, <5>4 DEF Enters
          <5>. QED  BY <5>3, <5>4
        <4>. QED  BY <2>2, <4>1, <4>2 DEF Enters, n
      <3>. QED  BY <2>1, <2>2, <3>1, <3>2, <3>3
  <2>3. CASE t # x
      BY <2>1, <2>3 DEF Ordered, Enters
  <2>. QED  BY <2>2, <2>3
<1>8. Dropped'
  <2>1. \A w \in 1..n : Held(w) => Held(w)'
      BY DEF Held, Enters
  <2>2. \A w \in 1..(n + 1) : Held(w)' => w = n + 1 \/ Held(w)
      BY DEF Held, Enters, n
  <2>3. \A w \in 1..(n + 1) : w = n + 1 => Held(w)'
      BY DEF Held, Enters, n
  <2>. SUFFICES ASSUME NEW w \in 1..(n + 1), ~Held(w)'
                PROVE  /\ cleared # None /\ written'[w].epoch <= cleared
                       /\ \A v \in 1..(n + 1) : Held(v)' => w < v
      BY <1>0, <1>1 DEF Dropped
  <2>4. w \in 1..n /\ ~Held(w)
      BY SMTT(30), <1>0, <2>1, <2>3
  <2>5. /\ cleared # None /\ written[w].epoch <= cleared
        /\ \A v \in 1..n : Held(v) => w < v
      BY <2>4 DEF Dropped, n
  <2>. QED  BY SMTT(30), <1>0, <2>2, <2>4, <2>5
<1>. QED  BY <1>3, <1>4, <1>5, <1>6, <1>7, <1>8

(* The table after an insert                                               *)
LEMMA InsertInto ==
    ASSUME NEW table \in Memtable, NEW size \in Nat, NEW epoch \in Nat,
           table.latest_epoch <= epoch
    PROVE  insertInto(table, size, epoch) =
              [status |-> table.status, size_in_bytes |-> table.size_in_bytes + size,
               latest_epoch |-> epoch, oldest_epoch |-> table.oldest_epoch,
               entries |-> table.entries \cup {Len(written) + 1}]
<1>1. Max({table.latest_epoch, epoch}) = epoch
    BY SMTT(30), MaxOfTwo DEF Memtable
<1>2. PICK st \in {"MUTABLE", "IMMUTABLE", "FLUSHED"}, sz \in Nat, l \in Nat, o \in Nat,
           e \in SUBSET (1..Len(written)) :
         table = [status |-> st, size_in_bytes |-> sz, latest_epoch |-> l,
                  oldest_epoch |-> o, entries |-> e]
    BY DEF Memtable
<1>3. insertInto(table, size, epoch) =
         [table EXCEPT !.entries = table.entries \cup {Len(written) + 1},
                       !.size_in_bytes = table.size_in_bytes + size, !.latest_epoch = epoch]
  <2>. DEFINE latest == Max({table.latest_epoch, epoch})
  <2>1. insertInto(table, size, epoch) =
           [table EXCEPT !.entries = table.entries \cup {Len(written) + 1},
                         !.size_in_bytes = table.size_in_bytes + size, !.latest_epoch = latest]
      BY Zenon DEF insertInto
  <2>. HIDE DEF latest
  <2>. QED  BY <1>1, <2>1 DEF latest
<1>. QED  BY <1>2, <1>3

(* The mutable table has room.                                             *)
LEMMA InPlaceIInv ==
    ASSUME IInv, NEW epoch, Accepts(epoch), NEW size \in Nat, upsertInPlace(size, epoch)
    PROVE  IInv'
<1>. USE DEF IInv
<1>. DEFINE m == mut_memtable_idx
            old == memtables[m]
            new == insertInto(old, size, epoch)
<1>1. /\ m \in Table /\ old \in Memtable /\ epoch \in Nat
      /\ Len(written) \in Nat /\ Len(written') = Len(written) + 1
      /\ old.latest_epoch <= epoch /\ old.oldest_epoch <= epoch
    BY SMTT(30), History DEF Typed, Accepts, Bounded, Memtable
<1>2. memtables' = [memtables EXCEPT ![m] = new] /\ mut_memtable_idx' = m
    BY DEF upsertInPlace
<1>4. new = [status |-> old.status, size_in_bytes |-> old.size_in_bytes + size,
             latest_epoch |-> epoch, oldest_epoch |-> old.oldest_epoch,
             entries |-> old.entries \cup {Len(written) + 1}]
    BY <1>1, InsertInto
<1>5. /\ new \in Memtable'
      /\ new.status = old.status /\ new.entries = old.entries \cup {Len(written) + 1}
      /\ new.latest_epoch = epoch /\ new.oldest_epoch = old.oldest_epoch
  <2>1. old.entries \cup {Len(written) + 1} \subseteq 1..Len(written')
      BY SMTT(30), <1>1 DEF Memtable
  <2>. QED  BY SMTT(30), <1>1, <1>4, <2>1 DEF Memtable
<1>6. \A t \in Table : memtables[t] \in Memtable'
    BY SMTT(30), <1>1 DEF Typed, Memtable
<1>7. /\ memtables' \in [Table -> Memtable'] /\ memtables'[m] = new
      /\ \A t \in Table \ {m} : memtables'[t] = memtables[t]
    BY <1>1, <1>2, <1>5, <1>6 DEF Typed
<1>8. \A t \in Table : Age(t)' = Age(t)
    BY <1>2 DEF Age
<1>9. \A t, u \in Table : Age(t)' < Age(u)' => u # m
    BY SMTT(30), <1>8, Walk, MemTableAssumption DEF Table
<1>10. /\ \A w \in old.entries : old.oldest_epoch <= written[w].epoch
       /\ old.status = "MUTABLE"
    BY <1>1 DEF Bounded, Statuses
<1>11. Enters(m, epoch)
  <2>. HIDE DEF new
  <2>. QED  BY <1>1, <1>2, <1>5, <1>7, <1>8, <1>9, <1>10 DEF Enters, Free, Statuses
<1>. QED  BY <1>11, EntersIInv

(* The next table takes over, which was free and is empty.                 *)
LEMMA SwitchIInv ==
    ASSUME IInv, NEW epoch, Accepts(epoch), NEW size \in Nat, upsertSwitch(size, epoch)
    PROVE  IInv'
<1>. USE DEF IInv
<1>. DEFINE m == mut_memtable_idx
            x == (m + 1) % NumWriteBuffers
            old == memtables[x]
            begun == [old EXCEPT !.status = "MUTABLE", !.oldest_epoch = epoch]
            new == insertInto(begun, size, epoch)
<1>0. /\ m \in Table /\ m \in Nat
      /\ x = IF m + 1 = NumWriteBuffers THEN 0 ELSE m + 1
      /\ x \in Table
  <2>1. m \in Table
      BY DEF Typed
  <2>2. CASE m + 1 = NumWriteBuffers
      <3>1. 0 \in 0..(NumWriteBuffers - 1) /\ 0 + NumWriteBuffers = m + 1
          BY SMTT(30), <2>2, MemTableAssumption
      <3>. QED  BY SMTT(30), <2>1, <2>2, <3>1, Modulo, MemTableAssumption DEF Table
  <2>3. CASE m + 1 # NumWriteBuffers
      <3>1. m + 1 \in 0..(NumWriteBuffers - 1)
          BY SMTT(30), <2>1, <2>3, MemTableAssumption DEF Table
      <3>2. x = m + 1
          BY <3>1, Modulo, MemTableAssumption
      <3>. QED  BY SMTT(30), <2>1, <2>3, <3>1, <3>2, MemTableAssumption DEF Table
  <2>. QED  BY <2>1, <2>2, <2>3, MemTableAssumption DEF Table
<1>. HIDE DEF x
<1>1. /\ old \in Memtable /\ epoch \in Nat
      /\ Len(written) \in Nat /\ Len(written') = Len(written) + 1
      /\ old.latest_epoch <= epoch
    BY SMTT(30), <1>0, History DEF Typed, Accepts, Bounded, Memtable
<1>2. /\ old.status = "FLUSHED" /\ old.entries = {} /\ x # m
      /\ mut_memtable_idx' = x
      /\ memtables' = [memtables EXCEPT ![m].status = "IMMUTABLE", ![x] = new]
    BY <1>0 DEF upsertSwitch, Statuses, Free, x
<1>3. /\ begun \in Memtable /\ begun.status = "MUTABLE" /\ begun.oldest_epoch = epoch
      /\ begun.size_in_bytes = old.size_in_bytes /\ begun.latest_epoch = old.latest_epoch
      /\ begun.entries = old.entries
  <2>. HIDE DEF old
  <2>. QED  BY <1>1 DEF Memtable
<1>4. new = [status |-> "MUTABLE", size_in_bytes |-> old.size_in_bytes + size,
             latest_epoch |-> epoch, oldest_epoch |-> epoch,
             entries |-> old.entries \cup {Len(written) + 1}]
  <2>. HIDE DEF begun, old
  <2>. QED  BY ZenonT(60), <1>1, <1>3, InsertInto
<1>5. /\ new \in Memtable'
      /\ new.status = "MUTABLE" /\ new.entries = old.entries \cup {Len(written) + 1}
      /\ new.latest_epoch = epoch /\ new.oldest_epoch = epoch
  <2>1. old.entries \cup {Len(written) + 1} \subseteq 1..Len(written')
      BY SMTT(30), <1>1 DEF Memtable
  <2>. QED  BY SMTT(30), <1>1, <1>4, <2>1 DEF Memtable
<1>6. \A t \in Table : memtables[t] \in Memtable'
    BY SMTT(30), <1>1 DEF Typed, Memtable
<1>7. /\ [memtables[m] EXCEPT !.status = "IMMUTABLE"] \in Memtable'
    BY <1>0, <1>6 DEF Memtable
<1>. HIDE DEF new
<1>8. /\ memtables' \in [Table -> Memtable'] /\ memtables'[x] = new
      /\ memtables'[m] = [memtables[m] EXCEPT !.status = "IMMUTABLE"]
      /\ \A t \in Table \ {m, x} : memtables'[t] = memtables[t]
    BY <1>0, <1>2, <1>5, <1>6, <1>7 DEF Typed
<1>9. memtables[m] \in Memtable /\ memtables[m].status = "MUTABLE"
    BY <1>0 DEF Typed, Statuses
<1>10. \A t \in Table \ {x} :
          /\ memtables'[t].entries = memtables[t].entries
          /\ memtables'[t].latest_epoch = memtables[t].latest_epoch
          /\ memtables'[t].oldest_epoch = memtables[t].oldest_epoch
          /\ memtables'[t].status # "MUTABLE"
          /\ Free(t)' <=> Free(t)
  <2>. SUFFICES ASSUME NEW t \in Table \ {x}
                PROVE  /\ memtables'[t].entries = memtables[t].entries
                       /\ memtables'[t].latest_epoch = memtables[t].latest_epoch
                       /\ memtables'[t].oldest_epoch = memtables[t].oldest_epoch
                       /\ memtables'[t].status # "MUTABLE"
                       /\ Free(t)' <=> Free(t)
      OBVIOUS
  <2>1. CASE t = m
      BY <1>8, <1>9, <2>1 DEF Free, Memtable
  <2>2. CASE t # m
      BY <1>8, <2>2 DEF Free, Statuses
  <2>. QED  BY <2>1, <2>2
<1>11. \A t \in Table : Age(t)' = IF t = x THEN 0 ELSE Age(t) + 1
    BY SMTT(30), <1>0, <1>2, MemTableAssumption DEF Age, Table
<1>12. \A t \in Table : Age(t) \in Nat
    BY SMTT(30), Walk DEF Table
<1>13. \A t, u \in Table : Age(t)' < Age(u)' => u # x /\ (t = x \/ Age(t) < Age(u))
    BY SMTT(30), <1>11, <1>12
<1>14. Enters(x, epoch)
    BY SMTT(30), <1>0, <1>1, <1>2, <1>5, <1>8, <1>10, <1>13 DEF Enters, Free
<1>. QED  BY <1>14, EntersIInv

(* clear frees the tables that are older than the ones it keeps.           *)
LEMMA ClearIInv ==
    ASSUME IInv, NEW epoch \in Epoch, clear(epoch)
    PROVE  IInv'
<1>. USE DEF IInv
<1>. DEFINE Freed(t) == /\ memtables[t].status = "IMMUTABLE"
                        /\ memtables[t].latest_epoch <= epoch
<1>0. epoch \in Nat
    BY SMTT(30), MemTableAssumption DEF Epoch
<1>1. /\ cleared' \in Nat /\ epoch <= cleared'
      /\ cleared # None => cleared \in Nat /\ cleared <= cleared'
  <2>1. CASE cleared = None
    <3>1. {epoch} \cup ({cleared} \ {None}) = {epoch, epoch}
        BY <2>1
    <3>. QED  BY <1>0, <2>1, <3>1, MaxOfTwo DEF clear
  <2>2. CASE cleared # None
    <3>1. {epoch} \cup ({cleared} \ {None}) = {epoch, cleared} /\ cleared \in Nat
        BY <2>2 DEF Typed
    <3>. QED  BY <1>0, <2>2, <3>1, MaxOfTwo DEF clear
  <2>. QED  BY <2>1, <2>2
<1>2. /\ mut_memtable_idx' = mut_memtable_idx /\ latest_epoch' = latest_epoch
      /\ written' = written
    BY DEF clear
<1>3. \A t \in Table : memtables[t] \in Memtable
    BY DEF Typed
<1>4. \A t \in Table : memtables'[t] = IF Freed(t)
                                       THEN [memtables[t] EXCEPT !.status = "FLUSHED",
                                                !.size_in_bytes = 0, !.entries = {}]
                                       ELSE memtables[t]
    BY <1>0, <1>3 DEF clear, Memtable
<1>5. \A t \in Table : /\ memtables'[t] \in Memtable
                       /\ memtables'[t].latest_epoch = memtables[t].latest_epoch
                       /\ memtables'[t].oldest_epoch = memtables[t].oldest_epoch
                       /\ memtables'[t].status = IF Freed(t) THEN "FLUSHED"
                                                 ELSE memtables[t].status
                       /\ memtables'[t].entries = IF Freed(t) THEN {} ELSE memtables[t].entries
  <2>1. ASSUME NEW table \in Memtable,
               NEW free, free = [table EXCEPT !.status = "FLUSHED", !.size_in_bytes = 0,
                                              !.entries = {}]
        PROVE  /\ free \in Memtable /\ free.latest_epoch = table.latest_epoch
               /\ free.oldest_epoch = table.oldest_epoch
               /\ free.status = "FLUSHED" /\ free.entries = {}
      BY <2>1 DEF Memtable
  <2>2. ASSUME NEW t \in Table, Freed(t)
        PROVE  /\ memtables'[t] \in Memtable
               /\ memtables'[t].latest_epoch = memtables[t].latest_epoch
               /\ memtables'[t].oldest_epoch = memtables[t].oldest_epoch
               /\ memtables'[t].status = "FLUSHED" /\ memtables'[t].entries = {}
    <3>. DEFINE new == memtables'[t]
    <3>1. new = [memtables[t] EXCEPT !.status = "FLUSHED", !.size_in_bytes = 0, !.entries = {}]
        BY <1>4, <2>2
    <3>2. memtables[t] \in Memtable
        BY <1>3
    <3>. HIDE DEF new
    <3>3. /\ new \in Memtable /\ new.latest_epoch = memtables[t].latest_epoch
          /\ new.oldest_epoch = memtables[t].oldest_epoch
          /\ new.status = "FLUSHED" /\ new.entries = {}
        BY <2>1, <3>1, <3>2
    <3>. QED  BY <3>3 DEF new
  <2>. HIDE DEF Freed
  <2>. QED  BY <1>3, <1>4, <2>2
<1>6. memtables' = [t \in Table |-> memtables'[t]]
    BY DEF clear
<1>7. \A t \in Table : Age(t)' = Age(t) /\ Age(t) \in Nat
    BY SMTT(30), <1>2, Walk DEF Age, Table
<1>8. \A t \in Table : /\ memtables[t].status \in {"MUTABLE", "IMMUTABLE", "FLUSHED"}
                       /\ memtables[t].latest_epoch \in Nat
                       /\ memtables[t].entries \subseteq 1..Len(written)
    BY <1>3 DEF Memtable
<1>. HIDE DEF Freed
<1>9. \A t \in Table : /\ Freed(t) => t # mut_memtable_idx /\ ~Free(t)
                       /\ Free(t)' <=> Free(t) \/ Freed(t)
    BY <1>5 DEF Statuses, Free, Freed
<1>10. ASSUME NEW t \in Table, NEW u \in Table, Age(t) < Age(u), ~Free(u)'
       PROVE  ~Free(u) /\ ~Freed(t)
  <2>1. ~Free(u) /\ ~Freed(u) /\ memtables[u].latest_epoch <= memtables[t].latest_epoch
      BY <1>9, <1>10 DEF Ordered
  <2>2. u # mut_memtable_idx
      BY SMTT(30), <1>7, <1>10, Walk
  <2>3. memtables[u].status = "IMMUTABLE"
      BY <1>8, <2>1, <2>2 DEF Statuses, Free
  <2>. QED  BY SMTT(30), <1>0, <1>8, <2>1, <2>3 DEF Freed
<1>11. Typed'
    BY <1>1, <1>2, <1>5, <1>6 DEF Typed, Memtable
<1>12. Statuses'
    BY <1>2, <1>5, <1>9 DEF Statuses, Free
<1>13. Epochs' /\ Bounded'
    BY <1>2, <1>5 DEF Epochs, Bounded
<1>14. Ordered'
    BY <1>5, <1>7, <1>9, <1>10 DEF Ordered
<1>15. Dropped'
  <2>1. \A w \in 1..Len(written) : Held(w)' => Held(w)
      BY <1>5 DEF Held
  <2>. SUFFICES ASSUME NEW w \in 1..Len(written), ~Held(w)'
                PROVE  /\ written[w].epoch <= cleared'
                       /\ \A v \in 1..Len(written) : Held(v)' => w < v
    <3>1. cleared' # None
        BY <1>1, MemTableAssumption
    <3>. QED  BY <1>2, <3>1 DEF Dropped
  <2>2. written[w].epoch \in Nat
    <3>1. written \in Seq(Write)
        BY DEF Typed
    <3>2. written[w] \in Write
        BY SMTT(30), <3>1
    <3>. QED  BY <3>2 DEF Write
  <2>3. CASE Held(w)
    <3>1. PICK t \in Table : w \in memtables[t].entries
        BY <2>3 DEF Held
    <3>2. Freed(t) /\ ~Free(t)
        BY <1>5, <1>9, <3>1 DEF Held
    <3>3. written[w].epoch <= cleared'
        BY SMTT(30), <1>0, <1>1, <1>8, <2>2, <3>1, <3>2 DEF Freed, Bounded
    <3>4. ASSUME NEW v \in 1..Len(written), Held(v)' PROVE w < v
      <4>1. PICK u \in Table : v \in memtables'[u].entries
          BY <3>4 DEF Held
      <4>2. v \in memtables[u].entries /\ ~Freed(u) /\ ~Free(u)'
          BY <1>5, <1>9, <4>1 DEF Statuses
      <4>3. ~(Age(t) < Age(u))
          BY <1>10, <3>2, <4>2
      <4>4. Age(t) # Age(u)
          BY SMTT(30), <3>2, <4>2, Walk
      <4>5. Age(u) < Age(t)
          BY SMTT(30), <1>7, <4>3, <4>4
      <4>. QED  BY <3>1, <3>2, <4>2, <4>5 DEF Ordered
    <3>. QED  BY <3>3, <3>4
  <2>4. CASE ~Held(w)
      BY SMTT(30), <1>1, <2>1, <2>2, <2>4 DEF Dropped
  <2>. QED  BY <2>3, <2>4
<1>. QED  BY <1>11, <1>12, <1>13, <1>14, <1>15

(* Every reachable state satisfies the invariant.                          *)
THEOREM Invariance == Spec => []IInv
<1>1. IInv /\ [Next]_vars => IInv'
  <2>. SUFFICES ASSUME IInv, [Next]_vars PROVE IInv'
      OBVIOUS
  <2>1. ASSUME NEW key \in Key, NEW epoch \in latest_epoch..MaxEpoch, NEW deleted \in BOOLEAN,
               NEW len \in Nat, upsertOrDelete(key, epoch, deleted, len)
        PROVE  IInv'
    <3>1. entrySize(len) \in Nat
        BY SMTT(30), MemTableAssumption DEF entrySize
    <3>2. CASE CacheIsFull(entrySize(len))
        BY <3>2 DEF CacheIsFull, vars, IInv, Typed, Memtable, Statuses, Free, Epochs, Bounded,
                    Ordered, Age, Dropped, Held
    <3>3. CASE ~CacheIsFull(entrySize(len))
      <4>1. Accepts(epoch)
          BY SMTT(30), <2>1, <3>3, MemTableAssumption DEF upsertOrDelete, Accepts, IInv, Typed
      <4>. QED  BY <2>1, <3>1, <3>3, <4>1, InPlaceIInv, SwitchIInv DEF upsertOrDelete
    <3>. QED  BY <3>2, <3>3
  <2>2. ASSUME NEW key \in Key, NEW epoch \in latest_epoch..MaxEpoch,
               upsert(key, epoch) \/ delete(key, epoch)
        PROVE  IInv'
      BY <2>1, <2>2, MemTableAssumption DEF upsert, delete
  <2>3. ASSUME registerGcCallback \/ UNCHANGED vars
        PROVE  IInv'
    <3>. UNCHANGED <<memtables, mut_memtable_idx, latest_epoch, written, cleared>>
        BY <2>3 DEF registerGcCallback, vars
    <3>. QED
      BY DEF IInv, Typed, Memtable, Statuses, Free, Epochs, Bounded,
                  Ordered, Age, Dropped, Held
  <2>. QED  BY <2>2, <2>3, ClearIInv DEF Next
<1>. QED  BY InitIInv, <1>1, PTL DEF Spec

---------------------------------------------------------------------------
(* What get returns                                                        *)

(* A nonempty set of natural numbers has a least element.                  *)
LEMMA Least ==
    ASSUME NEW S \in SUBSET Nat, S # {}
    PROVE  \E i \in S : \A j \in S : i <= j
<1>1. PICK i \in S : \A j \in S : ~(<<j, i>> \in OpToRel(<, Nat))
    BY NatLessThanWellFounded, WFMin
<1>2. \A j \in S : ~(j < i)
    BY <1>1 DEF OpToRel
<1>. QED  BY SMTT(30), <1>2

(* The least of a set of numbers                                           *)
LEMMA MinOf ==
    ASSUME NEW S \in SUBSET Nat, S # {}
    PROVE  Min(S) \in S /\ \A j \in S : Min(S) <= j
BY Least DEF Min

(* The greatest of a set of numbers up to n                                *)
LEMMA MaxOf ==
    ASSUME NEW n \in Nat, NEW S \in SUBSET (1..n), S # {}
    PROVE  Max(S) \in S /\ \A j \in S : j <= Max(S)
<1>. DEFINE T == {i \in 0..n : n - i \in S}
<1>1. T \subseteq Nat
    BY SMTT(30)
<1>2. T # {}
  <2>1. PICK j \in S : TRUE
      OBVIOUS
  <2>2. j \in 1..n /\ n - j \in 0..n /\ n - (n - j) = j
      BY SMTT(30)
  <2>3. n - j \in T
      BY <2>2
  <2>. QED  BY <2>3
<1>3. PICK i \in T : \A j \in T : i <= j
    BY <1>1, <1>2, Least
<1>4. ASSUME NEW j \in S PROVE n - i >= j
  <2>1. j \in 1..n /\ n - j \in 0..n /\ n - (n - j) = j
      BY SMTT(30)
  <2>2. n - j \in T
      BY <2>1
  <2>. QED  BY SMTT(30), <1>3, <2>1, <2>2
<1>5. \E x \in S : \A y \in S : x >= y
    BY <1>3, <1>4
<1>6. Max(S) \in S /\ \A y \in S : Max(S) >= y
    BY <1>5 DEF Max
<1>. QED  BY <1>6

(* The epoch get looks up                                                  *)
At(epoch) == IF epoch = None THEN latest_epoch ELSE Min({epoch, latest_epoch})

(* The epoch that get searches with                                        *)
LEMMA AtFacts ==
    ASSUME IInv, NEW epoch \in Epoch \cup {None}
    PROVE  /\ At(epoch) \in Nat
           /\ At(epoch) <= latest_epoch /\ (epoch # None => At(epoch) <= epoch)
           /\ \A v \in 1..Len(written) : /\ written[v].epoch \in Nat
                                        /\ written[v].epoch <= latest_epoch
           /\ \A key \in Key, v \in 1..Len(written) :
                 v \in Upto(key, epoch) <=> written[v].key = key /\ written[v].epoch <= At(epoch)
<1>1. latest_epoch \in Nat /\ written \in Seq(Write)
    BY DEF IInv, Typed
<1>2. \A v \in 1..Len(written) : written[v].epoch \in Nat /\ written[v].epoch <= latest_epoch
  <2>1. \A v \in 1..Len(written) : written[v] \in Write
      BY SMTT(30), <1>1
  <2>. QED  BY <2>1 DEF IInv, Epochs, Write
<1>3. CASE epoch = None
    BY SMTT(30), <1>1, <1>2, <1>3 DEF At, Upto
<1>4. CASE epoch # None
  <2>1. epoch \in Nat
      BY SMTT(30), <1>4, MemTableAssumption DEF Epoch
  <2>2. /\ Min({epoch, latest_epoch}) \in {epoch, latest_epoch}
        /\ \A j \in {epoch, latest_epoch} : Min({epoch, latest_epoch}) <= j
      BY <1>1, <2>1, MinOf
  <2>3. /\ At(epoch) \in Nat /\ At(epoch) <= latest_epoch /\ At(epoch) <= epoch
        /\ At(epoch) = epoch \/ At(epoch) = latest_epoch
      BY <1>1, <1>4, <2>1, <2>2 DEF At
  <2>4. \A key \in Key, v \in 1..Len(written) :
           v \in Upto(key, epoch) <=> written[v].key = key /\ written[v].epoch <= epoch
      BY <1>4 DEF Upto
  <2>5. \A v \in 1..Len(written) : written[v].epoch <= epoch <=> written[v].epoch <= At(epoch)
      BY SMTT(30), <1>1, <1>2, <2>1, <2>3
  <2>. QED  BY <1>2, <2>3, <2>4, <2>5
<1>. QED  BY <1>3, <1>4

(* The walk reaches every table in use that holds a write it looks for.    *)
LEMMA WalkReaches ==
    ASSUME IInv, NEW key \in Key, NEW at \in Nat, NEW u \in Table, NEW n \in memtables[u].entries,
           written[n].key = key, written[n].epoch <= at
    PROVE  Age(u) \in walked(at) /\ lowerBound(u, key, at) # {}
<1>1. /\ Len(written) \in Nat /\ memtables[u].entries \subseteq 1..Len(written)
      /\ memtables[u].oldest_epoch \in Nat
    BY SMTT(30) DEF IInv, Typed, Memtable
<1>2. written[n].epoch \in Nat /\ memtables[u].oldest_epoch <= written[n].epoch
    BY <1>1, AtFacts DEF IInv, Bounded
<1>3. Age(u) \in Table /\ backwards(Age(u)) = u
    BY Walk DEF IInv
<1>4. ASSUME NEW j \in 0..Age(u) PROVE memtables[backwards(j)].status # "FLUSHED"
  <2>1. ~Free(u)
      BY DEF IInv, Statuses
  <2>2. CASE j = Age(u)
      BY <1>3, <2>1, <2>2 DEF Free
  <2>3. CASE j # Age(u)
    <3>1. j \in Table /\ j < Age(u)
        BY SMTT(30), <1>3, <2>3, MemTableAssumption DEF Table
    <3>2. backwards(j) \in Table /\ Age(backwards(j)) = j
        BY <3>1, Walk DEF IInv
    <3>. QED  BY <2>1, <3>1, <3>2 DEF IInv, Ordered, Free
  <2>. QED  BY <2>2, <2>3
<1>5. Age(u) \in walked(at)
    BY SMTT(30), <1>1, <1>2, <1>3, <1>4 DEF walked, Table
<1>. DEFINE upTo == {v \in memtables[u].entries : written[v].key = key /\ written[v].epoch <= at}
<1>6. n \in upTo /\ upTo \subseteq 1..Len(written)
    BY <1>1
<1>7. Max(upTo) \in upTo /\ \A v \in upTo : v <= Max(upTo)
    BY <1>1, <1>6, MaxOf
<1>. HIDE DEF upTo
<1>8. \A v \in upTo : written[v].epoch <= written[Max(upTo)].epoch
  <2>. SUFFICES ASSUME NEW v \in upTo PROVE written[v].epoch <= written[Max(upTo)].epoch
      OBVIOUS
  <2>1. Max(upTo) \in 1..Len(written) /\ v \in 1..Len(written) /\ v <= Max(upTo)
      BY <1>6, <1>7
  <2>2. v \in 1..Max(upTo)
      BY SMTT(30), <1>1, <2>1
  <2>. QED  BY <2>1, <2>2 DEF IInv, Epochs
<1>. QED  BY <1>5, <1>7, <1>8 DEF lowerBound, upTo

(* The write a read finds is the newest one, if the history has one.       *)
LEMMA FoundIsNewest ==
    ASSUME IInv, NEW key \in Key, NEW epoch \in Epoch \cup {None}, ~Ambiguous(key, epoch),
           NEW w \in get(key, epoch), w # None
    PROVE  w = Newest(key, epoch)
<1>. DEFINE at == At(epoch)
            hits == {i \in walked(at) : lowerBound(backwards(i), key, at) # {}}
            n == Newest(key, epoch)
            h == Min(hits)
            t == backwards(h)
<1>1. Len(written) \in Nat
    BY SMTT(30) DEF IInv, Typed
<1>2. hits # {} /\ w \in lowerBound(t, key, at)
    BY DEF get, At
<1>3. walked(at) \subseteq Table /\ Table \subseteq Nat
    BY SMTT(30) DEF walked, Table
<1>4. h \in hits /\ \A i \in hits : h <= i
    BY <1>2, <1>3, MinOf
<1>. HIDE DEF h
<1>5. t \in Table /\ Age(t) = h
    BY <1>3, <1>4, Walk DEF IInv
<1>6. /\ w \in memtables[t].entries /\ written[w].key = key /\ written[w].epoch <= at
      /\ \A v \in memtables[t].entries :
            written[v].key = key /\ written[v].epoch <= at => written[v].epoch <= written[w].epoch
    BY <1>2 DEF lowerBound
<1>7. w \in 1..Len(written)
    BY <1>5, <1>6 DEF IInv, Typed, Memtable
<1>8. w \in Upto(key, epoch) /\ Upto(key, epoch) \subseteq 1..Len(written)
    BY <1>6, <1>7, AtFacts DEF Upto
<1>9. n \in Upto(key, epoch) /\ w <= n
    BY <1>1, <1>8, MaxOf DEF Newest
<1>10. n \in 1..Len(written) /\ written[n].key = key /\ written[n].epoch <= at
    BY <1>8, <1>9, AtFacts
<1>. HIDE DEF n
<1>11. PICK u \in Table : n \in memtables[u].entries
  <2>1. Held(w)
      BY <1>5, <1>6 DEF Held
  <2>2. Held(n)
      BY SMTT(30), <1>7, <1>9, <1>10, <2>1 DEF IInv, Dropped
  <2>. QED  BY <2>2 DEF Held
<1>12. ~Free(t) /\ ~Free(u)
    BY <1>5, <1>6, <1>11 DEF IInv, Statuses
<1>13. Age(u) \in Table /\ backwards(Age(u)) = u
    BY Walk DEF IInv
<1>14. ~(Age(t) < Age(u))
    BY SMTT(30), <1>5, <1>6, <1>7, <1>9, <1>10, <1>11, <1>12 DEF IInv, Ordered
<1>15. Age(u) \in hits
    BY <1>10, <1>11, <1>13, AtFacts, WalkReaches
<1>16. u = t
    BY SMTT(30), <1>3, <1>4, <1>5, <1>13, <1>14, <1>15 DEF Table
<1>17. written[n].epoch = written[w].epoch
  <2>1. written[n].epoch <= written[w].epoch
      BY <1>6, <1>10, <1>11, <1>16
  <2>2. written[w].epoch <= written[n].epoch
      BY SMTT(30), <1>7, <1>9, <1>10 DEF IInv, Epochs
  <2>. QED  BY SMTT(30), <1>7, <1>10, <2>1, <2>2, AtFacts
<1>18. n # None
    BY SMTT(30), <1>10, MemTableAssumption
<1>. QED  BY <1>8, <1>17, <1>18 DEF Ambiguous, n

(* A read never goes back in time.                                         *)
THEOREM NeverStaleHolds == Spec => []NeverStale
<1>1. IInv => NeverStale
    BY FoundIsNewest DEF NeverStale
<1>. QED  BY Invariance, <1>1, PTL

(* A write above every epoch cleared is still found.                       *)
THEOREM KeptUntilClearedHolds == Spec => []KeptUntilCleared
<1>1. IInv => KeptUntilCleared
  <2>. SUFFICES ASSUME IInv, NEW key \in Key, NEW epoch \in Epoch \cup {None},
                       Newest(key, epoch) # None, ~Ambiguous(key, epoch),
                       cleared = None \/ written[Newest(key, epoch)].epoch > cleared
                PROVE  get(key, epoch) = {Newest(key, epoch)}
      BY DEF KeptUntilCleared
  <2>. DEFINE at == At(epoch)
              hits == {i \in walked(at) : lowerBound(backwards(i), key, at) # {}}
              n == Newest(key, epoch)
  <2>1. Len(written) \in Nat /\ Upto(key, epoch) \subseteq 1..Len(written)
      BY SMTT(30) DEF IInv, Typed, Upto
  <2>2. n \in Upto(key, epoch)
      BY <2>1, MaxOf DEF Newest
  <2>3. /\ n \in 1..Len(written) /\ written[n].key = key /\ written[n].epoch <= at
        /\ written[n].epoch \in Nat
      BY <2>1, <2>2, AtFacts
  <2>. HIDE DEF n
  <2>4. Held(n)
    <3>1. ~(cleared # None /\ written[n].epoch <= cleared)
      <4>1. cleared # None => cleared \in Nat
          BY DEF IInv, Typed
      <4>. QED  BY SMTT(30), <2>3, <4>1 DEF n
    <3>. QED  BY <2>3, <3>1 DEF IInv, Dropped
  <2>5. PICK u \in Table : n \in memtables[u].entries
      BY <2>4 DEF Held
  <2>6. Age(u) \in hits
      BY <2>3, <2>5, AtFacts, WalkReaches, Walk DEF IInv
  <2>7. hits \subseteq Nat
      BY SMTT(30) DEF walked
  <2>8. Min(hits) \in hits
      BY <2>6, <2>7, MinOf
  <2>9. get(key, epoch) = lowerBound(backwards(Min(hits)), key, at) /\ get(key, epoch) # {}
      BY <2>6, <2>8 DEF get, At
  <2>10. ASSUME NEW w \in get(key, epoch) PROVE w = n
    <3>1. Min(hits) \in Table
        BY <2>8 DEF walked, Table
    <3>2. backwards(Min(hits)) \in Table
        BY <3>1, Walk DEF IInv
    <3>3. w \in memtables[backwards(Min(hits))].entries
        BY <2>9, <2>10 DEF lowerBound
    <3>4. w \in Nat
        BY SMTT(30), <3>2, <3>3 DEF IInv, Typed, Memtable
    <3>. QED  BY <3>4, FoundIsNewest, MemTableAssumption DEF n
  <2>. QED  BY <2>9, <2>10 DEF n
<1>. QED  BY Invariance, <1>1, PTL

---------------------------------------------------------------------------
(* The prefetching buffer *)

(* A prefetch call between its request and its answer                      *)
Active(t) == call[t].at \in {"wait", "retry", "fetch", "read", "failed"}

(* A key that some transaction has requested has a state, and the key of a *)
(* running call is one of them: it is not evicted under the call.          *)
Requests ==
    /\ \A t \in Transaction : Active(t) => /\ call[t].key \in transaction_keys[t]
                                           /\ call[t].n \in 1..fetch_sequence_number
    /\ \A t \in Transaction : \A k \in transaction_keys[t] : key_state[k] # PB!Absent

(* All running calls for a key have one number, that of its state if the   *)
(* state has one, and no number is ahead of the counter.                   *)
Numbers ==
    /\ \A k \in Key : key_state[k].n <= fetch_sequence_number
    /\ \A t \in Transaction :
          Active(t) /\ key_state[call[t].key].is \in {"Loading", "Requested"} =>
             call[t].n = key_state[call[t].key].n
    /\ \A t, u \in Transaction :
          Active(t) /\ Active(u) /\ call[t].key = call[u].key => call[t].n = call[u].n

InFetch(t, k) == call[t].key = k /\ call[t].at \in {"fetch", "read", "failed"}

(* While no fetch of a key has failed, nobody is told to retry and there   *)
(* is a single fetch.                                                      *)
Unfailed ==
    \A k \in Key \ failed :
       /\ channel[k] # "Requested"
       /\ key_state[k].is # "Requested"
       /\ \A t \in Transaction : ~PB!CallAt(t, k, "retry")
       /\ \A t, u \in Transaction : InFetch(t, k) /\ InFetch(u, k) => t = u

Busy(k) == \E c \in committing : c.key = k

(* Unless the buffer was told of commits out of order, the last commit of  *)
(* a key is the last one it is told of.                                    *)
Latest ==
    /\ \A c \in committing : c.n <= commits
    /\ \A k \in Key \ raced : Busy(k) =>
          \E c \in committing : /\ c.key = k /\ c.value = storage[k]
                               /\ \A d \in committing \ {c} : d.key = k => d.n < c.n

(* Outside the commits of a key, the buffer agrees with storage and a      *)
(* fetch has read what is in storage, or its result will be ignored.       *)
Fresh ==
    \A k \in Key \ raced : ~Busy(k) =>
       /\ PB!visible(k) = storage[k]
       /\ \A t \in Transaction : PB!CallAt(t, k, "read") =>
             call[t].value = storage[k] \/ (key_state[k] = PB!Fetched /\ k \notin failed)

BufferIInv == PB!TypeOK /\ PB!NoPanic /\ Requests /\ Numbers /\ Unfailed /\ Latest /\ Fresh

---------------------------------------------------------------------------
(* The states of a key                                                     *)

(* A state is known by its kind, and by its number when it has one.        *)
LEMMA StateForms ==
    /\ PB!Absent \in PB!KeyState /\ PB!Absent.is = "Absent" /\ PB!Absent.n = 0
    /\ PB!Fetched \in PB!KeyState /\ PB!Fetched.is = "Fetched" /\ PB!Fetched.n = 0
    /\ \A n \in Nat \ {0} : /\ PB!Loading(n) \in PB!KeyState
                            /\ PB!Loading(n).is = "Loading" /\ PB!Loading(n).n = n
                            /\ PB!Requested(n) \in PB!KeyState
                            /\ PB!Requested(n).is = "Requested" /\ PB!Requested(n).n = n
    /\ \A s \in PB!KeyState :
          /\ s.is \in {"Absent", "Fetched", "Loading", "Requested"}
          /\ s.n \in Nat
          /\ s.is = "Absent" <=> s = PB!Absent
          /\ s.is = "Fetched" <=> s = PB!Fetched
          /\ s.is \in {"Loading", "Requested"} => s.n # 0
BY SMTT(30) DEF PB!KeyState, PB!Absent, PB!Fetched, PB!Loading, PB!Requested

---------------------------------------------------------------------------
(* The inductive invariant                                                 *)

(* It holds of the empty buffer.                                           *)
LEMMA BufferInitIInv ==
    ASSUME PB!BoundAssumption, PB!Init
    PROVE  BufferIInv
<1>. USE DEF PB!Init
<1>1. PB!TypeOK
  <2>1. PB!Idle \in PB!Call
      BY DEF PB!Idle, PB!Call
  <2>2. 0 \in 0..MaxCommits /\ 0 \in Nat
      BY SMTT(30) DEF PB!BoundAssumption
  <2>3. PB!Absent \in PB!KeyState
      BY StateForms
  <2>. QED  BY <2>1, <2>2, <2>3 DEF PB!TypeOK
<1>2. PB!NoPanic /\ Requests /\ Numbers /\ Unfailed
    BY SMTT(30), StateForms DEF PB!NoPanic, Requests, Numbers, Unfailed, Active, PB!Idle, InFetch,
                                PB!CallAt
<1>3. Latest /\ Fresh
    BY DEF Latest, Busy, Fresh, PB!visible, PB!CallAt, PB!Idle
<1>. QED  BY <1>1, <1>2, <1>3 DEF BufferIInv

(* What a move of a call does to the calls                                 *)
LEMMA CallMoves ==
    ASSUME PB!TypeOK, NEW t \in Transaction,
           NEW there \in {"idle", "wait", "retry", "fetch", "read", "failed", "over", "panicked"},
           PB!CallGoes(t, there)
    PROVE  /\ call' \in [Transaction -> PB!Call]
           /\ call'[t].at = there /\ call'[t].key = call[t].key
           /\ call'[t].n = call[t].n /\ call'[t].value = call[t].value
           /\ \A u \in Transaction \ {t} : call'[u] = call[u]
BY DEF PB!CallGoes, PB!TypeOK, PB!Call

(* A call that has returned is idle.                                       *)
LEMMA CallEnds ==
    ASSUME PB!TypeOK, NEW t \in Transaction, PB!CallReturns(t)
    PROVE  /\ call' \in [Transaction -> PB!Call]
           /\ call'[t].at = "idle"
           /\ \A u \in Transaction \ {t} : call'[u] = call[u]
<1>1. PB!Idle \in PB!Call /\ PB!Idle.at = "idle"
    BY DEF PB!Idle, PB!Call
<1>. QED  BY <1>1 DEF PB!CallReturns, PB!TypeOK

(* A call that has to wait or to fetch knows its key and number.           *)
LEMMA CallStarts ==
    ASSUME PB!TypeOK, NEW t \in Transaction, NEW k \in Key, NEW at \in {"wait", "fetch"},
           NEW n \in Nat, PB!CallBegins(t, k, at, n)
    PROVE  /\ call' \in [Transaction -> PB!Call]
           /\ call'[t].at = at /\ call'[t].key = k /\ call'[t].n = n
           /\ \A u \in Transaction \ {t} : call'[u] = call[u]
<1> DEFINE c == [at |-> at, key |-> k, n |-> n, value |-> None]
<1>1. c \in PB!Call /\ c.at = at /\ c.key = k /\ c.n = n
    BY DEF PB!Call
<1>2. call' = [call EXCEPT ![t] = c]
    BY DEF PB!CallBegins
<1>. HIDE DEF c
<1>. QED  BY <1>1, <1>2 DEF PB!TypeOK

(* A step of a prefetch leaves the commits alone.                          *)
LEMMA LatestFrame ==
    ASSUME Latest, UNCHANGED <<storage, committing, commits, raced>>
    PROVE  Latest' /\ \A k \in Key : Busy(k)' <=> Busy(k)
BY DEF Latest, Busy

(* process_prefetch_request for a key that is in the buffer                *)
LEMMA RequestFetchedIInv ==
    ASSUME BufferIInv, NEW t \in Transaction, NEW k \in Key, PB!requestFetched(t, k)
    PROVE  BufferIInv'
<1>. USE DEF BufferIInv, PB!requestFetched, PB!request
<1>0. Latest' /\ \A j \in Key : Busy(j)' <=> Busy(j)
    BY LatestFrame
<1>1. key_state[k] # PB!Absent
    BY SMTT(30), StateForms DEF PB!noted, PB!TypeOK
<1>2. fetch_sequence_number' = fetch_sequence_number
    BY SMTT(30), <1>1 DEF PB!TypeOK
<1>3. PB!TypeOK' /\ PB!NoPanic'
    BY <1>2 DEF PB!TypeOK, PB!NoPanic
<1>4. Requests'
    BY <1>1, <1>2 DEF Requests, Active, PB!TypeOK
<1>5. Numbers' /\ Unfailed' /\ Fresh'
    BY SMTT(30), <1>0, <1>2 DEF Numbers, Unfailed, Fresh, Active, InFetch, PB!CallAt, PB!visible
<1>. QED  BY <1>0, <1>3, <1>4, <1>5

(* process_prefetch_request for a key that another transaction fetches     *)
LEMMA RequestLoadingIInv ==
    ASSUME BufferIInv, NEW t \in Transaction, NEW k \in Key, PB!requestLoading(t, k)
    PROVE  BufferIInv'
<1>. USE DEF BufferIInv, PB!requestLoading, PB!request
<1>0. Latest' /\ \A j \in Key : Busy(j)' <=> Busy(j)
    BY LatestFrame
<1>1. /\ key_state[k].is = "Loading" /\ PB!noted(k) = key_state[k]
      /\ key_state[k].n \in 1..fetch_sequence_number
    BY SMTT(30), StateForms DEF PB!noted, PB!TypeOK, Numbers
<1>2. fetch_sequence_number' = fetch_sequence_number
    BY SMTT(30), <1>1, StateForms DEF PB!TypeOK
<1>3. /\ call' \in [Transaction -> PB!Call]
      /\ call'[t].at = "wait" /\ call'[t].key = k /\ call'[t].n = key_state[k].n
      /\ \A u \in Transaction \ {t} : call'[u] = call[u]
  <2>1. key_state[k].n \in Nat
      BY <1>1, StateForms DEF PB!TypeOK
  <2>. QED  BY <1>1, <2>1, CallStarts
<1>4. PB!TypeOK' /\ PB!NoPanic'
    BY <1>2, <1>3 DEF PB!TypeOK, PB!NoPanic
<1>5. Requests'
    BY SMTT(30), <1>1, <1>2, <1>3, StateForms DEF Requests, Active, PB!TypeOK
<1>6. Numbers'
    BY SMTT(30), <1>1, <1>2, <1>3 DEF Numbers, Active
<1>7. Unfailed' /\ Fresh'
    BY SMTT(30), <1>0, <1>3 DEF Unfailed, Fresh, InFetch, PB!CallAt, PB!visible
<1>. QED  BY <1>0, <1>4, <1>5, <1>6, <1>7

(* process_prefetch_request for a key that nobody fetches                  *)
LEMMA RequestNewIInv ==
    ASSUME BufferIInv, NEW t \in Transaction, NEW k \in Key, PB!requestNew(t, k)
    PROVE  BufferIInv'
<1> DEFINE n == PB!noted(k).n
<1>. USE DEF BufferIInv, PB!requestNew, PB!request
<1>0. Latest' /\ \A j \in Key : Busy(j)' <=> Busy(j)
    BY LatestFrame
<1>1. /\ key_state[k].is \in {"Absent", "Requested"}
      /\ n \in 1..fetch_sequence_number'
      /\ fetch_sequence_number' \in Nat /\ fetch_sequence_number <= fetch_sequence_number'
      /\ key_state[k].is = "Requested" => n = key_state[k].n
    BY SMTT(30), StateForms DEF PB!noted, PB!TypeOK, Numbers
<1>2. /\ call' \in [Transaction -> PB!Call]
      /\ call'[t].at = "fetch" /\ call'[t].key = k /\ call'[t].n = n
      /\ \A u \in Transaction \ {t} : call'[u] = call[u]
  <2>1. n \in Nat
      BY SMTT(30), <1>1
  <2>. QED  BY <2>1, CallStarts
<1>3. /\ PB!Loading(n) \in PB!KeyState /\ PB!Loading(n).is = "Loading" /\ PB!Loading(n).n = n
      /\ key_state'[k] = PB!Loading(n)
      /\ \A j \in Key \ {k} : key_state'[j] = key_state[j]
      /\ key_state' \in [Key -> PB!KeyState]
    BY SMTT(30), <1>1, StateForms DEF PB!ChangeToLoading, PB!TypeOK
<1>4. /\ channel' \in [Key -> {"none", "unsent", "Fetched", "Requested"}]
      /\ channel'[k] = "Requested" => channel[k] = "Requested"
      /\ \A j \in Key \ {k} : channel'[j] = channel[j]
    BY DEF PB!ChangeToLoading, PB!TypeOK
<1>5. \A u \in Transaction : Active(u) /\ call[u].key = k => key_state[k].is = "Requested"
    BY SMTT(30), <1>1, StateForms DEF Requests, PB!TypeOK
<1>6. PB!TypeOK' /\ PB!NoPanic'
    BY <1>1, <1>2, <1>3, <1>4 DEF PB!TypeOK, PB!NoPanic
<1>7. Requests'
  <2>1. PB!Loading(n) # PB!Absent
      BY <1>3, StateForms
  <2>. QED  BY SMTT(30), <1>1, <1>2, <1>3, <2>1 DEF Requests, Active, PB!TypeOK
<1>8. Numbers'
  <2>1. \A j \in Key : key_state'[j].n <= fetch_sequence_number'
      BY SMTT(30), <1>1, <1>3, StateForms DEF Numbers, PB!TypeOK
  <2>2. \A u \in Transaction : Active(u) /\ call[u].key = k => call[u].n = n
      BY <1>1, <1>5 DEF Numbers
  <2>3. \A u \in Transaction : Active(u) => call[u].key \in Key
      BY DEF Requests, PB!TypeOK
  <2>4. ASSUME NEW u \in Transaction \ {t}, Active(u)'
        PROVE  /\ Active(u) /\ call'[u] = call[u] /\ call[u].key \in Key
               /\ call[u].key = k => call[u].n = n
      BY <1>2, <2>2, <2>3, <2>4 DEF Active
  <2>5. \A u \in Transaction :
           Active(u)' /\ key_state'[call'[u].key].is \in {"Loading", "Requested"} =>
              call'[u].n = key_state'[call'[u].key].n
      BY SMTT(30), <1>2, <1>3, <2>4 DEF Numbers
  <2>6. \A u, v \in Transaction :
           Active(u)' /\ Active(v)' /\ call'[u].key = call'[v].key => call'[u].n = call'[v].n
    <3>1. \A u \in Transaction \ {t} : Active(u)' /\ call'[u].key = k => call'[u].n = n
        BY <2>4
    <3>2. \A u, v \in Transaction \ {t} :
             Active(u)' /\ Active(v)' /\ call'[u].key = call'[v].key => call'[u].n = call'[v].n
      <4>1. \A u, v \in Transaction :
               Active(u) /\ Active(v) /\ call[u].key = call[v].key => call[u].n = call[v].n
          BY DEF Numbers
      <4>2. \A u \in Transaction \ {t} : Active(u)' => Active(u) /\ call'[u] = call[u]
          BY <2>4
      <4>. QED  BY ONLY <4>1, <4>2
    <3>. QED  BY ONLY <1>2, <3>1, <3>2
  <2>. QED  BY <2>1, <2>5, <2>6 DEF Numbers
<1>9. Unfailed'
  <2>1. \A u \in Transaction : InFetch(u, k) => Active(u) /\ call[u].key = k
      BY DEF InFetch, Active
  <2>. QED  BY SMTT(30), <1>1, <1>2, <1>3, <1>4, <1>5, <2>1 DEF Unfailed, InFetch, PB!CallAt
<1>10. Fresh'
  <2>1. \A u \in Transaction : PB!CallAt(u, k, "read") => key_state[k].is # "Fetched"
      BY <1>5 DEF PB!CallAt, Active
  <2>. QED  BY SMTT(30), <1>0, <1>2, <1>3, <2>1, StateForms DEF Fresh, PB!CallAt, PB!visible
<1>. QED  BY <1>0, <1>6, <1>7, <1>8, <1>9, <1>10

(* The end of a wait on the key's channel                                  *)
LEMMA WakeIInv ==
    ASSUME BufferIInv, NEW t \in Transaction, NEW k \in Key, PB!wake(t, k)
    PROVE  BufferIInv'
<1>. USE DEF BufferIInv, PB!wake, PB!bufferVars
<1>0. Latest' /\ \A j \in Key : Busy(j)' <=> Busy(j)
    BY LatestFrame
<1>1. call[t].at = "wait" /\ call[t].key = k
    BY DEF PB!CallAt
<1>2. /\ call' \in [Transaction -> PB!Call]
      /\ \/ call'[t].at = "idle"
         \/ /\ channel[k] = "Requested" /\ call'[t].at = "retry"
            /\ call'[t].key = k /\ call'[t].n = call[t].n
      /\ \A u \in Transaction \ {t} : call'[u] = call[u]
    BY <1>1, CallMoves, CallEnds
<1>3. PB!TypeOK' /\ PB!NoPanic'
    BY <1>2 DEF PB!TypeOK, PB!NoPanic
<1>4. Requests' /\ Numbers'
  <2>1. \A u \in Transaction : Active(u)' => /\ Active(u)
                                             /\ call'[u].key = call[u].key
                                             /\ call'[u].n = call[u].n
      BY <1>1, <1>2 DEF Active
  <2>2. Requests'
      BY <2>1 DEF Requests
  <2>3. Numbers'
      BY SMTT(30), <2>1 DEF Numbers
  <2>. QED  BY <2>2, <2>3
<1>5. Unfailed'
    BY SMTT(30), <1>2 DEF Unfailed, InFetch, PB!CallAt
<1>6. Fresh'
    BY ZenonT(60), <1>0, <1>2 DEF Fresh, PB!CallAt, PB!visible
<1>. QED  BY <1>0, <1>3, <1>4, <1>5, <1>6

(* The second fetch of a transaction whose wait ended in a failure: its    *)
(* key is still in the buffer, so that change_keystate_to_loading succeeds *)
LEMMA RetryIInv ==
    ASSUME BufferIInv, NEW t \in Transaction, NEW k \in Key, PB!retry(t, k)
    PROVE  BufferIInv'
<1> DEFINE n == call[t].n
<1>. USE DEF BufferIInv
<1>0. Latest' /\ \A j \in Key : Busy(j)' <=> Busy(j)
    BY LatestFrame DEF PB!retry
<1>1. /\ call[t].at = "retry" /\ call[t].key = k
      /\ k \in transaction_keys[t] /\ key_state[k] # PB!Absent
      /\ n \in Nat \ {0} /\ n <= fetch_sequence_number
      /\ k \in failed
    BY SMTT(30) DEF PB!retry, PB!CallAt, Requests, Active, Unfailed, PB!TypeOK
<1>2. /\ call' \in [Transaction -> PB!Call]
      /\ call'[t].at = "fetch" /\ call'[t].key = k /\ call'[t].n = n
      /\ \A u \in Transaction \ {t} : call'[u] = call[u]
      /\ panicked' = panicked
    BY <1>1, CallMoves DEF PB!retry
<1>3. /\ PB!Loading(n) \in PB!KeyState /\ PB!Loading(n).is = "Loading" /\ PB!Loading(n).n = n
      /\ key_state'[k] = PB!Loading(n) /\ PB!Loading(n) # PB!Absent
      /\ \A j \in Key \ {k} : key_state'[j] = key_state[j]
      /\ key_state' \in [Key -> PB!KeyState]
    BY ZenonT(60), <1>1, StateForms DEF PB!retry, PB!ChangeToLoading, PB!TypeOK
<1>4. /\ channel' \in [Key -> {"none", "unsent", "Fetched", "Requested"}]
      /\ \A j \in Key \ {k} : channel'[j] = channel[j]
    BY DEF PB!retry, PB!ChangeToLoading, PB!TypeOK
<1>. UNCHANGED <<storage, prefetch_store, transaction_keys, fetch_sequence_number,
                 committing, commits, failed, raced>>
    BY DEF PB!retry
<1>5. PB!TypeOK' /\ PB!NoPanic'
    BY <1>2, <1>3, <1>4 DEF PB!TypeOK, PB!NoPanic
<1>6. Requests'
    BY <1>1, <1>2, <1>3 DEF Requests, Active, PB!TypeOK
<1>7. Numbers'
  <2>1. \A u \in Transaction : Active(u) /\ call[u].key = k => call[u].n = n
      BY <1>1 DEF Numbers, Active
  <2>2. \A u \in Transaction : Active(u) => call[u].key \in Key
      BY DEF Requests, PB!TypeOK
  <2>3. \A j \in Key : key_state'[j].n <= fetch_sequence_number'
      BY <1>1, <1>3 DEF Numbers
  <2>4. \A u \in Transaction : Active(u)' => /\ Active(u)
                                             /\ call'[u].key = call[u].key
                                             /\ call'[u].n = call[u].n
      BY <1>1, <1>2 DEF Active
  <2>5. \A u \in Transaction :
           Active(u)' /\ key_state'[call'[u].key].is \in {"Loading", "Requested"} =>
              call'[u].n = key_state'[call'[u].key].n
    <3>1. \A u \in Transaction :
             Active(u) /\ key_state[call[u].key].is \in {"Loading", "Requested"} =>
                call[u].n = key_state[call[u].key].n
        BY DEF Numbers
    <3>. QED  BY ONLY <1>3, <2>1, <2>2, <2>4, <3>1
  <2>6. \A u, v \in Transaction :
           Active(u)' /\ Active(v)' /\ call'[u].key = call'[v].key => call'[u].n = call'[v].n
    <3>1. \A u, v \in Transaction :
             Active(u) /\ Active(v) /\ call[u].key = call[v].key => call[u].n = call[v].n
        BY DEF Numbers
    <3>. QED  BY ONLY <2>4, <3>1
  <2>. QED  BY <2>3, <2>5, <2>6 DEF Numbers
<1>8. Unfailed'
  <2>1. ASSUME NEW j \in Key \ failed'
        PROVE  /\ channel'[j] # "Requested" /\ key_state'[j].is # "Requested"
               /\ \A u \in Transaction : ~PB!CallAt(u, j, "retry")'
    <3>1. j # k
        BY <1>1
    <3>. QED  BY SMTT(30), <1>2, <1>3, <1>4, <3>1 DEF Unfailed, PB!CallAt
  <2>2. ASSUME NEW j \in Key \ failed', NEW u \in Transaction, InFetch(u, j)'
        PROVE  InFetch(u, j)
      BY <1>1, <1>2, <2>2 DEF InFetch
  <2>. QED  BY <2>1, <2>2 DEF Unfailed
<1>9. Fresh'
    BY SMTT(30), <1>0, <1>1, <1>2, <1>3 DEF Fresh, PB!CallAt, PB!visible
<1>. QED  BY <1>0, <1>5, <1>6, <1>7, <1>8, <1>9

(* The read from storage                                                   *)
LEMMA PrefetchGetIInv ==
    ASSUME BufferIInv, NEW t \in Transaction, NEW k \in Key, PB!prefetch_get(t, k)
    PROVE  BufferIInv'
<1>. USE DEF BufferIInv, PB!prefetch_get, PB!bufferVars
<1>0. Latest' /\ \A j \in Key : Busy(j)' <=> Busy(j)
    BY LatestFrame
<1>1. call[t].at = "fetch" /\ call[t].key = k
    BY DEF PB!CallAt
<1>2. /\ call' \in [Transaction -> PB!Call]
      /\ call'[t].key = k /\ call'[t].n = call[t].n
      /\ \/ call'[t].at = "read" /\ call'[t].value = storage[k]
         \/ call'[t].at = "failed"
      /\ \A u \in Transaction \ {t} : call'[u] = call[u]
  <2>1. CASE call' = [call EXCEPT ![t].at = "read", ![t].value = storage[k]]
      BY <1>1, <2>1 DEF PB!TypeOK, PB!Call
  <2>2. CASE PB!CallGoes(t, "failed")
      BY <1>1, <2>2, CallMoves
  <2>. QED  BY <2>1, <2>2
<1>3. PB!TypeOK' /\ PB!NoPanic'
    BY <1>2 DEF PB!TypeOK, PB!NoPanic
<1>4. Requests' /\ Numbers'
  <2>1. \A u \in Transaction : Active(u)' => /\ Active(u)
                                             /\ call'[u].key = call[u].key
                                             /\ call'[u].n = call[u].n
      BY <1>1, <1>2 DEF Active
  <2>2. Requests'
      BY <2>1 DEF Requests
  <2>3. Numbers'
      BY SMTT(30), <2>1 DEF Numbers
  <2>. QED  BY <2>2, <2>3
<1>5. Unfailed'
    BY SMTT(30), <1>1, <1>2 DEF Unfailed, InFetch, PB!CallAt
<1>6. Fresh'
    BY SMTT(30), <1>0, <1>2 DEF Fresh, PB!CallAt, PB!visible
<1>. QED  BY <1>0, <1>3, <1>4, <1>5, <1>6

(* The value that was read enters the buffer, if the key still waits for   *)
(* this fetch.                                                             *)
LEMMA FetchCompleteIInv ==
    ASSUME BufferIInv, NEW t \in Transaction, NEW k \in Key, PB!fetch_complete(t, k)
    PROVE  BufferIInv'
<1>. USE DEF BufferIInv
<1>0. Latest' /\ \A j \in Key : Busy(j)' <=> Busy(j)
    BY LatestFrame DEF PB!fetch_complete
<1>1. /\ call[t].at = "read" /\ call[t].key = k
      /\ call[t].n \in Nat \ {0}
    BY SMTT(30) DEF PB!fetch_complete, PB!CallAt, Requests, Active, PB!TypeOK
<1>2. /\ call' \in [Transaction -> PB!Call]
      /\ call'[t].at = "idle"
      /\ \A u \in Transaction \ {t} : call'[u] = call[u]
    BY CallEnds DEF PB!fetch_complete
<1>. UNCHANGED <<storage, transaction_keys, fetch_sequence_number, committing, commits,
                 failed, raced, panicked>>
    BY DEF PB!fetch_complete
<1>3. CASE key_state[k] = PB!Loading(call[t].n)
  <2>1. /\ key_state[k].is = "Loading" /\ PB!Fetched # PB!Absent
        /\ key_state'[k] = PB!Fetched
        /\ \A j \in Key \ {k} : key_state'[j] = key_state[j]
        /\ key_state' \in [Key -> PB!KeyState]
      BY SMTT(30), <1>1, <1>3, StateForms DEF PB!fetch_complete, PB!TypeOK
  <2>2. /\ channel' \in [Key -> {"none", "unsent", "Fetched", "Requested"}]
        /\ channel'[k] = "Fetched"
        /\ \A j \in Key \ {k} : channel'[j] = channel[j]
      BY <1>3 DEF PB!fetch_complete, PB!TypeOK
  <2>3. /\ prefetch_store' \in [Key -> PB!Value \cup {None}]
        /\ prefetch_store'[k] = IF call[t].value # None THEN call[t].value
                                ELSE prefetch_store[k]
        /\ \A j \in Key \ {k} : prefetch_store'[j] = prefetch_store[j]
      BY <1>3 DEF PB!fetch_complete, PB!TypeOK, PB!Call
  <2>4. PB!TypeOK' /\ PB!NoPanic'
      BY <1>2, <2>1, <2>2, <2>3 DEF PB!TypeOK, PB!NoPanic
  <2>5. Requests'
      BY <1>2, <2>1 DEF Requests, Active, PB!TypeOK
  <2>6. Numbers'
    <3>1. \A j \in Key : key_state'[j].n <= fetch_sequence_number'
      <4>1. PB!Fetched.n = 0 /\ fetch_sequence_number \in Nat
          BY StateForms DEF PB!TypeOK
      <4>. QED  BY SMTT(30), <2>1, <4>1 DEF Numbers
    <3>2. \A u \in Transaction : Active(u)' => Active(u) /\ call'[u] = call[u]
                                              /\ call[u].key \in Key
        BY <1>2 DEF Active, Requests, PB!TypeOK
    <3>3. PB!Fetched.is \notin {"Loading", "Requested"}
        BY StateForms
    <3>4. \A u \in Transaction :
             Active(u)' /\ key_state'[call'[u].key].is \in {"Loading", "Requested"} =>
                call'[u].n = key_state'[call'[u].key].n
      <4>1. \A u \in Transaction :
               Active(u) /\ key_state[call[u].key].is \in {"Loading", "Requested"} =>
                  call[u].n = key_state[call[u].key].n
          BY DEF Numbers
      <4>. QED  BY ONLY <2>1, <3>2, <3>3, <4>1
    <3>5. \A u, v \in Transaction :
             Active(u)' /\ Active(v)' /\ call'[u].key = call'[v].key => call'[u].n = call'[v].n
      <4>1. \A u, v \in Transaction :
               Active(u) /\ Active(v) /\ call[u].key = call[v].key => call[u].n = call[v].n
          BY DEF Numbers
      <4>. QED  BY ONLY <3>2, <4>1
    <3>. QED  BY <3>1, <3>4, <3>5 DEF Numbers
  <2>7. Unfailed'
    <3>1. PB!Fetched.is # "Requested"
        BY StateForms
    <3>2. \A j \in Key : /\ key_state'[j].is = "Requested" => key_state[j].is = "Requested"
                         /\ channel'[j] = "Requested" => channel[j] = "Requested"
        BY <2>1, <2>2, <3>1
    <3>3. \A u \in Transaction, j \in Key :
             /\ InFetch(u, j)' => InFetch(u, j)
             /\ PB!CallAt(u, j, "retry")' => PB!CallAt(u, j, "retry")
        BY <1>2 DEF InFetch, PB!CallAt
    <3>. QED  BY <3>2, <3>3 DEF Unfailed
  <2>8. Fresh'
    <3>1. ASSUME k \notin raced, ~Busy(k)
          PROVE  /\ call[t].value = storage[k] /\ PB!visible(k) = storage[k]
                 /\ \A u \in Transaction : PB!CallAt(u, k, "read") => call[u].value = storage[k]
        BY SMTT(30), <1>0, <1>1, <2>1, <3>1, StateForms DEF Fresh, PB!CallAt
    <3>2. ASSUME k \notin raced, ~Busy(k) PROVE PB!visible(k)' = storage[k]
        BY <2>3, <3>1, <3>2 DEF PB!visible
    <3>. QED  BY SMTT(30), <1>0, <1>2, <2>1, <2>3, <3>1, <3>2 DEF Fresh, PB!CallAt, PB!visible
  <2>. QED  BY <1>0, <2>4, <2>5, <2>6, <2>7, <2>8
<1>4. CASE key_state[k] # PB!Loading(call[t].n)
  <2>. UNCHANGED <<key_state, channel, prefetch_store>>
      BY <1>4 DEF PB!fetch_complete
  <2>1. PB!TypeOK' /\ PB!NoPanic'
      BY <1>2 DEF PB!TypeOK, PB!NoPanic
  <2>2. Requests'
      BY <1>2 DEF Requests, Active
  <2>3. Numbers'
      BY SMTT(30), <1>2 DEF Numbers, Active
  <2>4. Unfailed'
      BY SMTT(30), <1>2 DEF Unfailed, InFetch, PB!CallAt
  <2>5. Fresh'
      BY ZenonT(60), <1>0, <1>2 DEF Fresh, PB!CallAt, PB!visible
  <2>. QED  BY <1>0, <2>1, <2>2, <2>3, <2>4, <2>5
<1>. QED  BY <1>3, <1>4

(* A failed fetch tells those who wait, if the key still waits for it.     *)
LEMMA FetchFailedIInv ==
    ASSUME BufferIInv, NEW t \in Transaction, NEW k \in Key, PB!fetch_failed(t, k)
    PROVE  BufferIInv'
<1> DEFINE n == call[t].n
<1>. USE DEF BufferIInv
<1>0. Latest' /\ \A j \in Key : Busy(j)' <=> Busy(j)
    BY LatestFrame DEF PB!fetch_failed
<1>1. /\ call[t].at = "failed" /\ call[t].key = k
      /\ n \in Nat \ {0}
    BY SMTT(30) DEF PB!fetch_failed, PB!CallAt, Requests, Active, PB!TypeOK
<1>2. /\ call' \in [Transaction -> PB!Call]
      /\ call'[t].at = "idle"
      /\ \A u \in Transaction \ {t} : call'[u] = call[u]
    BY CallEnds DEF PB!fetch_failed
<1>3. /\ key_state' \in [Key -> PB!KeyState]
      /\ \A j \in Key : key_state'[j].n = key_state[j].n
      /\ \A j \in Key : key_state[j] # PB!Absent => key_state'[j] # PB!Absent
      /\ \A j \in Key : key_state'[j].is \in {"Loading", "Requested"} =>
                           key_state[j].is \in {"Loading", "Requested"}
      /\ \A j \in Key \ {k} : key_state'[j] = key_state[j]
  <2>1. CASE key_state[k] = PB!Loading(n)
      BY SMTT(30), <1>1, <2>1, StateForms DEF PB!fetch_failed, PB!TypeOK
  <2>2. CASE key_state[k] # PB!Loading(n)
      BY <2>2 DEF PB!fetch_failed, PB!TypeOK
  <2>. QED  BY <2>1, <2>2
<1>4. /\ channel' \in [Key -> {"none", "unsent", "Fetched", "Requested"}]
      /\ \A j \in Key \ {k} : channel'[j] = channel[j]
    BY DEF PB!fetch_failed, PB!TypeOK
<1>. /\ failed' = failed \cup {k}
     /\ UNCHANGED <<storage, prefetch_store, transaction_keys, fetch_sequence_number,
                    committing, commits, raced, panicked>>
    BY DEF PB!fetch_failed
<1>5. PB!TypeOK' /\ PB!NoPanic'
    BY <1>2, <1>3, <1>4 DEF PB!TypeOK, PB!NoPanic
<1>6. Requests'
    BY <1>2, <1>3 DEF Requests, Active, PB!TypeOK
<1>7. Numbers'
  <2>1. \A u \in Transaction : Active(u) => call[u].key \in Key
      BY DEF Requests, PB!TypeOK
  <2>2. \A u \in Transaction : Active(u)' => Active(u) /\ call'[u] = call[u]
      BY <1>2 DEF Active
  <2>. QED  BY SMTT(30), <1>3, <2>1, <2>2 DEF Numbers
<1>8. Unfailed'
  <2>1. ASSUME NEW j \in Key \ failed'
        PROVE  /\ channel'[j] # "Requested" /\ key_state'[j].is # "Requested"
               /\ \A u \in Transaction : ~PB!CallAt(u, j, "retry")'
      BY SMTT(30), <1>2, <1>3, <1>4 DEF Unfailed, PB!CallAt
  <2>2. ASSUME NEW j \in Key \ failed', NEW u \in Transaction, InFetch(u, j)'
        PROVE  InFetch(u, j)
      BY <1>2, <2>2 DEF InFetch
  <2>. QED  BY <2>1, <2>2 DEF Unfailed
<1>9. Fresh'
  <2>1. ASSUME k \notin failed, NEW u \in Transaction PROVE ~PB!CallAt(u, k, "read")
      BY <1>1, <2>1 DEF Unfailed, InFetch, PB!CallAt
  <2>2. ASSUME NEW j \in Key \ raced, ~Busy(j)
        PROVE  /\ PB!visible(j)' = storage[j]
               /\ \A u \in Transaction : PB!CallAt(u, j, "read")' =>
                     \/ call'[u].value = storage[j]
                     \/ key_state'[j] = PB!Fetched /\ j \notin failed'
    <3>1. PB!visible(j)' = storage[j]
        BY <1>0, <2>2 DEF Fresh, PB!visible
    <3>2. ASSUME NEW u \in Transaction, PB!CallAt(u, j, "read")'
          PROVE  /\ PB!CallAt(u, j, "read") /\ call'[u] = call[u]
        BY <1>2, <3>2 DEF PB!CallAt
    <3>. QED  BY <1>0, <1>3, <2>1, <2>2, <3>1, <3>2 DEF Fresh
  <2>. QED  BY <1>0, <2>2 DEF Fresh
<1>. QED  BY <1>0, <1>5, <1>6, <1>7, <1>8, <1>9

(* The end of a transaction evicts the keys nobody else has requested.     *)
LEMMA TransactionCompleteIInv ==
    ASSUME BufferIInv, NEW t \in Transaction, PB!process_transaction_complete(t)
    PROVE  BufferIInv'
<1>. USE DEF BufferIInv
<1>0. Latest' /\ \A j \in Key : Busy(j)' <=> Busy(j)
    BY LatestFrame DEF PB!process_transaction_complete
<1>1. /\ call' \in [Transaction -> PB!Call]
      /\ call'[t].at = "over"
      /\ \A u \in Transaction \ {t} : call'[u] = call[u]
    BY CallMoves DEF PB!process_transaction_complete
<1>2. /\ transaction_keys' \in [Transaction -> SUBSET Key]
      /\ transaction_keys'[t] = {}
      /\ \A u \in Transaction \ {t} : transaction_keys'[u] = transaction_keys[u]
    BY DEF PB!process_transaction_complete, PB!TypeOK
<1>3. /\ key_state' \in [Key -> PB!KeyState]
      /\ \A j \in Key \ PB!evicted(t) : key_state'[j] = key_state[j]
      /\ \A j \in PB!evicted(t) \cap Key : key_state'[j] = PB!Absent
    BY StateForms DEF PB!process_transaction_complete, PB!TypeOK
<1>4. /\ prefetch_store' \in [Key -> PB!Value \cup {None}]
      /\ \A j \in Key \ PB!evicted(t) : prefetch_store'[j] = prefetch_store[j]
      /\ \A j \in PB!evicted(t) \cap Key : prefetch_store'[j] = None
    BY DEF PB!process_transaction_complete, PB!TypeOK
<1>. UNCHANGED <<storage, channel, fetch_sequence_number, committing, commits, failed,
                 raced, panicked>>
    BY DEF PB!process_transaction_complete
<1>5. \A u \in Transaction \ {t} : \A j \in transaction_keys[u] : j \in Key \ PB!evicted(t)
    BY DEF PB!evicted, PB!TypeOK
<1>6. \A u \in Transaction \ {t} : Active(u) => call[u].key \in Key \ PB!evicted(t)
    BY <1>5 DEF Requests
<1>7. PB!TypeOK' /\ PB!NoPanic'
    BY <1>1, <1>2, <1>3, <1>4 DEF PB!TypeOK, PB!NoPanic
<1>8. Requests'
    BY <1>1, <1>2, <1>3, <1>5 DEF Requests, Active
<1>9. Numbers'
  <2>1. \A j \in Key : key_state'[j].n <= fetch_sequence_number
    <3>1. PB!Absent.n = 0 /\ fetch_sequence_number \in Nat
        BY StateForms DEF PB!TypeOK
    <3>. QED  BY SMTT(30), <1>3, <3>1 DEF Numbers
  <2>2. \A u \in Transaction : Active(u)' => /\ Active(u) /\ call'[u] = call[u]
                                             /\ call[u].key \in Key \ PB!evicted(t)
      BY <1>1, <1>6 DEF Active
  <2>3. \A u \in Transaction : Active(u)' => key_state'[call'[u].key] = key_state[call[u].key]
      BY <1>3, <2>2
  <2>. QED  BY SMTT(30), <2>1, <2>2, <2>3 DEF Numbers
<1>10. Unfailed'
  <2>1. PB!Absent.is # "Requested"
      BY StateForms
  <2>2. \A j \in Key : key_state'[j].is = "Requested" => key_state[j].is = "Requested"
      BY <1>3, <2>1
  <2>. QED  BY SMTT(30), <1>1, <2>2 DEF Unfailed, InFetch, PB!CallAt
<1>11. Fresh'
  <2>1. \A j \in Key \ raced : ~Busy(j) => PB!visible(j)' = storage[j]
      BY <1>0, <1>4 DEF Fresh, PB!visible
  <2>2. ASSUME NEW u \in Transaction, NEW j \in Key, PB!CallAt(u, j, "read")'
        PROVE  /\ PB!CallAt(u, j, "read") /\ call'[u] = call[u]
               /\ key_state'[j] = key_state[j]
      BY <1>1, <1>3, <1>6, <2>2 DEF PB!CallAt, Active
  <2>. QED  BY ZenonT(60), <1>0, <2>1, <2>2 DEF Fresh
<1>. QED  BY <1>0, <1>7, <1>8, <1>9, <1>10, <1>11

(* A step that touches neither calls nor states of keys.                   *)
LEMMA CallsFrame ==
    ASSUME Requests, Numbers,
           UNCHANGED <<key_state, transaction_keys, fetch_sequence_number, call>>
    PROVE  Requests' /\ Numbers'
<1>1. Requests'
    BY DEF Requests, Active
<1>2. \A k \in Key : key_state'[k].n <= fetch_sequence_number'
    BY DEF Numbers
<1>3. \A t \in Transaction :
         Active(t)' /\ key_state'[call'[t].key].is \in {"Loading", "Requested"} =>
            call'[t].n = key_state'[call'[t].key].n
    BY DEF Numbers, Active
<1>4. \A t, u \in Transaction :
         Active(t)' /\ Active(u)' /\ call'[t].key = call'[u].key => call'[t].n = call'[u].n
    BY DEF Numbers, Active
<1>. QED  BY <1>1, <1>2, <1>3, <1>4 DEF Numbers

(* A commit reaches storage: for its key nothing is claimed until upsert   *)
(* or delete has told the buffer.                                          *)
LEMMA BatchUpsertIInv ==
    ASSUME PB!BoundAssumption,
           BufferIInv, NEW k \in Key, NEW isPut \in BOOLEAN, PB!batch_upsert(k, isPut)
    PROVE  BufferIInv'
<1> DEFINE n == commits + 1
           value == IF isPut THEN n ELSE None
           c == [n |-> n, key |-> k, value |-> value]
<1>. USE DEF BufferIInv
<1>. /\ commits' = n /\ storage' = [storage EXCEPT ![k] = value]
     /\ committing' = committing \cup {c}
     /\ UNCHANGED <<PB!bufferVars, call, failed, raced, panicked>>
    BY DEF PB!batch_upsert
<1>1. n \in 1..MaxCommits /\ n \in 0..MaxCommits /\ commits < n /\ commits \in Nat
    BY SMTT(30) DEF PB!BoundAssumption, PB!batch_upsert, PB!TypeOK
<1>2. value \in PB!Value \cup {None}
    BY <1>1 DEF PB!Value
<1>3. c \in PB!Change /\ c.n = n /\ c.key = k /\ c.value = value
    BY <1>1, <1>2 DEF PB!Change
<1>. HIDE DEF n, value, c
<1>4. /\ storage' \in [Key -> PB!Value \cup {None}]
      /\ storage'[k] = value
      /\ \A j \in Key \ {k} : storage'[j] = storage[j]
    BY <1>2 DEF PB!TypeOK
<1>. USE DEF PB!bufferVars
<1>5. PB!TypeOK' /\ PB!NoPanic'
    BY <1>1, <1>3, <1>4 DEF PB!TypeOK, PB!NoPanic
<1>6. Requests' /\ Numbers'
    BY CallsFrame
<1>7. Unfailed'
    BY ZenonT(60) DEF Unfailed, InFetch, PB!CallAt
<1>8. Busy(k)' /\ \A j \in Key \ {k} : Busy(j)' <=> Busy(j)
    BY <1>3 DEF Busy
<1>9. Latest'
  <2>1. ASSUME NEW d \in committing PROVE d.n < c.n /\ d.n <= n
    <3>1. d.n \in Nat /\ d.n <= commits
        BY SMTT(30) DEF Latest, PB!TypeOK, PB!Change
    <3>. QED  BY SMTT(30), <1>1, <1>3, <3>1
  <2>2. \A d \in committing' : d.n <= commits'
    <3>1. c.n <= n
        BY SMTT(30), <1>1, <1>3
    <3>. QED  BY <2>1, <3>1
  <2>3. ASSUME NEW j \in Key \ raced, j # k, Busy(j)
        PROVE  \E d \in committing' : /\ d.key = j /\ d.value = storage'[j]
                                      /\ \A e \in committing' \ {d} : e.key = j => e.n < d.n
    <3>1. PICK d \in committing : /\ d.key = j /\ d.value = storage[j]
                                  /\ \A e \in committing \ {d} : e.key = j => e.n < d.n
        BY <2>3 DEF Latest
    <3>. QED  BY <1>3, <1>4, <2>3, <3>1
  <2>4. \E d \in committing' : /\ d.key = k /\ d.value = storage'[k]
                               /\ \A e \in committing' \ {d} : e.key = k => e.n < d.n
      BY <1>3, <1>4, <2>1
  <2>5. ASSUME NEW j \in Key \ raced, Busy(j)'
        PROVE  \E d \in committing' : /\ d.key = j /\ d.value = storage'[j]
                                      /\ \A e \in committing' \ {d} : e.key = j => e.n < d.n
    <3>1. CASE j = k
        BY <2>4, <3>1
    <3>2. CASE j # k
        BY <1>8, <2>3, <2>5, <3>2
    <3>. QED  BY <3>1, <3>2
  <2>. QED  BY <2>2, <2>5 DEF Latest
<1>10. Fresh'
    BY <1>4, <1>8 DEF Fresh, PB!CallAt, PB!visible
<1>. QED  BY <1>5, <1>6, <1>7, <1>9, <1>10

(* A commit leaves: unless it passes an older one, another of the same key *)
(* remains that is newer, or it was the last.                              *)
LEMMA ChangeLeaves ==
    ASSUME PB!TypeOK, Latest, NEW c \in committing, committing' = committing \ {c},
           raced \subseteq raced', UNCHANGED <<storage, commits>>,
           c.key \in raced' \/ ~PB!OutOfOrder(c)
    PROVE  /\ c.key \in Key
           /\ Latest'
           /\ \A k \in Key \ {c.key} : Busy(k)' <=> Busy(k)
           /\ c.key \notin raced' /\ ~Busy(c.key)' => c.value = storage[c.key]
<1>1. c.key \in Key /\ \A d \in committing : d.n \in Nat
    BY SMTT(30) DEF PB!TypeOK, PB!Change
<1>2. \A k \in Key \ {c.key} : Busy(k)' <=> Busy(k)
    BY DEF Busy
<1>3. ASSUME NEW k \in Key \ raced', Busy(k)'
      PROVE  \E d \in committing' : /\ d.key = k /\ d.value = storage'[k]
                                    /\ \A e \in committing' \ {d} : e.key = k => e.n < d.n
  <2>1. PICK d \in committing : /\ d.key = k /\ d.value = storage[k]
                                /\ \A e \in committing \ {d} : e.key = k => e.n < d.n
      BY <1>3 DEF Latest, Busy
  <2>2. d # c
    <3>. SUFFICES ASSUME d = c PROVE FALSE
        OBVIOUS
    <3>1. PICK e \in committing \ {c} : e.key = k
        BY <1>3 DEF Busy
    <3>2. e.n < c.n
        BY <2>1, <3>1
    <3>. QED  BY <1>3, <2>1, <3>1, <3>2 DEF PB!OutOfOrder
  <2>. QED  BY <2>1, <2>2
<1>4. ASSUME c.key \notin raced', ~Busy(c.key)' PROVE c.value = storage[c.key]
  <2>1. PICK d \in committing : d.key = c.key /\ d.value = storage[c.key]
      BY <1>1, <1>4 DEF Latest, Busy
  <2>2. d = c
      BY <1>4, <2>1 DEF Busy
  <2>. QED  BY <2>1, <2>2
<1>5. Latest'
    BY <1>3 DEF Latest
<1>. QED  BY <1>1, <1>2, <1>4, <1>5

(* The buffer takes the put, and counts it as raced if a fetch holds an    *)
(* older value.                                                            *)
LEMMA UpsertIInv ==
    ASSUME BufferIInv, NEW c \in committing, PB!upsert(c)
    PROVE  BufferIInv'
<1> DEFINE k == c.key
<1>. USE DEF BufferIInv
<1>1. /\ raced \subseteq raced'
      /\ k \in raced' \/ (~PB!Overtaken(k) /\ ~PB!OutOfOrder(c))
      /\ committing' = committing \ {c}
      /\ raced' \subseteq raced \cup {k}
    BY DEF PB!upsert
<1>. UNCHANGED <<storage, key_state, transaction_keys, channel, fetch_sequence_number,
                 call, commits, failed, panicked>>
    BY DEF PB!upsert
<1>2. /\ k \in Key
      /\ Latest'
      /\ \A j \in Key \ {k} : Busy(j)' <=> Busy(j)
      /\ k \notin raced' /\ ~Busy(k)' => c.value = storage[k]
    BY <1>1, ChangeLeaves
<1>3. c \in PB!Change /\ c.value # None /\ c.value \in PB!Value \cup {None}
    BY DEF PB!upsert, PB!TypeOK, PB!Change
<1>4. /\ prefetch_store' \in [Key -> PB!Value \cup {None}]
      /\ prefetch_store'[k] = c.value
      /\ \A j \in Key \ {k} : prefetch_store'[j] = prefetch_store[j]
    BY <1>2, <1>3 DEF PB!upsert, PB!TypeOK
<1>. HIDE DEF k
<1>5. PB!TypeOK' /\ PB!NoPanic'
    BY <1>1, <1>2, <1>4 DEF PB!TypeOK, PB!NoPanic
<1>6. Requests' /\ Numbers'
    BY CallsFrame
<1>7. Unfailed'
    BY SMTT(30) DEF Unfailed, InFetch, PB!CallAt
<1>8. Fresh'
  <2>1. ASSUME k \notin raced', ~Busy(k)'
        PROVE  /\ PB!visible(k)' = storage[k]
               /\ \A t \in Transaction : PB!CallAt(t, k, "read") => call[t].value = storage[k]
      BY <1>1, <1>2, <1>3, <1>4, <2>1 DEF PB!visible, PB!Overtaken
  <2>2. ASSUME NEW j \in Key \ raced', j # k, ~Busy(j)'
        PROVE  /\ PB!visible(j)' = storage[j]
               /\ \A t \in Transaction : PB!CallAt(t, j, "read") =>
                     call[t].value = storage[j] \/ (key_state[j] = PB!Fetched /\ j \notin failed)
      BY <1>1, <1>2, <1>4, <2>2 DEF Fresh, PB!visible
  <2>. QED  BY <2>1, <2>2 DEF Fresh, PB!CallAt
<1>. QED  BY <1>2, <1>5, <1>6, <1>7, <1>8

(* The buffer forgets the deleted value; a fetch that still runs will find *)
(* the key fetched and be ignored.                                         *)
LEMMA DeleteIInv ==
    ASSUME BufferIInv, NEW c \in committing, PB!delete(c)
    PROVE  BufferIInv'
<1> DEFINE k == c.key
<1>. USE DEF BufferIInv
<1>0. /\ k \in Key /\ c.value = None
      /\ committing' = committing \ {c} /\ raced' \subseteq raced \cup {k}
    BY DEF PB!delete, PB!TypeOK, PB!Change
<1>2. /\ prefetch_store' \in [Key -> PB!Value \cup {None}]
      /\ key_state[k] # PB!Absent => prefetch_store'[k] = None
      /\ \A j \in Key \ {k} : prefetch_store'[j] = prefetch_store[j]
    BY <1>0 DEF PB!delete, PB!TypeOK
<1>3. /\ key_state' \in [Key -> PB!KeyState]
      /\ key_state'[k] = IF key_state[k].is = "Loading" THEN PB!Fetched ELSE key_state[k]
      /\ \A j \in Key \ {k} : key_state'[j] = key_state[j]
    BY SMTT(30), <1>0, StateForms DEF PB!delete, PB!TypeOK
<1>4. /\ channel' \in [Key -> {"none", "unsent", "Fetched", "Requested"}]
      /\ channel'[k] = "Requested" => channel[k] = "Requested"
      /\ \A j \in Key \ {k} : channel'[j] = channel[j]
    BY <1>0 DEF PB!delete, PB!TypeOK
<1>5. /\ raced \subseteq raced'
      /\ \/ k \in raced'
         \/ /\ key_state[k] # PB!Absent /\ ~PB!OutOfOrder(c)
            /\ k \in failed => ~PB!Overtaken(k)
    BY DEF PB!delete
<1>. UNCHANGED <<storage, transaction_keys, fetch_sequence_number, call, commits, failed,
                 panicked>>
    BY DEF PB!delete
<1>1. /\ Latest'
      /\ \A j \in Key \ {k} : Busy(j)' <=> Busy(j)
      /\ k \notin raced' /\ ~Busy(k)' => storage[k] = None
    BY <1>0, <1>5, ChangeLeaves
<1>. HIDE DEF k
<1>6. PB!TypeOK' /\ PB!NoPanic'
    BY <1>0, <1>2, <1>3, <1>4, <1>5 DEF PB!TypeOK, PB!NoPanic
<1>7. Requests'
  <2>1. PB!Fetched # PB!Absent
      BY StateForms
  <2>. QED  BY <1>0, <1>3, <2>1 DEF Requests, Active, PB!TypeOK
<1>8. Numbers'
  <2>1. \A j \in Key : key_state'[j].n <= fetch_sequence_number
    <3>1. PB!Fetched.n = 0 /\ fetch_sequence_number \in Nat
        BY StateForms DEF PB!TypeOK
    <3>. QED  BY SMTT(30), <1>3, <3>1 DEF Numbers
  <2>2. \A u \in Transaction : Active(u) => call[u].key \in Key
      BY DEF Requests, PB!TypeOK
  <2>3. \A j \in Key : key_state'[j].is \in {"Loading", "Requested"} => key_state'[j] = key_state[j]
      BY ZenonT(60), <1>3, StateForms
  <2>. QED  BY <2>1, <2>2, <2>3 DEF Numbers, Active
<1>9. Unfailed'
  <2>1. \A j \in Key : key_state'[j].is = "Requested" => key_state[j].is = "Requested"
      BY <1>3, StateForms
  <2>. QED  BY SMTT(30), <1>4, <2>1 DEF Unfailed, InFetch, PB!CallAt
<1>10. Fresh'
  <2>1. ASSUME k \notin raced', ~Busy(k)' PROVE PB!visible(k)' = storage[k]
      BY <1>1, <1>2, <1>5, <2>1 DEF PB!visible
  <2>2. ASSUME k \notin raced', NEW u \in Transaction, PB!CallAt(u, k, "read"),
               call[u].value # storage[k]
        PROVE  key_state'[k] = PB!Fetched /\ k \notin failed
    <3>1. k \notin failed /\ key_state[k] # PB!Absent
        BY <1>5, <2>2 DEF PB!Overtaken
    <3>2. key_state[k].is # "Requested"
        BY <1>0, <3>1 DEF Unfailed
    <3>. QED  BY <1>0, <1>3, <3>1, <3>2, StateForms DEF PB!TypeOK
  <2>3. ASSUME NEW j \in Key \ raced', j # k, ~Busy(j)'
        PROVE  /\ PB!visible(j)' = storage[j]
               /\ \A u \in Transaction : PB!CallAt(u, j, "read") =>
                     call[u].value = storage[j] \/ (key_state'[j] = PB!Fetched /\ j \notin failed)
      BY <1>1, <1>2, <1>3, <1>5, <2>3 DEF Fresh, PB!visible
  <2>. QED  BY <2>1, <2>2, <2>3 DEF Fresh, PB!CallAt
<1>. QED  BY <1>1, <1>6, <1>7, <1>8, <1>9, <1>10

---------------------------------------------------------------------------
(* Theorems                                                                *)

(* The inductive invariant holds in every reachable state.                 *)
THEOREM BufferInvariance ==
    ASSUME PB!BoundAssumption
    PROVE  PB!Spec => []BufferIInv
<1>1. BufferIInv /\ [PB!Next]_PB!vars => BufferIInv'
  <2>. SUFFICES ASSUME BufferIInv, [PB!Next]_PB!vars PROVE BufferIInv'
      OBVIOUS
  <2>1. ASSUME NEW t \in Transaction, NEW k \in Key,
               PB!requestFetched(t, k) \/ PB!requestLoading(t, k) \/ PB!requestNew(t, k)
        PROVE  BufferIInv'
      BY <2>1, RequestFetchedIInv, RequestLoadingIInv, RequestNewIInv
  <2>2. ASSUME NEW t \in Transaction, NEW k \in Key, PB!prefetchStep(t, k)
        PROVE  BufferIInv'
      BY <2>2, WakeIInv, RetryIInv, PrefetchGetIInv, FetchCompleteIInv, FetchFailedIInv
         DEF PB!prefetchStep
  <2>3. CASE \E t \in Transaction : PB!process_transaction_complete(t)
      BY <2>3, TransactionCompleteIInv
  <2>4. CASE \E k \in Key, isPut \in BOOLEAN : PB!batch_upsert(k, isPut)
      BY <2>4, BatchUpsertIInv
  <2>5. CASE \E c \in committing : PB!upsert(c) \/ PB!delete(c)
      BY <2>5, UpsertIInv, DeleteIInv
  <2>6. CASE UNCHANGED PB!vars
    <3>. USE <2>6 DEF BufferIInv, PB!vars, PB!bufferVars
    <3>1. PB!TypeOK' /\ PB!NoPanic'
        BY DEF PB!TypeOK, PB!NoPanic
    <3>2. Requests' /\ Numbers'
        BY CallsFrame
    <3>3. Unfailed'
        BY SMTT(30) DEF Unfailed, InFetch, PB!CallAt
    <3>4. Latest' /\ \A k \in Key : Busy(k)' <=> Busy(k)
        BY LatestFrame
    <3>5. Fresh'
        BY <3>4 DEF Fresh, PB!CallAt, PB!visible
    <3>. QED  BY <3>1, <3>2, <3>3, <3>4, <3>5
  <2>. QED  BY <2>1, <2>2, <2>3, <2>4, <2>5, <2>6 DEF PB!Next, PB!Done
<1>. QED  BY BufferInitIInv, <1>1, PTL DEF PB!Spec

(* Type correctness of the buffer, its calls and its numbers.              *)
THEOREM BufferTypeCorrect ==
    ASSUME PB!BoundAssumption
    PROVE  PB!Spec => []PB!TypeOK
BY BufferInvariance, PTL DEF BufferIInv

(* change_keystate_to_loading never finds its key gone.                    *)
THEOREM NeverPanics ==
    ASSUME PB!BoundAssumption
    PROVE  PB!Spec => []PB!NoPanic
BY BufferInvariance, PTL DEF BufferIInv

(* As long as no fetch of a key has failed, one transaction fetches it.    *)
THEOREM FetchIsSingle ==
    ASSUME PB!BoundAssumption
    PROVE  PB!Spec => []PB!OneFetchPerKey
<1>1. BufferIInv => PB!OneFetchPerKey
    BY DEF BufferIInv, Unfailed, PB!OneFetchPerKey, PB!Fetching, InFetch
<1>. QED  BY BufferInvariance, <1>1, PTL

(* get returns what is committed, except for a key changed in one of the   *)
(* ways the buffer does not notice: commits out of order, a put or a       *)
(* delete that overtook a fetch, a delete of a key nobody had requested.   *)
THEOREM ReadsAreFresh ==
    ASSUME PB!BoundAssumption
    PROVE  PB!Spec => []PB!FreshUnlessRaced
<1>1. BufferIInv => PB!FreshUnlessRaced
    BY DEF BufferIInv, Fresh, Busy, PB!FreshUnlessRaced
<1>. QED  BY BufferInvariance, <1>1, PTL
=============================================================================
