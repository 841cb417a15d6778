--------------------------- MODULE ResolverProofs ---------------------------
(***************************************************************************)
(* Proofs about Resolver, with the group commits it starts, for any finite *)
(* set of transactions and of ranges and any workload: no assertion fails  *)
(* and no count goes below zero, a range applies a transaction at most     *)
(* once, a transaction that is done has been applied everywhere, and the   *)
(* only dependency of a transaction is applied before it.  The invariant   *)
(* follows a ready transaction through the places it can be in at a range  *)
(* (an add that is under way, the group, a batch of a cycle, applied) and  *)
(* counts how often it has yet to come back.                               *)
(***************************************************************************)
EXTENDS Resolver, FiniteSetTheorems, WellFoundedInduction, TLAPS

USE Zenon

Batch == [range : ParticipantRange, txs : Seq(Transaction), at : {"record", "apply", "return"}]

Cycle == [of : Transaction, at : {"spawned", "run", "count", "notify"},
          take : SUBSET ParticipantRange, batches : SUBSET Batch, finished : Seq(Transaction)]

Typed ==
    /\ depends \in [Transaction -> SUBSET Transaction]
    /\ writes \in [Transaction -> SUBSET ParticipantRange]
    /\ adding \in AddCall \cup {None}
    /\ group_per_participant \in [ParticipantRange -> Seq(Transaction)]
    /\ num_pending_participant_commits \in [Transaction -> Nat]
    /\ non_empty_groups \subseteq ParticipantRange
    /\ returned_transactions \in Seq(Transaction)
    /\ cycles \subseteq Cycle
    /\ committed \subseteq Transaction
    /\ applied \in [ParticipantRange -> Seq(Transaction)]
    /\ num_dependencies \in [Transaction -> Nat]
    /\ dependents \in [Transaction -> SUBSET Transaction]
    /\ resolved_transactions \subseteq Transaction
    /\ waiting_transactions \subseteq Transaction
    /\ registering \subseteq Seq(Transaction)
    /\ coordinator \in [Transaction -> {"prepared", "committing", "waiting", "gone", "done"}]

(* The resolver has the transaction; it has made it ready.                 *)
Submitted(tx) ==
    /\ tx \in Transaction
    /\ depends[tx] # {} /\ writes[tx] # {} /\ coordinator[tx] \in {"waiting", "gone", "done"}
Ready(tx) == Submitted(tx) /\ num_dependencies[tx] = 0

AppliedAt(tx, r) == tx \in Range(applied[r])
AppliedEverywhere(tx) == \A r \in writes[tx] : AppliedAt(tx, r)

Coordinators ==
    \A tx \in Transaction :
       /\ coordinator[tx] = "committing" => depends[tx] = {} /\ tx \in committed
       /\ coordinator[tx] \in {"waiting", "gone"} => depends[tx] # {} /\ writes[tx] # {}

(* A count of the dependencies that have the transaction as a dependent    *)
Holders(tx) == {d \in Transaction : tx \in dependents[d]}

Counted ==
    \A tx \in Transaction :
       /\ num_dependencies[tx] = Cardinality(Holders(tx))
       /\ Holders(tx) \subseteq depends[tx]
       /\ Holders(tx) # {} => Submitted(tx)

(* The cycles in progress: their names, the batches they hold, what they   *)
(* have collected to count and what they have found finished               *)
HeldBy(c) == {c.of} \X c.batches
CollectedBy(c) == IF c.at = "count" THEN {<<c.of, c.finished>>} ELSE {}
FinishingBy(c) == IF c.at = "notify" THEN {<<c.of, c.finished>>} ELSE {}

Names == {c.of : c \in cycles}
Held == UNION {HeldBy(c) : c \in cycles}
Collected == UNION {CollectedBy(c) : c \in cycles}
Finishing == UNION {FinishingBy(c) : c \in cycles}

CyclesOK ==
    /\ \A c \in cycles : c.at \in {"count", "notify"} => c.batches = {}
    /\ \A c, d \in cycles : c.of = d.of => c = d

(* Where a ready transaction may be                                        *)
InGroup(tx, r) == tx \in Range(group_per_participant[r])
InBatch(tx, r) == \E p \in Held : p[2].range = r /\ tx \in Range(p[2].txs)

AllReady(s) == \A tx \in Range(s) : Ready(tx)

AddingOK ==
    adding # None =>
       /\ adding.txs # << >> /\ IsInjective(adding.txs) /\ AllReady(adding.txs)
       /\ Names \cap Range(adding.txs) = {}
       /\ \A r \in adding.extend : \A tx \in Range(adding.txs) : r \in writes[tx] =>
             ~InGroup(tx, r) /\ ~InBatch(tx, r) /\ ~AppliedAt(tx, r)

GroupsOK ==
    \A r \in ParticipantRange :
       /\ IsInjective(group_per_participant[r]) /\ AllReady(group_per_participant[r])
       /\ \A tx \in Range(group_per_participant[r]) :
             r \in writes[tx] /\ ~InBatch(tx, r) /\ ~AppliedAt(tx, r)

BatchOK(b) ==
    /\ IsInjective(b.txs) /\ AllReady(b.txs)
    /\ \A tx \in Range(b.txs) :
          /\ b.range \in writes[tx]
          /\ AppliedAt(tx, b.range) <=> b.at = "return"
          /\ b.at # "record" => tx \in committed

HeldOK ==
    /\ \A p \in Held : BatchOK(p[2])
    /\ \A p, q \in Held :
          p[2].range = q[2].range /\ Range(p[2].txs) \cap Range(q[2].txs) # {} => p = q

AppliedOK ==
    \A r \in ParticipantRange :
       /\ IsInjective(applied[r])
       /\ \A tx \in Range(applied[r]) :
             tx \in committed /\ r \in writes[tx] /\ (depends[tx] = {} \/ Ready(tx))

(* Ranges a transaction has not come back from, and how often it has come  *)
(* back and been collected                                                 *)
Open(tx) == {r \in writes[tx] : ~AppliedAt(tx, r) \/ InBatch(tx, r)}

Times(tx, s) == {i \in 1..Len(s) : s[i] = tx}
Counting(tx) == UNION {{p[1]} \X Times(tx, p[2]) : p \in Collected}

CountOK(tx) ==
    /\ IsFiniteSet(Counting(tx))
    /\ IF Ready(tx)
       THEN num_pending_participant_commits[tx] =
               Cardinality(Open(tx)) + timesIn(tx, returned_transactions)
                  + Cardinality(Counting(tx))
       ELSE num_pending_participant_commits[tx] = 0

CountsOK ==
    /\ \A tx \in Names : Ready(tx)
    /\ AllReady(returned_transactions)
    /\ \A p \in Collected \cup Finishing : AllReady(p[2])
    /\ \A tx \in Transaction : CountOK(tx)

FinishedOK ==
    /\ \A p \in Finishing :
          /\ IsInjective(p[2])
          /\ \A tx \in Range(p[2]) : num_pending_participant_commits[tx] = 0
    /\ \A p, q \in Finishing : Range(p[2]) \cap Range(q[2]) # {} => p = q

HasSender ==
    \A tx \in Transaction :
       \/ num_dependencies[tx] > 0
       \/ num_pending_participant_commits[tx] > 0
       \/ \E p \in Finishing : tx \in Range(p[2])
       => tx \in waiting_transactions

RegisteredOK ==
    /\ \A ids \in registering : \A tx \in Range(ids) : AppliedEverywhere(tx)
    /\ \A tx \in resolved_transactions : AppliedEverywhere(tx)

(* The only dependency of a transaction comes before it in a queue, or has *)
(* been applied already.                                                   *)
Queued(s, r) ==
    \A i \in DOMAIN s : \A d \in Transaction :
       depends[s[i]] = {d} /\ r \in writes[d] =>
          AppliedAt(d, r) \/ \E j \in 1..(i - 1) : s[j] = d

InOrder ==
    /\ adding # None => \A r \in adding.extend : Queued(adding.txs, r)
    /\ \A r \in ParticipantRange : Queued(group_per_participant[r], r)
    /\ \A p \in Held : Queued(p[2].txs, p[2].range)
    /\ SoleDependencyFirst

IInv ==
    /\ Typed /\ Coordinators /\ Counted /\ AddingOK /\ GroupsOK /\ CyclesOK /\ HeldOK
    /\ AppliedOK /\ CountsOK /\ FinishedOK /\ HasSender /\ RegisteredOK /\ InOrder
    /\ DoneMeansApplied /\ ~panicked

---------------------------------------------------------------------------
(* Sequences *)

(* A set of numbers has a least member: the form of every induction here.  *)
LEMMA Least ==
    ASSUME NEW S \in SUBSET Nat, S # {}
    PROVE  \E i \in S : \A j \in S : i <= j
<1>1. PICK i \in S : \A j \in S : ~(<<j, i>> \in OpToRel(<, Nat))
    BY NatLessThanWellFounded, WFMin
<1>2. \A j \in S : ~(j < i)
    BY <1>1 DEF OpToRel
<1>. QED  BY SMTT(30), <1>2

(* What is in a sequence                                                   *)
LEMMA SeqFacts ==
    ASSUME NEW S, NEW s \in Seq(S)
    PROVE  /\ Len(s) \in Nat /\ DOMAIN s = 1..Len(s)
           /\ \A i \in DOMAIN s : s[i] \in S /\ s[i] \in Range(s)
           /\ Range(s) \subseteq S
           /\ \A x \in Range(s) : \E i \in DOMAIN s : s[i] = x
<1>1. Len(s) \in Nat /\ DOMAIN s = 1..Len(s) /\ \A i \in DOMAIN s : s[i] \in S
    BY SMTT(30)
<1>2. \A i \in DOMAIN s : s[i] \in Range(s)
    BY Zenon DEF Range
<1>3. \A x \in Range(s) : \E i \in DOMAIN s : s[i] = x
    BY Zenon DEF Range
<1>4. Range(s) \subseteq S
    BY <1>1, <1>3
<1>. QED  BY <1>1, <1>2, <1>3, <1>4

(* The positions of a concatenation                                        *)
LEMMA ConcatFacts ==
    ASSUME NEW S, NEW s \in Seq(S), NEW t \in Seq(S)
    PROVE  /\ s \o t \in Seq(S)
           /\ Len(s \o t) = Len(s) + Len(t)
           /\ \A i \in 1..Len(s) : i \in DOMAIN (s \o t) /\ (s \o t)[i] = s[i]
           /\ \A j \in 1..Len(t) : Len(s) + j \in DOMAIN (s \o t) /\ (s \o t)[Len(s) + j] = t[j]
           /\ \A i \in DOMAIN (s \o t) :
                 \/ i \in 1..Len(s)
                 \/ i - Len(s) \in 1..Len(t) /\ (s \o t)[i] = t[i - Len(s)]
BY SMTT(30)

(* A concatenation has what its parts have.                                *)
LEMMA RangeConcat ==
    ASSUME NEW S, NEW s \in Seq(S), NEW t \in Seq(S)
    PROVE  Range(s \o t) = Range(s) \cup Range(t)
<1>. DEFINE u == s \o t
<1>1. /\ DOMAIN s = 1..Len(s) /\ DOMAIN t = 1..Len(t)
      /\ \A i \in 1..Len(s) : i \in DOMAIN u /\ u[i] = s[i]
      /\ \A j \in 1..Len(t) : Len(s) + j \in DOMAIN u /\ u[Len(s) + j] = t[j]
      /\ \A i \in DOMAIN u : i \in 1..Len(s) \/ (i - Len(s) \in 1..Len(t) /\ u[i] = t[i - Len(s)])
    BY SMTT(30), ConcatFacts, SeqFacts
<1>. HIDE DEF u
<1>2. Range(u) \subseteq Range(s) \cup Range(t)
    BY <1>1 DEF Range
<1>3. Range(s) \subseteq Range(u)
    BY <1>1 DEF Range
<1>4. ASSUME NEW x \in Range(t) PROVE x \in Range(u)
  <2>1. PICK j \in DOMAIN t : t[j] = x
      BY Zenon DEF Range
  <2>2. Len(s) + j \in DOMAIN u /\ u[Len(s) + j] = x
      BY <1>1, <2>1
  <2>. QED  BY <2>2 DEF Range
<1>. QED  BY <1>2, <1>3, <1>4 DEF u

(* Two sequences without duplicates that share nothing make one.           *)
LEMMA InjectiveConcat ==
    ASSUME NEW S, NEW s \in Seq(S), NEW t \in Seq(S), IsInjective(s), IsInjective(t),
           Range(s) \cap Range(t) = {}
    PROVE  IsInjective(s \o t)
<1>. DEFINE u == s \o t
<1>1. /\ DOMAIN s = 1..Len(s) /\ DOMAIN t = 1..Len(t) /\ Len(s) \in Nat /\ Len(t) \in Nat
      /\ \A i \in 1..Len(s) : u[i] = s[i] /\ s[i] \in Range(s)
      /\ \A j \in 1..Len(t) : t[j] \in Range(t)
      /\ DOMAIN u \subseteq Nat
      /\ \A i \in DOMAIN u : i \in 1..Len(s) \/ (i - Len(s) \in 1..Len(t) /\ u[i] = t[i - Len(s)])
    BY SMTT(30), ConcatFacts, SeqFacts
<1>. HIDE DEF u
<1>2. SUFFICES ASSUME NEW i \in DOMAIN u, NEW j \in DOMAIN u, u[i] = u[j] PROVE i = j
    BY DEF IsInjective, u
<1>3. CASE i \in 1..Len(s) /\ j \in 1..Len(s)
    BY <1>1, <1>2, <1>3 DEF IsInjective
<1>4. CASE i \notin 1..Len(s) /\ j \notin 1..Len(s)
  <2>1. i - Len(s) = j - Len(s)
      BY <1>1, <1>2, <1>4 DEF IsInjective
  <2>. QED  BY SMTT(30), <1>1, <2>1
<1>5. CASE (i \in 1..Len(s)) # (j \in 1..Len(s))
    BY SMTT(30), <1>1, <1>2, <1>5
<1>. QED  BY <1>3, <1>4, <1>5

(* How often a transaction is in a sequence, and in one extended by one    *)
(* without repetitions                                                     *)
LEMMA TimesFacts ==
    ASSUME NEW S, NEW s \in Seq(S), NEW tx
    PROVE  /\ IsFiniteSet(Times(tx, s)) /\ timesIn(tx, s) \in Nat
           /\ timesIn(tx, s) = Cardinality(Times(tx, s))
           /\ timesIn(tx, s) = 0 <=> tx \notin Range(s)
<1>1. Len(s) \in Nat /\ IsFiniteSet(1..Len(s))
    BY SMTT(30), SeqFacts, FS_Interval
<1>2. Times(tx, s) \in SUBSET (1..Len(s))
    BY DEF Times
<1>3. IsFiniteSet(Times(tx, s))
    BY <1>1, <1>2, FS_Subset
<1>4. timesIn(tx, s) = Cardinality(Times(tx, s))
    BY DEF timesIn, Times
<1>5. Cardinality(Times(tx, s)) \in Nat /\ (Cardinality(Times(tx, s)) = 0 <=> Times(tx, s) = {})
    BY <1>3, FS_CardinalityType, FS_EmptySet
<1>6. Times(tx, s) = {} <=> tx \notin Range(s)
  <2>1. DOMAIN s = 1..Len(s)
      BY SeqFacts
  <2>. QED  BY <2>1 DEF Times, Range
<1>. QED  BY <1>3, <1>4, <1>5, <1>6

(* A batch that comes back adds one to the times of its transactions.      *)
LEMMA TimesConcat ==
    ASSUME NEW S, NEW s \in Seq(S), NEW t \in Seq(S), IsInjective(t), NEW tx
    PROVE  timesIn(tx, s \o t) = timesIn(tx, s) + (IF tx \in Range(t) THEN 1 ELSE 0)
<1>. DEFINE u == s \o t
<1>1. /\ Len(s) \in Nat /\ Len(t) \in Nat /\ DOMAIN t = 1..Len(t)
      /\ Len(u) = Len(s) + Len(t) /\ u \in Seq(S)
      /\ \A i \in 1..Len(s) : u[i] = s[i]
      /\ \A i \in 1..Len(u) : i \in 1..Len(s) \/ (i - Len(s) \in 1..Len(t) /\ u[i] = t[i - Len(s)])
    BY SMTT(30), ConcatFacts, SeqFacts
<1>. HIDE DEF u
<1>0. /\ timesIn(tx, u) = Cardinality(Times(tx, u)) /\ timesIn(tx, s) = Cardinality(Times(tx, s))
      /\ IsFiniteSet(Times(tx, s)) /\ timesIn(tx, s) \in Nat
    BY <1>1, TimesFacts
<1>2. CASE tx \notin Range(t)
  <2>1. Times(tx, u) = Times(tx, s)
    <3>1. ASSUME NEW i \in 1..Len(u) PROVE u[i] = tx <=> i \in 1..Len(s) /\ s[i] = tx
      <4>1. CASE i \in 1..Len(s)
          BY <1>1, <4>1
      <4>2. CASE i \notin 1..Len(s)
        <5>1. i - Len(s) \in 1..Len(t) /\ u[i] = t[i - Len(s)]
            BY <1>1, <4>2
        <5>2. t[i - Len(s)] \in Range(t)
            BY <1>1, <5>1 DEF Range
        <5>. QED  BY <1>2, <4>2, <5>1, <5>2
      <4>. QED  BY <4>1, <4>2
    <3>2. 1..Len(s) \subseteq 1..Len(u)
        BY SMTT(30), <1>1
    <3>. QED  BY <3>1, <3>2 DEF Times
  <2>. QED  BY SMTT(30), <1>0, <1>2, <2>1 DEF u
<1>3. CASE tx \in Range(t)
  <2>1. PICK k \in 1..Len(t) : t[k] = tx
      BY <1>1, <1>3 DEF Range
  <2>2. \A j \in 1..Len(t) : t[j] = tx => j = k
      BY <1>1, <2>1 DEF IsInjective
  <2>3. Times(tx, u) = Times(tx, s) \cup {Len(s) + k}
    <3>1. ASSUME NEW i \in 1..Len(u)
          PROVE  u[i] = tx <=> (i \in 1..Len(s) /\ s[i] = tx) \/ i = Len(s) + k
      <4>1. CASE i \in 1..Len(s)
          BY SMTT(30), <1>1, <2>1, <4>1
      <4>2. CASE i \notin 1..Len(s)
        <5>1. i - Len(s) \in 1..Len(t) /\ u[i] = t[i - Len(s)]
            BY <1>1, <4>2
        <5>2. t[i - Len(s)] = tx <=> i - Len(s) = k
            BY <2>1, <2>2, <5>1
        <5>3. i - Len(s) = k <=> i = Len(s) + k
            BY SMTT(30), <1>1
        <5>. QED  BY <4>2, <5>1, <5>2, <5>3
      <4>. QED  BY <4>1, <4>2
    <3>2. 1..Len(s) \subseteq 1..Len(u) /\ Len(s) + k \in 1..Len(u)
        BY SMTT(30), <1>1
    <3>. QED  BY <3>1, <3>2 DEF Times
  <2>4. Len(s) + k \notin Times(tx, s)
      BY SMTT(30), <1>1 DEF Times
  <2>5. Cardinality(Times(tx, u)) = Cardinality(Times(tx, s)) + 1
      BY <1>0, <2>3, <2>4, FS_AddElement
  <2>. QED  BY <1>0, <1>3, <2>5 DEF u
<1>. QED  BY <1>2, <1>3

(* The elements that are pushed: there is a growing sequence of positions  *)
(* they come from.                                                         *)
PickedBy(p, s, I, pos) ==
    /\ Len(p) \in Nat /\ DOMAIN p = 1..Len(p)
    /\ pos \in [1..Len(p) -> I]
    /\ \A k \in 1..Len(p) : p[k] = s[pos[k]]
    /\ \A k, l \in 1..Len(p) : k < l => pos[k] < pos[l]
    /\ \A i \in I : \E k \in 1..Len(p) : pos[k] = i

Picked(p, s, I) == \E pos : PickedBy(p, s, I, pos)

(* One round of the loop that pushes the chosen elements                   *)
LEMMA PickNext ==
    ASSUME NEW S, NEW s \in Seq(S), NEW m \in 1..Len(s), NEW I \in SUBSET (1..Len(s)),
           NEW p \in Seq(S), Picked(p, s, I \cap (1..(m - 1))),
           NEW r, r = IF m \in I THEN Append(p, s[m]) ELSE p
    PROVE  r \in Seq(S) /\ Picked(r, s, I \cap (1..m))
<1>. DEFINE J == I \cap (1..(m - 1))
            K == I \cap (1..m)
<1>0. m \in Nat /\ Len(s) \in Nat /\ s[m] \in S
    BY SMTT(30)
<1>1. PICK pos : PickedBy(p, s, J, pos)
    BY DEF Picked
<1>2. CASE m \notin I
  <2>1. J = K
      BY SMTT(30), <1>0, <1>2
  <2>. QED  BY <1>1, <1>2, <2>1 DEF Picked
<1>3. CASE m \in I
  <2>. DEFINE q == Append(p, s[m])
              n == Len(p)
              new == [k \in 1..(n + 1) |-> IF k = n + 1 THEN m ELSE pos[k]]
  <2>1. /\ q \in Seq(S) /\ n \in Nat /\ Len(q) = n + 1 /\ DOMAIN q = 1..(n + 1)
        /\ q[n + 1] = s[m] /\ \A k \in 1..n : q[k] = p[k]
      BY SMTT(30), <1>0
  <2>2. /\ pos \in [1..n -> J]
        /\ \A k \in 1..n : p[k] = s[pos[k]]
        /\ \A k, l \in 1..n : k < l => pos[k] < pos[l]
        /\ \A i \in J : \E k \in 1..n : pos[k] = i
      BY <1>1 DEF PickedBy
  <2>3. J \subseteq K /\ m \in K /\ \A i \in J : i \in Nat /\ i < m
      BY SMTT(30), <1>0, <1>3
  <2>4. \A i \in K : i = m \/ i \in J
      BY SMTT(30), <1>0
  <2>5. \A k \in 1..(n + 1) : k = n + 1 \/ k \in 1..n
      BY SMTT(30), <2>1
  <2>6. n + 1 \in 1..(n + 1) /\ \A k \in 1..n : k \in 1..(n + 1) /\ k < n + 1
      BY SMTT(30), <2>1
  <2>7. new[n + 1] = m /\ \A k \in 1..n : new[k] = pos[k]
      BY SMTT(30), <2>1
  <2>. HIDE DEF J, K, q, n
  <2>8. new \in [1..(n + 1) -> K]
      BY <2>2, <2>3, <2>5
  <2>. HIDE DEF new
  <2>9. \A k \in 1..(n + 1) : q[k] = s[new[k]]
      BY <2>1, <2>2, <2>5, <2>7
  <2>10. ASSUME NEW k \in 1..(n + 1), NEW l \in 1..(n + 1), k < l PROVE new[k] < new[l]
    <3>1. k \in 1..n
        BY SMTT(30), <2>1, <2>10
    <3>2. CASE l = n + 1
        BY <2>2, <2>3, <2>7, <3>1, <3>2
    <3>3. CASE l # n + 1
        BY <2>2, <2>5, <2>7, <2>10, <3>1, <3>3
    <3>. QED  BY <3>2, <3>3
  <2>11. \A i \in K : \E k \in 1..(n + 1) : new[k] = i
      BY <2>2, <2>4, <2>6, <2>7
  <2>12. PickedBy(q, s, K, new)
      BY SMTT(30), <2>1, <2>8, <2>9, <2>10, <2>11 DEF PickedBy
  <2>. QED  BY <1>3, <2>1, <2>12 DEF q, K, n, Picked
<1>. QED  BY <1>2, <1>3

(* The loop of add_transactions and commit that pushes the elements at     *)
(* some positions keeps their order.                                       *)
LEMMA PushedPicks ==
    ASSUME NEW S, NEW s \in Seq(S), NEW I \in SUBSET (1..Len(s))
    PROVE  pushed(s, I) \in Seq(S) /\ Picked(pushed(s, I), s, I)
<1>. DEFINE N == Len(s)
            Step(v, n) == IF n \in I THEN Append(v, s[n]) ELSE v
            Body(f, n) == IF n = 0 THEN << >> ELSE Step(f[n - 1], n)
            IsLoop(f, m) == f = [n \in 0..m |-> Body(f, n)]
<1>next. ASSUME NEW m \in 1..Len(s), NEW p, p \in Seq(S),
                Picked(p, s, I \cap (1..(m - 1))),
                NEW r, r = IF m \in I THEN Append(p, s[m]) ELSE p
         PROVE  r \in Seq(S) /\ Picked(r, s, I \cap (1..m))
    BY <1>next, PickNext
<1>0. \A f : IsLoop(f, N) <=>
             f = [n \in 0..Len(s) |-> IF n = 0 THEN << >>
                                      ELSE IF n \in I THEN Append(f[n - 1], s[n])
                                      ELSE f[n - 1]]
    OBVIOUS
<1>1. N \in Nat
    BY SMTT(30)
<1>2. \E f : IsLoop(f, N)
  <2>. HIDE DEF N, Step
  <2>. DEFINE bad == {m \in 0..N : ~\E f : IsLoop(f, m)}
  <2>1. SUFFICES ASSUME bad # {} PROVE FALSE
    <3>1. N \in 0..N
        BY SMTT(30), <1>1
    <3>. QED  BY <3>1
  <2>0. bad \in SUBSET Nat
      BY SMTT(30)
  <2>2. PICK m \in bad : \A j \in bad : m <= j
      BY <2>0, <2>1, Least
  <2>3. m # 0
    <3>1. IsLoop([n \in 0..0 |-> << >>], 0)
        BY SMTT(30)
    <3>. QED  BY <2>2, <3>1
  <2>4. m \in Nat /\ m - 1 \in 0..N /\ m - 1 \notin bad
    <3>1. m \in 0..N
        OBVIOUS
    <3>2. m \in Nat /\ m - 1 \in 0..N /\ ~(m <= m - 1)
        BY SMTT(30), <1>1, <2>3, <3>1
    <3>. QED  BY <2>2, <3>2
  <2>5. PICK f : IsLoop(f, m - 1)
      BY <2>4
  <2>. DEFINE g == [n \in 0..m |-> IF n = m THEN Step(f[m - 1], m) ELSE f[n]]
  <2>6. IsLoop(g, m)
    <3>1. ASSUME NEW n \in 0..m PROVE g[n] = Body(g, n)
      <4>1. CASE n = 0
          BY SMTT(30), <2>3, <2>4, <2>5, <4>1
      <4>2. CASE n = m
          BY SMTT(30), <2>3, <2>4, <2>5, <4>2
      <4>3. CASE n # 0 /\ n # m
          BY SMTT(30), <2>3, <2>4, <2>5, <4>3
      <4>. QED  BY <4>1, <4>2, <4>3
    <3>. QED  BY <3>1
  <2>. QED  BY <2>2, <2>6
<1>3. PICK f : IsLoop(f, N) /\ pushed(s, I) = f[N]
    BY <1>2 DEF pushed
<1>. DEFINE OK(m) == f[m] \in Seq(S) /\ Picked(f[m], s, I \cap (1..m))
<1>4. OK(N)
  <2>. DEFINE bad == {m \in 0..N : ~OK(m)}
  <2>1. SUFFICES ASSUME bad # {} PROVE FALSE
    <3>1. N \in 0..N
        BY SMTT(30), <1>1
    <3>. HIDE DEF OK
    <3>. QED  BY <3>1
  <2>0. bad \in SUBSET Nat
      BY SMTT(30)
  <2>2. PICK m \in bad : \A j \in bad : m <= j
      BY <2>0, <2>1, Least
  <2>3. m # 0
    <3>1. f[0] = << >>
        BY SMTT(30), <1>1, <1>3
    <3>2. I \cap (1..0) = {}
        BY SMTT(30)
    <3>3. PickedBy(<< >>, s, {}, << >>)
        BY SMTT(30) DEF PickedBy
    <3>4. OK(0)
        BY SMTT(30), <3>1, <3>2, <3>3 DEF Picked
    <3>. HIDE DEF OK
    <3>. QED  BY <2>2, <3>4
  <2>4. m \in 1..N /\ m - 1 \in 0..N /\ m - 1 \notin bad
    <3>. HIDE DEF OK
    <3>1. m \in 0..N
        OBVIOUS
    <3>2. m \in 1..N /\ m - 1 \in 0..N /\ ~(m <= m - 1)
        BY SMTT(30), <1>1, <2>3, <3>1
    <3>. QED  BY <2>2, <3>2
  <2>5. OK(m - 1)
    <3>. HIDE DEF OK
    <3>. QED  BY <2>4
  <2>6. f[m] = IF m \in I THEN Append(f[m - 1], s[m]) ELSE f[m - 1]
      BY <1>3, <2>3, <2>4
  <2>7. OK(m)
    <3>1. m \in 1..Len(s) /\ f[m - 1] \in Seq(S)
          /\ Picked(f[m - 1], s, I \cap (1..(m - 1)))
        BY <2>4, <2>5
    <3>. HIDE DEF N, Step
    <3>. QED  BY <1>next, <2>6, <3>1
  <2>. HIDE DEF OK
  <2>. QED  BY <2>2, <2>7
<1>5. I \cap (1..N) = I
    OBVIOUS
<1>. QED  BY <1>3, <1>4, <1>5

(* What the pushed sequence holds                                          *)
LEMMA PushedFacts ==
    ASSUME NEW S, NEW s \in Seq(S), NEW I \in SUBSET (1..Len(s))
    PROVE  LET p == pushed(s, I)
           IN  /\ p \in Seq(S)
               /\ \A x \in Range(p) : \E i \in I : s[i] = x
               /\ \A i \in I : s[i] \in Range(p)
               /\ (\A i, j \in I : s[i] = s[j] => i = j) => IsInjective(p)
<1>. DEFINE p == pushed(s, I)
<1>1. p \in Seq(S) /\ Picked(p, s, I)
    BY PushedPicks
<1>. HIDE DEF p
<1>2. PICK pos : PickedBy(p, s, I, pos)
    BY <1>1 DEF Picked
<1>3. DOMAIN p = 1..Len(p) /\ Len(p) \in Nat /\ pos \in [DOMAIN p -> I]
      /\ (\A k \in DOMAIN p : p[k] = s[pos[k]])
      /\ (\A k, l \in DOMAIN p : k < l => pos[k] < pos[l])
      /\ (\A i \in I : \E k \in DOMAIN p : pos[k] = i)
    BY <1>2 DEF PickedBy
<1>3a. \A k \in DOMAIN p : pos[k] \in I
    BY <1>3
<1>4. ASSUME NEW x \in Range(p) PROVE \E i \in I : s[i] = x
  <2>1. PICK k \in DOMAIN p : p[k] = x
      BY Zenon DEF Range
  <2>2. pos[k] \in I /\ s[pos[k]] = x
      BY <1>3, <1>3a, <2>1
  <2>. QED  BY <2>2
<1>5. ASSUME NEW i \in I PROVE s[i] \in Range(p)
  <2>1. PICK k \in DOMAIN p : pos[k] = i
      BY <1>3
  <2>2. p[k] = s[i]
      BY <1>3, <2>1
  <2>. QED  BY <2>2 DEF Range
<1>6. ASSUME \A i, j \in I : s[i] = s[j] => i = j, NEW k \in DOMAIN p, NEW l \in DOMAIN p,
             p[k] = p[l]
      PROVE  k = l
  <2>1. pos[k] = pos[l]
    <3>1. p[k] = s[pos[k]] /\ p[l] = s[pos[l]]
        BY <1>3
    <3>. QED  BY <1>3a, <1>6, <3>1
  <2>2. pos[k] \in Nat
    <3>1. pos[k] \in I /\ \A i \in I : i \in Nat
        BY SMTT(30), <1>3a
    <3>. QED  BY <3>1
  <2>3. ~(k < l) /\ ~(l < k)
      BY SMTT(30), <1>3, <2>1, <2>2
  <2>. QED  BY SMTT(30), <1>3, <2>3
<1>. QED  BY <1>1, <1>4, <1>5, <1>6 DEF IsInjective, p

(* The group of a range has the transactions that write to it, once each   *)
(* and still in order.                                                     *)
LEMMA GroupOfFacts ==
    ASSUME writes \in [Transaction -> SUBSET ParticipantRange], NEW r,
           NEW s \in Seq(Transaction)
    PROVE  /\ groupOf(s, r) \in Seq(Transaction)
           /\ Range(groupOf(s, r)) = {tx \in Range(s) : r \in writes[tx]}
           /\ IsInjective(s) => IsInjective(groupOf(s, r))
           /\ Queued(s, r) => Queued(groupOf(s, r), r)
<1>. DEFINE I == {i \in 1..Len(s) : r \in writes[s[i]]}
            p == groupOf(s, r)
<1>0. I \in SUBSET (1..Len(s)) /\ p = pushed(s, I)
    BY DEF groupOf
<1>. HIDE DEF p
<1>1. DOMAIN s = 1..Len(s) /\ Len(s) \in Nat
    BY SMTT(30)
<1>2. /\ p \in Seq(Transaction)
      /\ \A x \in Range(p) : \E i \in I : s[i] = x
      /\ \A i \in I : s[i] \in Range(p)
      /\ (\A i, j \in I : s[i] = s[j] => i = j) => IsInjective(p)
    BY <1>0, PushedFacts
<1>3. Range(p) = {tx \in Range(s) : r \in writes[tx]}
  <2>1. \A x \in Range(p) : x \in Range(s) /\ r \in writes[x]
      BY <1>1, <1>2 DEF Range
  <2>2. \A x \in Range(s) : r \in writes[x] => x \in Range(p)
      BY <1>1, <1>2 DEF Range
  <2>. QED  BY <2>1, <2>2
<1>4. IsInjective(s) => IsInjective(p)
    BY <1>1, <1>2 DEF IsInjective
<1>5. ASSUME Queued(s, r), NEW k \in DOMAIN p, NEW d \in Transaction,
             depends[p[k]] = {d}, r \in writes[d], ~AppliedAt(d, r)
      PROVE  \E l \in 1..(k - 1) : p[l] = d
  <2>1. Picked(p, s, I)
      BY <1>0, PushedPicks
  <2>2. PICK pos : PickedBy(p, s, I, pos)
      BY <2>1 DEF Picked
  <2>. HIDE DEF I
  <2>3. DOMAIN p = 1..Len(p) /\ Len(p) \in Nat /\ pos \in [DOMAIN p -> I]
        /\ (\A m \in DOMAIN p : p[m] = s[pos[m]])
        /\ (\A m, l \in DOMAIN p : m < l => pos[m] < pos[l])
        /\ (\A i \in I : \E m \in DOMAIN p : pos[m] = i)
      BY <2>2 DEF PickedBy
  <2>4. pos[k] \in I /\ p[k] = s[pos[k]] /\ pos[k] \in DOMAIN s
      BY <1>0, <1>1, <2>3
  <2>5. PICK j \in 1..(pos[k] - 1) : s[j] = d
      BY <1>5, <2>4 DEF Queued
  <2>6. j \in I /\ j \in Nat /\ pos[k] \in Nat /\ j < pos[k]
      BY SMTT(30), <1>0, <1>1, <1>5, <2>4, <2>5 DEF I
  <2>7. PICK l \in DOMAIN p : pos[l] = j
      BY <2>3, <2>6
  <2>8. p[l] = d /\ ~(k < l) /\ l # k
      BY SMTT(30), <2>3, <2>5, <2>6, <2>7
  <2>9. l \in 1..(k - 1)
      BY SMTT(30), <2>3, <2>8
  <2>. QED  BY <2>8, <2>9
<1>6. Queued(s, r) => Queued(p, r)
    BY <1>5 DEF Queued
<1>. QED  BY <1>2, <1>3, <1>4, <1>6 DEF p

(* What is in a sequence has a last place there.                           *)
LEMMA LastOccurrence ==
    ASSUME NEW S, NEW s \in Seq(S), NEW x \in Range(s)
    PROVE  \E i \in 1..Len(s) : s[i] = x /\ \A j \in (i + 1)..Len(s) : s[j] # x
<1>. DEFINE left == {Len(s) - i : i \in {k \in 1..Len(s) : s[k] = x}}
<1>1. PICK k \in DOMAIN s : s[k] = x
    BY SeqFacts
<1>2. left \in SUBSET Nat /\ left # {}
    BY SMTT(30), <1>1
<1>3. PICK m \in left : \A n \in left : m <= n
    BY <1>2, Least
<1>4. PICK i \in 1..Len(s) : s[i] = x /\ m = Len(s) - i
    BY <1>3
<1>5. ASSUME NEW j \in (i + 1)..Len(s), s[j] = x PROVE FALSE
  <2>1. j \in 1..Len(s) /\ Len(s) - j \in left /\ Len(s) - j < Len(s) - i
      BY SMTT(30), <1>4, <1>5
  <2>2. Len(s) \in Nat /\ i \in Nat /\ j \in Nat /\ ~(Len(s) - i <= Len(s) - j)
      BY SMTT(30), <2>1
  <2>. HIDE DEF left
  <2>. QED  BY <1>3, <1>4, <2>1, <2>2
<1>. QED  BY <1>4, <1>5

(* The commit collects a transaction once, when its count reaches zero.    *)
LEMMA FinishedFacts ==
    ASSUME NEW s \in Seq(Transaction)
    PROVE  /\ finishedAmong(s) \in Seq(Transaction) /\ IsInjective(finishedAmong(s))
           /\ Range(finishedAmong(s)) = {tx \in Range(s) : countDown(tx, s) = 0}
<1>. DEFINE I == {i \in 1..Len(s) : /\ countDown(s[i], s) = 0
                                    /\ \A j \in (i + 1)..Len(s) : s[j] # s[i]}
            p == finishedAmong(s)
<1>0. I \in SUBSET (1..Len(s)) /\ p = pushed(s, I)
    BY DEF finishedAmong
<1>. HIDE DEF p
<1>1. /\ p \in Seq(Transaction)
      /\ \A x \in Range(p) : \E i \in I : s[i] = x
      /\ \A i \in I : s[i] \in Range(p)
      /\ (\A i, j \in I : s[i] = s[j] => i = j) => IsInjective(p)
    BY <1>0, PushedFacts
<1>2. ASSUME NEW i \in I, NEW j \in I, s[i] = s[j] PROVE i = j
  <2>1. i \in 1..Len(s) /\ j \in 1..Len(s) /\ i \notin (j + 1)..Len(s) /\ j \notin (i + 1)..Len(s)
      BY <1>2
  <2>2. i \in Nat /\ j \in Nat /\ ~(i < j) /\ ~(j < i)
      BY SMTT(30), <2>1
  <2>. HIDE DEF I
  <2>. QED  BY SMTT(30), <2>2
<1>3. DOMAIN s = 1..Len(s)
    BY SMTT(30)
<1>4. \A x \in Range(p) : x \in Range(s) /\ countDown(x, s) = 0
    BY <1>1, <1>3 DEF Range
<1>5. ASSUME NEW x \in Range(s), countDown(x, s) = 0 PROVE x \in Range(p)
  <2>1. PICK i \in 1..Len(s) : s[i] = x /\ \A j \in (i + 1)..Len(s) : s[j] # x
      BY LastOccurrence
  <2>2. i \in I
      BY <1>5, <2>1
  <2>. QED  BY <1>1, <2>1, <2>2
<1>. QED  BY <1>1, <1>2, <1>4, <1>5 DEF p

(* Two queues in order, one after the other, are in order.                 *)
LEMMA QueuedConcat ==
    ASSUME NEW s \in Seq(Transaction), NEW t \in Seq(Transaction), NEW r,
           Queued(s, r), Queued(t, r)
    PROVE  Queued(s \o t, r)
<1>. DEFINE u == s \o t
<1>1. /\ DOMAIN s = 1..Len(s) /\ DOMAIN t = 1..Len(t) /\ Len(s) \in Nat /\ Len(t) \in Nat
      /\ DOMAIN u = 1..Len(u)
      /\ \A i \in 1..Len(s) : i \in DOMAIN u /\ u[i] = s[i]
      /\ \A j \in 1..Len(t) : Len(s) + j \in DOMAIN u /\ u[Len(s) + j] = t[j]
      /\ \A i \in DOMAIN u : i \in 1..Len(s) \/ (i - Len(s) \in 1..Len(t) /\ u[i] = t[i - Len(s)])
    BY SMTT(30), ConcatFacts, SeqFacts
<1>. HIDE DEF u
<1>2. ASSUME NEW i \in DOMAIN u, NEW d \in Transaction, depends[u[i]] = {d}, r \in writes[d],
             ~AppliedAt(d, r)
      PROVE  \E j \in 1..(i - 1) : u[j] = d
  <2>1. CASE i \in 1..Len(s)
    <3>1. PICK j \in 1..(i - 1) : s[j] = d
        BY SMTT(30), <1>1, <1>2, <2>1 DEF Queued
    <3>2. j \in 1..Len(s)
        BY SMTT(30), <1>1, <2>1
    <3>. QED  BY <1>1, <3>1, <3>2
  <2>2. CASE i - Len(s) \in 1..Len(t) /\ u[i] = t[i - Len(s)]
    <3>1. PICK j \in 1..((i - Len(s)) - 1) : t[j] = d
        BY SMTT(30), <1>1, <1>2, <2>2 DEF Queued
    <3>2. j \in 1..Len(t) /\ Len(s) + j \in 1..(i - 1)
        BY SMTT(30), <1>1, <2>2
    <3>. QED  BY <1>1, <3>1, <3>2
  <2>. QED  BY <1>1, <2>1, <2>2
<1>. QED  BY <1>2 DEF Queued, u

---------------------------------------------------------------------------
(* Cycles *)

(* Cycles of different names share no batch and no list.                   *)
LEMMA CycleApart ==
    ASSUME NEW c, NEW e, c.of # e.of
    PROVE  /\ HeldBy(e) \cap HeldBy(c) = {}
           /\ CollectedBy(e) \cap CollectedBy(c) = {}
           /\ FinishingBy(e) \cap FinishingBy(c) = {}
BY SMTT(30) DEF HeldBy, CollectedBy, FinishingBy

(* The batches and lists of the cycles after a step of one of them         *)
LEMMA CycleMoves ==
    ASSUME cycles \subseteq Cycle, CyclesOK, NEW c \in cycles, NEW d \in Cycle,
           d.of = c.of, d.at \in {"count", "notify"} => d.batches = {}, Becomes(c, d)
    PROVE  /\ cycles' \subseteq Cycle /\ CyclesOK' /\ Names' = Names
           /\ Held' = (Held \ HeldBy(c)) \cup HeldBy(d)
           /\ Collected' = (Collected \ CollectedBy(c)) \cup CollectedBy(d)
           /\ Finishing' = (Finishing \ FinishingBy(c)) \cup FinishingBy(d)
<1>1. cycles' = (cycles \ {c}) \cup {d} /\ cycles' \subseteq Cycle
    BY DEF Becomes
<1>2. \A e \in cycles : e # c => e.of # c.of
    BY DEF CyclesOK
<1>3. CyclesOK'
    BY <1>1, <1>2 DEF CyclesOK
<1>4. Names' = Names
    BY <1>1, <1>2 DEF Names
<1>5. Held' = UNION {HeldBy(e) : e \in cycles'}
      /\ Collected' = UNION {CollectedBy(e) : e \in cycles'}
      /\ Finishing' = UNION {FinishingBy(e) : e \in cycles'}
    BY DEF Held, Collected, Finishing, HeldBy, CollectedBy, FinishingBy
<1>6. \A e \in cycles : e # c => /\ HeldBy(e) \cap HeldBy(c) = {}
                                 /\ CollectedBy(e) \cap CollectedBy(c) = {}
                                 /\ FinishingBy(e) \cap FinishingBy(c) = {}
    BY <1>2, CycleApart
<1>7. Held' = (Held \ HeldBy(c)) \cup HeldBy(d)
    BY <1>1, <1>5, <1>6 DEF Held
<1>8. Collected' = (Collected \ CollectedBy(c)) \cup CollectedBy(d)
    BY <1>1, <1>5, <1>6 DEF Collected
<1>9. Finishing' = (Finishing \ FinishingBy(c)) \cup FinishingBy(d)
    BY <1>1, <1>5, <1>6 DEF Finishing
<1>. QED  BY <1>1, <1>3, <1>4, <1>7, <1>8, <1>9

(* Types of the batches and lists                                          *)
LEMMA HeldFacts ==
    ASSUME cycles \subseteq Cycle
    PROVE  /\ \A p \in Held : p[1] \in Names /\ p[2] \in Batch
           /\ \A p \in Collected \cup Finishing : p[1] \in Names /\ p[2] \in Seq(Transaction)
           /\ Names \subseteq Transaction
<1>1. \A c \in cycles : \A p \in HeldBy(c) : p[1] \in Names /\ p[2] \in Batch
    BY DEF HeldBy, Names, Cycle
<1>2. \A c \in cycles : \A p \in CollectedBy(c) \cup FinishingBy(c) :
         p[1] \in Names /\ p[2] \in Seq(Transaction)
    BY SMTT(30) DEF CollectedBy, FinishingBy, Names, Cycle
<1>3. Names \subseteq Transaction
    BY DEF Names, Cycle
<1>. QED  BY <1>1, <1>2, <1>3 DEF Held, Collected, Finishing

(* A cycle has collected one list.                                         *)
LEMMA CollectedApart ==
    ASSUME CyclesOK, NEW p \in Collected, NEW q \in Collected, p[1] = q[1]
    PROVE  p = q
<1>1. PICK c \in cycles : p \in CollectedBy(c)
    BY DEF Collected
<1>2. PICK d \in cycles : q \in CollectedBy(d)
    BY DEF Collected
<1>3. p = <<c.of, c.finished>> /\ q = <<d.of, d.finished>>
    BY <1>1, <1>2 DEF CollectedBy
<1>4. c = d
    BY <1>3 DEF CyclesOK
<1>. QED  BY <1>3, <1>4

(* A cycle that is spawned holds nothing.                                  *)
LEMMA CycleAdded ==
    ASSUME cycles \subseteq Cycle, CyclesOK, NEW tx \in Transaction, tx \notin Names,
           cycles' = cycles \cup {newCycle(tx)}
    PROVE  /\ cycles' \subseteq Cycle /\ CyclesOK' /\ Names' = Names \cup {tx}
           /\ Held' = Held /\ Collected' = Collected /\ Finishing' = Finishing
<1>. DEFINE d == newCycle(tx)
<1>1. d \in Cycle /\ d.of = tx /\ d.at = "spawned" /\ d.batches = {}
    BY SMTT(30) DEF newCycle, Cycle
<1>2. HeldBy(d) = {} /\ CollectedBy(d) = {} /\ FinishingBy(d) = {}
    BY <1>1 DEF HeldBy, CollectedBy, FinishingBy
<1>3. cycles' = cycles \cup {d}
    OBVIOUS
<1>. HIDE DEF d
<1>4. CyclesOK'
    BY <1>1, <1>3 DEF CyclesOK, Names
<1>5. Names' = Names \cup {tx}
    BY <1>1, <1>3 DEF Names
<1>6. Held' = UNION {HeldBy(e) : e \in cycles'}
      /\ Collected' = UNION {CollectedBy(e) : e \in cycles'}
      /\ Finishing' = UNION {FinishingBy(e) : e \in cycles'}
    BY DEF Held, Collected, Finishing, HeldBy, CollectedBy, FinishingBy
<1>7. Held' = Held
    BY <1>2, <1>3, <1>6 DEF Held
<1>8. Collected' = Collected
    BY <1>2, <1>3, <1>6 DEF Collected
<1>9. Finishing' = Finishing
    BY <1>2, <1>3, <1>6 DEF Finishing
<1>. QED  BY <1>1, <1>3, <1>4, <1>5, <1>7, <1>8, <1>9

(* A cycle that ends takes its finished list with it.                      *)
LEMMA CycleOver ==
    ASSUME cycles \subseteq Cycle, CyclesOK, NEW c \in cycles, c.at = "notify",
           cycles' = cycles \ {c}
    PROVE  /\ cycles' \subseteq Cycle /\ CyclesOK' /\ Names' \subseteq Names
           /\ Held' = Held /\ Collected' = Collected
           /\ <<c.of, c.finished>> \in Finishing
           /\ Finishing' = Finishing \ {<<c.of, c.finished>>}
<1>1. HeldBy(c) = {} /\ CollectedBy(c) = {} /\ FinishingBy(c) = {<<c.of, c.finished>>}
    BY DEF HeldBy, CollectedBy, FinishingBy, CyclesOK
<1>2. CyclesOK'
    BY DEF CyclesOK
<1>3. Names' \subseteq Names
    BY DEF Names
<1>4. Held' = UNION {HeldBy(e) : e \in cycles'}
      /\ Collected' = UNION {CollectedBy(e) : e \in cycles'}
      /\ Finishing' = UNION {FinishingBy(e) : e \in cycles'}
    BY DEF Held, Collected, Finishing, HeldBy, CollectedBy, FinishingBy
<1>5. \A e \in cycles : e # c => FinishingBy(e) \cap FinishingBy(c) = {}
    BY CycleApart DEF CyclesOK
<1>6. Held' = Held
    BY <1>1, <1>4 DEF Held
<1>7. Collected' = Collected
    BY <1>1, <1>4 DEF Collected
<1>8. Finishing' = Finishing \ {<<c.of, c.finished>>} /\ <<c.of, c.finished>> \in Finishing
    BY <1>1, <1>4, <1>5 DEF Finishing
<1>. QED  BY <1>2, <1>3, <1>6, <1>7, <1>8

(* What a step of a cycle shows outside: the cycles keep their names.      *)
CyclesKept == cycles' \subseteq Cycle /\ CyclesOK' /\ Names' = Names

(* The snapshot of non_empty_groups moves no batch.                        *)
LEMMA SnapshotView ==
    ASSUME cycles \subseteq Cycle, CyclesOK, non_empty_groups \subseteq ParticipantRange,
           NEW c \in cycles, commitSnapshot(c)
    PROVE  CyclesKept /\ Held' = Held /\ Collected' = Collected /\ Finishing' = Finishing
<1>. DEFINE d == [c EXCEPT !.at = "run", !.take = non_empty_groups]
<1>1. /\ d \in Cycle /\ d.of = c.of /\ d.at = "run" /\ d.batches = c.batches
      /\ Becomes(c, d) /\ c.at = "spawned"
    BY DEF Cycle, commitSnapshot
<1>. HIDE DEF d
<1>2. /\ CyclesKept
      /\ Held' = (Held \ HeldBy(c)) \cup HeldBy(d)
      /\ Collected' = (Collected \ CollectedBy(c)) \cup CollectedBy(d)
      /\ Finishing' = (Finishing \ FinishingBy(c)) \cup FinishingBy(d)
    BY <1>1, CycleMoves DEF CyclesKept
<1>3. HeldBy(d) = HeldBy(c) /\ HeldBy(c) \subseteq Held
    BY <1>1 DEF HeldBy, Held
<1>4. CollectedBy(d) = {} /\ CollectedBy(c) = {} /\ FinishingBy(d) = {} /\ FinishingBy(c) = {}
    BY <1>1 DEF CollectedBy, FinishingBy
<1>. QED  BY <1>2, <1>3, <1>4

(* A cycle that takes a group holds it as a batch, unless it was empty.    *)
LEMMA TakeGroupView ==
    ASSUME cycles \subseteq Cycle, CyclesOK,
           group_per_participant \in [ParticipantRange -> Seq(Transaction)],
           NEW c \in cycles, NEW r \in ParticipantRange, takeGroup(c, r)
    PROVE  /\ CyclesKept /\ Collected' = Collected /\ Finishing' = Finishing
           /\ Held' = Held \cup
                 (IF group_per_participant[r] = << >> THEN {}
                  ELSE {<<c.of, [range |-> r, txs |-> group_per_participant[r],
                                 at |-> "record"]>>})
<1>. DEFINE batch == [range |-> r, txs |-> group_per_participant[r], at |-> "record"]
            more == IF group_per_participant[r] = << >> THEN {} ELSE {batch}
            d == [c EXCEPT !.take = @ \ {r},
                           !.batches = IF batch.txs = << >> THEN @ ELSE @ \cup {batch}]
<1>1. batch \in Batch /\ batch.txs = group_per_participant[r]
    BY DEF Batch
<1>2. /\ d \in Cycle /\ d.of = c.of /\ d.at = "run" /\ d.batches = c.batches \cup more
      /\ c.at = "run"
    BY <1>1 DEF Cycle, takeGroup
<1>3. Becomes(c, d)
    BY DEF takeGroup
<1>. HIDE DEF d
<1>4. /\ CyclesKept
      /\ Held' = (Held \ HeldBy(c)) \cup HeldBy(d)
      /\ Collected' = (Collected \ CollectedBy(c)) \cup CollectedBy(d)
      /\ Finishing' = (Finishing \ FinishingBy(c)) \cup FinishingBy(d)
    BY <1>2, <1>3, CycleMoves DEF CyclesKept
<1>5. HeldBy(d) = HeldBy(c) \cup ({c.of} \X more) /\ HeldBy(c) \subseteq Held
    BY <1>2 DEF HeldBy, Held
<1>6. CollectedBy(d) = {} /\ CollectedBy(c) = {} /\ FinishingBy(d) = {} /\ FinishingBy(c) = {}
    BY <1>2 DEF CollectedBy, FinishingBy
<1>7. {c.of} \X more = IF group_per_participant[r] = << >> THEN {} ELSE {<<c.of, batch>>}
    BY SMTT(30)
<1>. HIDE DEF more, batch
<1>8. Held' = Held \cup ({c.of} \X more)
    BY <1>4, <1>5
<1>. QED  BY <1>4, <1>6, <1>7, <1>8 DEF batch

(* A step of one batch leaves the others alone.                            *)
LEMMA BatchView ==
    ASSUME cycles \subseteq Cycle, CyclesOK, NEW c \in cycles, NEW b \in c.batches,
           NEW next \in SUBSET Batch,
           Becomes(c, [c EXCEPT !.batches = (@ \ {b}) \cup next])
    PROVE  /\ CyclesKept /\ Collected' = Collected /\ Finishing' = Finishing
           /\ <<c.of, b>> \in Held /\ b \in Batch
           /\ Held' = (Held \ {<<c.of, b>>}) \cup ({c.of} \X next)
<1>. DEFINE d == [c EXCEPT !.batches = (@ \ {b}) \cup next]
<1>1. /\ d \in Cycle /\ d.of = c.of /\ d.at = c.at /\ d.batches = (c.batches \ {b}) \cup next
      /\ c.at \notin {"count", "notify"} /\ Becomes(c, d) /\ b \in Batch
    BY DEF Cycle, CyclesOK
<1>. HIDE DEF d
<1>2. /\ CyclesKept
      /\ Held' = (Held \ HeldBy(c)) \cup HeldBy(d)
      /\ Collected' = (Collected \ CollectedBy(c)) \cup CollectedBy(d)
      /\ Finishing' = (Finishing \ FinishingBy(c)) \cup FinishingBy(d)
    BY <1>1, CycleMoves DEF CyclesKept
<1>3. HeldBy(d) = (HeldBy(c) \ {<<c.of, b>>}) \cup ({c.of} \X next)
    BY SMTT(30), <1>1 DEF HeldBy
<1>4. HeldBy(c) \subseteq Held /\ <<c.of, b>> \in HeldBy(c)
    BY DEF HeldBy, Held
<1>5. CollectedBy(d) = {} /\ CollectedBy(c) = {} /\ FinishingBy(d) = {} /\ FinishingBy(c) = {}
    BY <1>1 DEF CollectedBy, FinishingBy
<1>. QED  BY <1>1, <1>2, <1>3, <1>4, <1>5

(* A batch that is recorded or applied stays in its cycle.                 *)
LEMMA BatchMovesView ==
    ASSUME cycles \subseteq Cycle, CyclesOK, NEW c \in cycles, NEW b \in c.batches,
           NEW there \in {"apply", "return"}, BatchMoves(c, b, there)
    PROVE  /\ CyclesKept /\ Collected' = Collected /\ Finishing' = Finishing
           /\ <<c.of, b>> \in Held /\ b \in Batch
           /\ [b EXCEPT !.at = there] \in Batch
           /\ Held' = (Held \ {<<c.of, b>>}) \cup {<<c.of, [b EXCEPT !.at = there]>>}
<1>. DEFINE e == [b EXCEPT !.at = there]
<1>1. e \in Batch
    BY SMTT(30) DEF Batch, Cycle
<1>. DEFINE next == {e}
<1>2. next \in SUBSET Batch /\ Becomes(c, [c EXCEPT !.batches = (@ \ {b}) \cup next])
    BY <1>1 DEF BatchMoves
<1>3. {c.of} \X next = {<<c.of, e>>}
    BY SMTT(30)
<1>. HIDE DEF e, next
<1>4. /\ CyclesKept /\ Collected' = Collected /\ Finishing' = Finishing
      /\ <<c.of, b>> \in Held /\ b \in Batch
      /\ Held' = (Held \ {<<c.of, b>>}) \cup ({c.of} \X next)
    BY <1>2, BatchView
<1>. QED  BY <1>1, <1>3, <1>4 DEF e

(* A batch that returns or fails leaves its cycle.                         *)
LEMMA BatchGoneView ==
    ASSUME cycles \subseteq Cycle, CyclesOK, NEW c \in cycles, NEW b \in c.batches,
           Becomes(c, [c EXCEPT !.batches = @ \ {b}])
    PROVE  /\ CyclesKept /\ Collected' = Collected /\ Finishing' = Finishing
           /\ <<c.of, b>> \in Held /\ b \in Batch
           /\ Held' = Held \ {<<c.of, b>>}
<1>1. Becomes(c, [c EXCEPT !.batches = (@ \ {b}) \cup {}])
  <2>1. (c.batches \ {b}) \cup {} = c.batches \ {b}
      OBVIOUS
  <2>. QED  BY <2>1
<1>2. /\ CyclesKept /\ Collected' = Collected /\ Finishing' = Finishing
      /\ <<c.of, b>> \in Held /\ b \in Batch
      /\ Held' = (Held \ {<<c.of, b>>}) \cup ({c.of} \X {})
    BY <1>1, BatchView
<1>. QED  BY <1>2

(* A cycle that takes the returned transactions collects them.             *)
LEMMA TakeReturnedView ==
    ASSUME cycles \subseteq Cycle, CyclesOK, returned_transactions \in Seq(Transaction),
           NEW c \in cycles, takeReturned(c)
    PROVE  /\ CyclesKept /\ Held' = Held /\ Finishing' = Finishing
           /\ \A p \in Collected : p[1] # c.of
           /\ Collected' = Collected \cup {<<c.of, returned_transactions>>}
<1>. DEFINE d == [c EXCEPT !.at = "count", !.finished = returned_transactions]
<1>1. /\ d \in Cycle /\ d.of = c.of /\ d.at = "count" /\ d.batches = {} /\ c.batches = {}
      /\ d.finished = returned_transactions /\ Becomes(c, d) /\ c.at = "run"
    BY DEF Cycle, takeReturned
<1>. HIDE DEF d
<1>2. /\ CyclesKept
      /\ Held' = (Held \ HeldBy(c)) \cup HeldBy(d)
      /\ Collected' = (Collected \ CollectedBy(c)) \cup CollectedBy(d)
      /\ Finishing' = (Finishing \ FinishingBy(c)) \cup FinishingBy(d)
    BY <1>1, CycleMoves DEF CyclesKept
<1>3. HeldBy(d) = {} /\ HeldBy(c) = {}
    BY <1>1 DEF HeldBy
<1>4. /\ CollectedBy(d) = {<<c.of, returned_transactions>>} /\ CollectedBy(c) = {}
      /\ FinishingBy(d) = {} /\ FinishingBy(c) = {}
    BY <1>1 DEF CollectedBy, FinishingBy
<1>5. ASSUME NEW p \in Collected, p[1] = c.of PROVE FALSE
  <2>1. PICK e \in cycles : p \in CollectedBy(e)
      BY DEF Collected
  <2>2. p[1] = e.of
      BY SMTT(30), <2>1 DEF CollectedBy
  <2>3. e = c
      BY <1>5, <2>2 DEF CyclesOK
  <2>. QED  BY <1>4, <2>1, <2>3
<1>. QED  BY <1>2, <1>3, <1>4, <1>5

(* A cycle that has counted goes on with what is finished.                 *)
LEMMA CollectView ==
    ASSUME cycles \subseteq Cycle, CyclesOK, NEW c \in cycles, collectFinished(c)
    PROVE  /\ CyclesKept /\ Held' = Held /\ c.finished \in Seq(Transaction)
           /\ <<c.of, c.finished>> \in Collected
           /\ Collected' = Collected \ {<<c.of, c.finished>>}
           /\ Finishing' = Finishing \cup {<<c.of, finishedAmong(c.finished)>>}
<1>. DEFINE d == [c EXCEPT !.at = "notify", !.finished = finishedAmong(@)]
<1>0. c.finished \in Seq(Transaction) /\ c.at = "count"
    BY DEF Cycle, collectFinished
<1>1. finishedAmong(c.finished) \in Seq(Transaction)
    BY <1>0, FinishedFacts
<1>2. /\ d \in Cycle /\ d.of = c.of /\ d.at = "notify" /\ d.batches = {} /\ c.batches = {}
      /\ d.finished = finishedAmong(c.finished)
    BY <1>0, <1>1 DEF Cycle, CyclesOK
<1>3. Becomes(c, d)
    BY DEF collectFinished
<1>. HIDE DEF d
<1>4. /\ CyclesKept
      /\ Held' = (Held \ HeldBy(c)) \cup HeldBy(d)
      /\ Collected' = (Collected \ CollectedBy(c)) \cup CollectedBy(d)
      /\ Finishing' = (Finishing \ FinishingBy(c)) \cup FinishingBy(d)
    BY <1>2, <1>3, CycleMoves DEF CyclesKept
<1>5. HeldBy(d) = {} /\ HeldBy(c) = {}
    BY <1>2 DEF HeldBy
<1>6. /\ CollectedBy(c) = {<<c.of, c.finished>>} /\ CollectedBy(d) = {}
      /\ FinishingBy(d) = {<<c.of, finishedAmong(c.finished)>>} /\ FinishingBy(c) = {}
    BY <1>0, <1>2 DEF CollectedBy, FinishingBy
<1>7. CollectedBy(c) \subseteq Collected
    BY DEF Collected
<1>. QED  BY <1>0, <1>4, <1>5, <1>6, <1>7

---------------------------------------------------------------------------
(* What a step leaves alone *)

(* Nothing moves when the cycles stay.                                     *)
LEMMA SameCycles ==
    ASSUME Typed, CyclesOK, UNCHANGED cycles
    PROVE  CyclesKept /\ Held' = Held /\ Collected' = Collected /\ Finishing' = Finishing
<1>1. CyclesOK' /\ Names' = Names
    BY DEF CyclesOK, Names
<1>2. Held' = Held /\ Collected' = Collected /\ Finishing' = Finishing
    BY DEF Held, HeldBy, Collected, CollectedBy, Finishing, FinishingBy
<1>. QED  BY <1>1, <1>2 DEF CyclesKept, Typed

(* Steps of the group commit: the resolver and the coordinators do not     *)
(* move, and what is recorded or applied stays so.                         *)
GroupFrame ==
    /\ UNCHANGED writes /\ UNCHANGED others
    /\ committed \subseteq committed'
    /\ \A r \in ParticipantRange : Range(applied[r]) \subseteq Range(applied'[r])

SameReady == \A tx : (Ready(tx)' <=> Ready(tx)) /\ (Submitted(tx)' <=> Submitted(tx))

(* A step of the group commit leaves the resolver alone.                   *)
LEMMA GroupFrameFacts ==
    ASSUME IInv, GroupFrame
    PROVE  /\ SameReady /\ Coordinators' /\ Counted' /\ RegisteredOK' /\ DoneMeansApplied'
           /\ ~panicked'
<1>. USE DEF GroupFrame, others, resolverVars
<1>1. SameReady
    BY DEF SameReady, Ready, Submitted
<1>2. Coordinators'
    BY DEF Coordinators, IInv
<1>3. Counted'
    BY DEF Counted, Holders, Submitted, IInv
<1>4. ~panicked'
    BY DEF IInv
<1>5. \A tx \in Transaction : writes[tx] \subseteq ParticipantRange
    BY DEF IInv, Typed
<1>6. \A tx \in Transaction : AppliedEverywhere(tx) => AppliedEverywhere(tx)'
    BY <1>5 DEF AppliedEverywhere, AppliedAt
<1>7. RegisteredOK'
  <2>1. \A ids \in registering : Range(ids) \subseteq Transaction
      BY SeqFacts DEF IInv, Typed
  <2>2. resolved_transactions \subseteq Transaction
      BY DEF IInv, Typed
  <2>. QED  BY <1>6, <2>1, <2>2 DEF RegisteredOK, IInv
<1>8. DoneMeansApplied'
    BY <1>5 DEF DoneMeansApplied, IInv
<1>. QED  BY <1>1, <1>2, <1>3, <1>4, <1>7, <1>8

(* Types of the members of groups, batches and applied lists               *)
LEMMA TypedFacts ==
    ASSUME Typed
    PROVE  /\ \A r \in ParticipantRange :
                 /\ group_per_participant[r] \in Seq(Transaction)
                 /\ Range(group_per_participant[r]) \subseteq Transaction
                 /\ applied[r] \in Seq(Transaction)
                 /\ Range(applied[r]) \subseteq Transaction
           /\ \A tx \in Transaction : writes[tx] \subseteq ParticipantRange
           /\ \A p \in Held : p[2] \in Batch /\ Range(p[2].txs) \subseteq Transaction
                              /\ p[2].txs \in Seq(Transaction) /\ p[2].range \in ParticipantRange
           /\ \A p \in Collected \cup Finishing :
                 p[2] \in Seq(Transaction) /\ Range(p[2]) \subseteq Transaction
           /\ Names \subseteq Transaction
           /\ adding # None => /\ adding.txs \in Seq(Transaction)
                               /\ adding.extend \subseteq ParticipantRange
                               /\ Range(adding.txs) \subseteq Transaction
           /\ Range(returned_transactions) \subseteq Transaction
<1>. USE DEF Typed
<1>1. \A r \in ParticipantRange : /\ group_per_participant[r] \in Seq(Transaction)
                                  /\ applied[r] \in Seq(Transaction)
    OBVIOUS
<1>2. \A tx \in Transaction : writes[tx] \subseteq ParticipantRange
    OBVIOUS
<1>3. /\ \A p \in Held : p[2] \in Batch
      /\ \A p \in Collected \cup Finishing : p[2] \in Seq(Transaction)
      /\ Names \subseteq Transaction
    BY HeldFacts
<1>4. adding # None => adding.txs \in Seq(Transaction) /\ adding.extend \subseteq ParticipantRange
    BY DEF AddCall
<1>5. \A b \in Batch : b.txs \in Seq(Transaction) /\ b.range \in ParticipantRange
    BY DEF Batch
<1>6. \A s \in Seq(Transaction) : Range(s) \subseteq Transaction
    BY SeqFacts
<1>. QED  BY <1>1, <1>2, <1>3, <1>4, <1>5, <1>6

(* Counts and senders stay right as long as nothing they are about moves.  *)
LEMMA CountsFrame ==
    ASSUME Typed, CountsOK, SameReady, \A tx \in Names' : Ready(tx)',
           UNCHANGED <<returned_transactions, num_pending_participant_commits>>,
           Collected' = Collected, Finishing' \subseteq Finishing,
           \A tx \in Transaction : Ready(tx) => Open(tx)' = Open(tx)
    PROVE  CountsOK'
<1>1. \A tx : Counting(tx)' = Counting(tx)
    BY DEF Counting, Times
<1>2. ASSUME NEW tx \in Transaction PROVE CountOK(tx)'
  <2>1. CountOK(tx)
      BY DEF CountsOK
  <2>2. /\ Counting(tx)' = Counting(tx) /\ (Ready(tx)' <=> Ready(tx))
        /\ Ready(tx) => Open(tx)' = Open(tx)
      BY <1>1 DEF SameReady
  <2>. QED  BY <2>1, <2>2 DEF CountOK, timesIn
<1>3. AllReady(returned_transactions)'
    BY DEF AllReady, CountsOK, SameReady
<1>4. \A p \in Collected' \cup Finishing' : AllReady(p[2])'
    BY DEF AllReady, CountsOK, SameReady
<1>. QED  BY <1>2, <1>3, <1>4 DEF CountsOK

(* Waiting coordinators keep their senders while the counts stay.          *)
LEMMA SendersFrame ==
    ASSUME FinishedOK, HasSender, Finishing' = Finishing,
           UNCHANGED <<num_dependencies, num_pending_participant_commits, waiting_transactions>>
    PROVE  FinishedOK' /\ HasSender'
BY DEF FinishedOK, HasSender

(* Batches and ranges that do not move                                     *)
LEMMA PlacesFrame ==
    ASSUME IInv, SameReady, UNCHANGED <<writes, depends, applied>>,
           committed \subseteq committed', Held' = Held
    PROVE  /\ HeldOK' /\ AppliedOK' /\ SoleDependencyFirst'
           /\ \A p \in Held' : Queued(p[2].txs, p[2].range)'
           /\ \A tx, r : (InBatch(tx, r)' <=> InBatch(tx, r)) /\ (AppliedAt(tx, r)' <=> AppliedAt(tx, r))
           /\ \A tx : Open(tx)' = Open(tx)
           /\ \A s, r : Queued(s, r)' <=> Queued(s, r)
<1>1. \A tx, r : (InBatch(tx, r)' <=> InBatch(tx, r)) /\ (AppliedAt(tx, r)' <=> AppliedAt(tx, r))
    BY DEF InBatch, AppliedAt
<1>2. \A b : BatchOK(b) => BatchOK(b)'
    BY <1>1 DEF BatchOK, AllReady, SameReady
<1>3. HeldOK'
    BY <1>2 DEF HeldOK, IInv
<1>4. AppliedOK'
    BY DEF AppliedOK, IInv, SameReady
<1>5. SoleDependencyFirst'
    BY SMTT(30) DEF SoleDependencyFirst, Before, IInv, InOrder
<1>6. \A s, r : Queued(s, r)' <=> Queued(s, r)
    BY <1>1 DEF Queued
<1>7. \A tx : Open(tx)' = Open(tx)
    BY <1>1 DEF Open
<1>8. \A p \in Held' : Queued(p[2].txs, p[2].range)'
    BY <1>6 DEF IInv, InOrder
<1>. QED  BY <1>1, <1>3, <1>4, <1>5, <1>6, <1>7, <1>8

(* The queues of the next state, one by one                                *)
LEMMA QueuesNext ==
    ASSUME \A q \in ParticipantRange : \A s : s = group_per_participant'[q] => Queued(s, q)',
           adding' # None => \A q \in adding'.extend : \A s : s = adding'.txs => Queued(s, q)',
           \A p \in Held' : Queued(p[2].txs, p[2].range)', SoleDependencyFirst'
    PROVE  InOrder'
<1>1. ASSUME NEW q \in ParticipantRange PROVE Queued(group_per_participant[q], q)'
  <2>1. PICK s : s = group_per_participant'[q]
      OBVIOUS
  <2>2. Queued(s, q)'
      BY <2>1
  <2>. QED  BY SMTT(30), <2>1, <2>2 DEF Queued
<1>2. ASSUME adding' # None, NEW q \in adding'.extend PROVE Queued(adding.txs, q)'
  <2>1. PICK s : s = adding'.txs
      OBVIOUS
  <2>2. Queued(s, q)'
      BY <1>2, <2>1
  <2>. QED  BY SMTT(30), <2>1, <2>2 DEF Queued
<1>. QED  BY <1>1, <1>2 DEF InOrder

(* Groups that do not move                                                 *)
LEMMA GroupsFrame ==
    ASSUME IInv, SameReady, UNCHANGED <<writes, depends, applied>>,
           committed \subseteq committed', Held' = Held,
           UNCHANGED group_per_participant
    PROVE  /\ GroupsOK'
           /\ \A q \in ParticipantRange : \A s : s = group_per_participant'[q] => Queued(s, q)'
           /\ \A tx, r : InGroup(tx, r)' <=> InGroup(tx, r)
<1>1. /\ \A tx, r : (InBatch(tx, r)' <=> InBatch(tx, r)) /\ (AppliedAt(tx, r)' <=> AppliedAt(tx, r))
      /\ \A s, r : Queued(s, r)' <=> Queued(s, r)
    BY PlacesFrame
<1>2. GroupsOK'
    BY <1>1 DEF GroupsOK, IInv, AllReady, SameReady
<1>3. \A q \in ParticipantRange : \A s : s = group_per_participant'[q] => Queued(s, q)'
    BY <1>1 DEF IInv, InOrder
<1>. QED  BY <1>2, <1>3 DEF InGroup

(* A call that goes on as it was                                           *)
LEMMA AddingFrame ==
    ASSUME IInv, SameReady, UNCHANGED <<writes, depends, applied>>,
           committed \subseteq committed', Held' = Held,
           UNCHANGED <<group_per_participant, adding>>, Names' \subseteq Names
    PROVE  AddingOK' /\ InOrder'
<1>1. /\ \A tx, r : /\ InBatch(tx, r)' <=> InBatch(tx, r)
                    /\ AppliedAt(tx, r)' <=> AppliedAt(tx, r)
                    /\ InGroup(tx, r)' <=> InGroup(tx, r)
      /\ \A s, r : Queued(s, r)' <=> Queued(s, r)
      /\ SoleDependencyFirst' /\ \A p \in Held' : Queued(p[2].txs, p[2].range)'
      /\ \A q \in ParticipantRange : \A s : s = group_per_participant'[q] => Queued(s, q)'
    BY PlacesFrame, GroupsFrame
<1>2. AddingOK'
    BY <1>1 DEF AddingOK, IInv, AllReady, SameReady
<1>3. adding' # None => \A q \in adding'.extend : \A s : s = adding'.txs => Queued(s, q)'
    BY <1>1 DEF IInv, InOrder
<1>. QED  BY <1>1, <1>2, <1>3, QueuesNext

---------------------------------------------------------------------------
(* The steps of the group commit *)

(* add_transactions extends the group of one range.                        *)
LEMMA extendGroupIInv ==
    ASSUME IInv, NEW r \in ParticipantRange, extendGroup(r), UNCHANGED others
    PROVE  IInv'
<1>. DEFINE txs == adding.txs
            new == groupOf(txs, r)
            was == group_per_participant[r]
<1>1. /\ Typed /\ AddingOK /\ GroupsOK /\ CyclesOK /\ CountsOK /\ FinishedOK /\ HasSender
      /\ InOrder
    BY DEF IInv
<1>2. /\ adding # None /\ r \in adding.extend
      /\ group_per_participant' = [group_per_participant EXCEPT ![r] = was \o new]
      /\ adding' = [adding EXCEPT !.extend = @ \ {r}]
      /\ UNCHANGED <<writes, num_pending_participant_commits, non_empty_groups,
                     returned_transactions, cycles, committed, applied>>
      /\ UNCHANGED <<depends, num_dependencies, waiting_transactions>>
    BY DEF extendGroup, effectVars, others, resolverVars
<1>3. GroupFrame
    BY <1>2 DEF GroupFrame
<1>4. /\ SameReady /\ Coordinators' /\ Counted' /\ RegisteredOK' /\ DoneMeansApplied'
      /\ ~panicked'
    BY <1>3, GroupFrameFacts
<1>5. CyclesKept /\ Held' = Held /\ Collected' = Collected /\ Finishing' = Finishing
    BY <1>1, <1>2, SameCycles
<1>6. /\ txs \in Seq(Transaction) /\ was \in Seq(Transaction)
      /\ adding.extend \subseteq ParticipantRange /\ Range(txs) \subseteq Transaction
    BY <1>1, <1>2, TypedFacts
<1>7. /\ new \in Seq(Transaction)
      /\ Range(new) = {tx \in Range(txs) : r \in writes[tx]}
      /\ IsInjective(txs) => IsInjective(new)
      /\ Queued(txs, r) => Queued(new, r)
    BY <1>1, <1>6, GroupOfFacts DEF Typed
<1>8. adding' \in AddCall /\ adding'.txs = txs /\ adding'.extend = adding.extend \ {r}
      /\ adding' # None
  <2>1. adding \in AddCall
      BY <1>1, <1>2 DEF Typed
  <2>2. adding' \in AddCall /\ adding'.txs = txs /\ adding'.extend = adding.extend \ {r}
      BY <1>2, <2>1 DEF AddCall
  <2>. QED  BY <2>2, GroupAssumption
<1>9. /\ group_per_participant'[r] = was \o new
      /\ \A q \in ParticipantRange : q # r => group_per_participant'[q] = group_per_participant[q]
      /\ group_per_participant' \in [ParticipantRange -> Seq(Transaction)]
    BY <1>1, <1>2, <1>6, <1>7, ConcatFacts DEF Typed
<1>10. Typed'
    BY <1>1, <1>2, <1>5, <1>8, <1>9, <1>3 DEF Typed, GroupFrame, others, resolverVars, CyclesKept
<1>. HIDE DEF new, was, txs
<1>11. /\ HeldOK' /\ AppliedOK' /\ SoleDependencyFirst'
       /\ \A p \in Held' : Queued(p[2].txs, p[2].range)'
       /\ \A tx, q : /\ InBatch(tx, q)' <=> InBatch(tx, q)
                     /\ AppliedAt(tx, q)' <=> AppliedAt(tx, q)
       /\ \A tx : Open(tx)' = Open(tx)
       /\ \A s, q : Queued(s, q)' <=> Queued(s, q)
    BY <1>2, <1>4, <1>5, PlacesFrame
<1>12. \A tx \in Names' : Ready(tx)'
    BY <1>1, <1>4, <1>5 DEF CountsOK, SameReady, CyclesKept
<1>13. CountsOK' /\ FinishedOK' /\ HasSender'
    BY <1>1, <1>2, <1>4, <1>5, <1>11, <1>12, CountsFrame, SendersFrame
<1>14. /\ IsInjective(txs) /\ txs # << >> /\ AllReady(txs) /\ Names \cap Range(txs) = {}
       /\ \A q \in adding.extend : \A tx \in Range(txs) : q \in writes[tx] =>
             ~InGroup(tx, q) /\ ~InBatch(tx, q) /\ ~AppliedAt(tx, q)
    BY <1>1, <1>2 DEF AddingOK, txs
<1>15. Range(was) \cap Range(new) = {}
    BY <1>2, <1>7, <1>14 DEF InGroup, was
<1>16. /\ Range(was \o new) = Range(was) \cup Range(new)
       /\ IsInjective(was \o new)
  <2>1. IsInjective(was)
      BY <1>1 DEF GroupsOK, was
  <2>. QED  BY SMTT(30), <1>6, <1>7, <1>14, <1>15, <2>1, RangeConcat, InjectiveConcat
<1>17. GroupsOK'
  <2>1. \A tx \in Range(was \o new) :
           /\ r \in writes[tx] /\ ~InBatch(tx, r) /\ ~AppliedAt(tx, r) /\ Ready(tx)
      BY <1>1, <1>2, <1>7, <1>14, <1>16 DEF GroupsOK, AllReady, was
  <2>2. ASSUME NEW q \in ParticipantRange
        PROVE  /\ IsInjective(group_per_participant'[q])
               /\ \A tx \in Range(group_per_participant'[q]) :
                     Ready(tx) /\ q \in writes[tx] /\ ~InBatch(tx, q) /\ ~AppliedAt(tx, q)
    <3>1. CASE q = r
        BY <1>9, <1>16, <2>1, <3>1
    <3>2. CASE q # r
        BY <1>1, <1>9, <3>2 DEF GroupsOK, AllReady
    <3>. QED  BY <3>1, <3>2
  <2>. QED  BY <1>2, <1>4, <1>11, <2>2 DEF GroupsOK, AllReady, SameReady
<1>18. AddingOK'
  <2>1. \A q \in adding'.extend : q # r /\ q \in adding.extend /\ q \in ParticipantRange
      BY <1>6, <1>8
  <2>2. \A q \in adding'.extend : \A tx : InGroup(tx, q)' <=> InGroup(tx, q)
      BY <1>9, <2>1 DEF InGroup
  <2>. QED  BY <1>2, <1>4, <1>5, <1>8, <1>11, <1>14, <2>1, <2>2
               DEF AddingOK, AllReady, SameReady, CyclesKept
<1>19. InOrder'
  <2>1. \A q \in adding.extend : Queued(txs, q)
      BY <1>1, <1>2 DEF InOrder, txs
  <2>2. Queued(was \o new, r)
    <3>1. Queued(was, r)
        BY <1>1 DEF InOrder, was
    <3>. QED  BY <1>2, <1>6, <1>7, <2>1, <3>1, QueuedConcat
  <2>3. \A q \in ParticipantRange : Queued(group_per_participant'[q], q)
      BY <1>1, <1>9, <2>2 DEF InOrder
  <2>4. \A q \in ParticipantRange : \A s : s = group_per_participant'[q] => Queued(s, q)'
      BY <1>11, <2>3
  <2>5. adding' # None => \A q \in adding'.extend : \A s : s = adding'.txs => Queued(s, q)'
      BY <1>8, <1>11, <2>1
  <2>. QED  BY <1>11, <2>4, <2>5, QueuesNext
<1>. QED  BY <1>4, <1>5, <1>10, <1>11, <1>13, <1>17, <1>18, <1>19 DEF IInv, CyclesKept

(* add_transactions, its groups extended, marks them non-empty.            *)
LEMMA markNonEmptyIInv ==
    ASSUME IInv, markNonEmpty, UNCHANGED others
    PROVE  IInv'
<1>1. /\ Typed /\ AddingOK /\ CyclesOK /\ CountsOK /\ FinishedOK /\ HasSender /\ InOrder
    BY DEF IInv
<1>2. /\ adding # None /\ adding' = None
      /\ cycles' = cycles \cup {newCycle(Head(adding.txs))}
      /\ non_empty_groups' = non_empty_groups \cup rangesOf(adding.txs)
      /\ UNCHANGED <<writes, group_per_participant, num_pending_participant_commits,
                     returned_transactions, committed, applied>>
      /\ UNCHANGED <<depends, num_dependencies, waiting_transactions>>
    BY DEF markNonEmpty, effectVars, others, resolverVars
<1>3. GroupFrame
    BY <1>2 DEF GroupFrame
<1>4. /\ SameReady /\ Coordinators' /\ Counted' /\ RegisteredOK' /\ DoneMeansApplied'
      /\ ~panicked'
    BY <1>3, GroupFrameFacts
<1>5. /\ adding.txs \in Seq(Transaction) /\ adding.txs # << >>
      /\ Head(adding.txs) \in Range(adding.txs) /\ Head(adding.txs) \in Transaction
  <2>1. adding.txs \in Seq(Transaction) /\ adding.txs # << >>
      BY <1>1, <1>2, TypedFacts DEF AddingOK
  <2>2. 1 \in DOMAIN adding.txs /\ Head(adding.txs) = adding.txs[1]
      BY SMTT(30), <2>1
  <2>. QED  BY SMTT(30), <2>1, <2>2, SeqFacts
<1>6. Head(adding.txs) \notin Names /\ Ready(Head(adding.txs))
    BY <1>1, <1>2, <1>5 DEF AddingOK, AllReady
<1>7. /\ cycles' \subseteq Cycle /\ CyclesOK' /\ Names' = Names \cup {Head(adding.txs)}
      /\ Held' = Held /\ Collected' = Collected /\ Finishing' = Finishing
    BY <1>1, <1>2, <1>5, <1>6, CycleAdded DEF Typed
<1>8. rangesOf(adding.txs) \subseteq ParticipantRange
    BY <1>1, <1>2, TypedFacts DEF rangesOf
<1>9. Typed'
    BY <1>1, <1>2, <1>3, <1>7, <1>8 DEF Typed, GroupFrame, others, resolverVars
<1>10. /\ HeldOK' /\ AppliedOK' /\ SoleDependencyFirst'
       /\ \A p \in Held' : Queued(p[2].txs, p[2].range)'
       /\ \A tx : Open(tx)' = Open(tx)
    BY <1>2, <1>4, <1>7, PlacesFrame
<1>11. /\ GroupsOK'
       /\ \A q \in ParticipantRange : \A s : s = group_per_participant'[q] => Queued(s, q)'
    BY <1>2, <1>4, <1>7, GroupsFrame
<1>12. \A tx \in Names' : Ready(tx)'
  <2>1. \A tx \in Names' : Ready(tx)
      BY <1>1, <1>6, <1>7 DEF CountsOK
  <2>. QED  BY <1>4, <2>1 DEF SameReady
<1>13. CountsOK' /\ FinishedOK' /\ HasSender'
    BY <1>1, <1>2, <1>4, <1>7, <1>10, <1>12, CountsFrame, SendersFrame
<1>14. AddingOK'
    BY <1>2 DEF AddingOK
<1>15. InOrder'
    BY <1>2, <1>10, <1>11, QueuesNext
<1>. QED  BY <1>4, <1>7, <1>9, <1>10, <1>11, <1>13, <1>14, <1>15 DEF IInv

(* commit copies non_empty_groups.                                         *)
LEMMA commitSnapshotIInv ==
    ASSUME IInv, NEW c \in cycles, commitSnapshot(c), UNCHANGED others
    PROVE  IInv'
<1>1. Typed /\ CyclesOK /\ CountsOK /\ FinishedOK /\ HasSender
    BY DEF IInv
<1>2. /\ UNCHANGED <<writes, adding, group_per_participant, num_pending_participant_commits,
                     returned_transactions, non_empty_groups, committed, applied>>
      /\ UNCHANGED <<depends, num_dependencies, waiting_transactions>>
    BY DEF commitSnapshot, effectVars, others, resolverVars
<1>3. GroupFrame
    BY <1>2 DEF GroupFrame
<1>4. /\ SameReady /\ Coordinators' /\ Counted' /\ RegisteredOK' /\ DoneMeansApplied'
      /\ ~panicked'
    BY <1>3, GroupFrameFacts
<1>5. CyclesKept /\ Held' = Held /\ Collected' = Collected /\ Finishing' = Finishing
    BY <1>1, SnapshotView DEF Typed
<1>6. Typed'
    BY <1>1, <1>2, <1>3, <1>5 DEF Typed, GroupFrame, others, resolverVars, CyclesKept
<1>7. HeldOK' /\ AppliedOK' /\ \A tx : Open(tx)' = Open(tx)
    BY <1>2, <1>4, <1>5, PlacesFrame
<1>8. GroupsOK'
    BY <1>2, <1>4, <1>5, GroupsFrame
<1>9. AddingOK' /\ InOrder'
    BY <1>2, <1>4, <1>5, AddingFrame DEF CyclesKept
<1>10. \A tx \in Names' : Ready(tx)'
    BY <1>1, <1>4, <1>5 DEF CountsOK, SameReady, CyclesKept
<1>11. CountsOK' /\ FinishedOK' /\ HasSender'
    BY <1>1, <1>2, <1>4, <1>5, <1>7, <1>10, CountsFrame, SendersFrame
<1>. QED  BY <1>4, <1>5, <1>6, <1>7, <1>8, <1>9, <1>11 DEF IInv, CyclesKept

(* commit takes the group of one range for its batch.                      *)
LEMMA takeGroupIInv ==
    ASSUME IInv, NEW c \in cycles, NEW r \in ParticipantRange, takeGroup(c, r),
           UNCHANGED others
    PROVE  IInv'
<1>. DEFINE was == group_per_participant[r]
            b == [range |-> r, txs |-> was, at |-> "record"]
<1>1. /\ Typed /\ AddingOK /\ GroupsOK /\ CyclesOK /\ HeldOK /\ AppliedOK /\ CountsOK
      /\ FinishedOK /\ HasSender /\ InOrder
    BY DEF IInv
<1>2. /\ UNCHANGED <<writes, adding, num_pending_participant_commits,
                     returned_transactions, committed, applied>>
      /\ UNCHANGED <<depends, num_dependencies, waiting_transactions>>
      /\ group_per_participant' = [group_per_participant EXCEPT ![r] = << >>]
      /\ non_empty_groups' = non_empty_groups \ {r}
    BY DEF takeGroup, effectVars, others, resolverVars
<1>3. GroupFrame
    BY <1>2 DEF GroupFrame
<1>4. /\ SameReady /\ Coordinators' /\ Counted' /\ RegisteredOK' /\ DoneMeansApplied'
      /\ ~panicked'
    BY <1>3, GroupFrameFacts
<1>5. /\ CyclesKept /\ Collected' = Collected /\ Finishing' = Finishing
      /\ Held' = Held \cup (IF was = << >> THEN {} ELSE {<<c.of, b>>})
    BY <1>1, TakeGroupView DEF Typed
<1>6. b.range = r /\ b.txs = was /\ b.at = "record" /\ was \in Seq(Transaction)
    BY <1>1 DEF Typed
<1>7. /\ group_per_participant'[r] = << >>
      /\ \A q \in ParticipantRange : q # r => group_per_participant'[q] = group_per_participant[q]
      /\ group_per_participant' \in [ParticipantRange -> Seq(Transaction)]
    BY SMTT(30), <1>1, <1>2 DEF Typed
<1>8. Typed'
    BY <1>1, <1>2, <1>3, <1>5, <1>7 DEF Typed, GroupFrame, others, resolverVars, CyclesKept
<1>9. Range(<< >>) = {}
    BY SMTT(30) DEF Range
<1>. HIDE DEF b, was
<1>10. \A p \in Held' : p \in Held \/ p[2] = b
    BY SMTT(30), <1>5
<1>11. \A tx : \A q \in ParticipantRange :
          /\ InBatch(tx, q) => InBatch(tx, q)'
          /\ InBatch(tx, q)' => InBatch(tx, q) \/ (q = r /\ tx \in Range(was))
    BY <1>5, <1>6, <1>10 DEF InBatch
<1>12. \A tx, q : AppliedAt(tx, q)' <=> AppliedAt(tx, q)
    BY <1>2 DEF AppliedAt
<1>13. /\ IsInjective(was) /\ Queued(was, r)
       /\ \A tx \in Range(was) :
             Ready(tx) /\ r \in writes[tx] /\ ~InBatch(tx, r) /\ ~AppliedAt(tx, r)
    BY <1>1 DEF GroupsOK, AllReady, InOrder, was
<1>14. \A tx \in Transaction : Open(tx)' = Open(tx)
  <2>1. \A tx \in Transaction : writes[tx] \subseteq ParticipantRange
      BY <1>1 DEF Typed
  <2>. QED  BY <1>2, <1>11, <1>12, <1>13, <2>1 DEF Open
<1>15. HeldOK'
  <2>1. \A p \in Held : BatchOK(p[2])
      BY <1>1 DEF HeldOK
  <2>2. BatchOK(b)
      BY <1>6, <1>13 DEF BatchOK, AllReady
  <2>3. \A p \in Held' : BatchOK(p[2])
      BY <1>10, <2>1, <2>2
  <2>4. \A p \in Held' : BatchOK(p[2])'
      BY <1>2, <1>4, <1>12, <2>3 DEF BatchOK, AllReady, SameReady
  <2>5. \A p \in Held : p[2].range = r => Range(p[2].txs) \cap Range(was) = {}
      BY <1>13 DEF InBatch
  <2>6. ASSUME NEW p \in Held', NEW q \in Held', p[2].range = q[2].range,
               Range(p[2].txs) \cap Range(q[2].txs) # {}
        PROVE  p = q
    <3>1. CASE p \in Held /\ q \in Held
        BY <1>1, <2>6, <3>1 DEF HeldOK
    <3>2. CASE p \notin Held \/ q \notin Held
      <4>1. \A e \in Held' : e \in Held \/ e = <<c.of, b>>
          BY <1>5
      <4>2. p # q => (p \in Held /\ q[2] = b) \/ (q \in Held /\ p[2] = b)
          BY SMTT(30), <3>2, <4>1
      <4>. QED  BY <1>6, <2>5, <2>6, <4>2
    <3>. QED  BY <3>1, <3>2
  <2>. QED  BY <2>4, <2>6 DEF HeldOK
<1>16. AppliedOK'
    BY <1>1, <1>2, <1>4 DEF AppliedOK, SameReady
<1>17. GroupsOK'
  <2>1. ASSUME NEW q \in ParticipantRange
        PROVE  /\ IsInjective(group_per_participant'[q])
               /\ \A tx \in Range(group_per_participant'[q]) :
                     Ready(tx) /\ q \in writes[tx] /\ ~InBatch(tx, q)' /\ ~AppliedAt(tx, q)
    <3>1. CASE q = r
        BY SMTT(30), <1>7, <1>9, <3>1 DEF IsInjective
    <3>2. CASE q # r
        BY <1>1, <1>7, <1>11, <3>2 DEF GroupsOK, AllReady
    <3>. QED  BY <3>1, <3>2
  <2>. QED  BY <1>2, <1>4, <1>12, <2>1 DEF GroupsOK, AllReady, SameReady
<1>18. AddingOK'
  <2>1. ASSUME adding # None, NEW q \in adding.extend, NEW tx \in Range(adding.txs),
               q \in writes[tx]
        PROVE  ~InGroup(tx, q)' /\ ~InBatch(tx, q)' /\ ~AppliedAt(tx, q)'
    <3>1. ~InGroup(tx, q) /\ ~InBatch(tx, q) /\ ~AppliedAt(tx, q) /\ q \in ParticipantRange
        BY <1>1, <2>1, TypedFacts DEF AddingOK
    <3>2. ~InGroup(tx, q)'
        BY <1>7, <1>9, <3>1 DEF InGroup
    <3>. QED  BY <1>11, <1>12, <3>1, <3>2 DEF InGroup, was
  <2>. QED  BY <1>1, <1>2, <1>4, <1>5, <2>1 DEF AddingOK, AllReady, SameReady, CyclesKept
<1>19. InOrder'
  <2>0. \A s, q : Queued(s, q)' <=> Queued(s, q)
      BY <1>2, <1>12 DEF Queued
  <2>1. \A q \in ParticipantRange : \A s : s = group_per_participant'[q] => Queued(s, q)
    <3>1. Queued(<< >>, r)
        BY SMTT(30) DEF Queued
    <3>. QED  BY <1>1, <1>7, <3>1 DEF InOrder
  <2>2. adding' # None => \A q \in adding'.extend : \A s : s = adding'.txs => Queued(s, q)
      BY <1>1, <1>2 DEF InOrder
  <2>3. \A p \in Held' : Queued(p[2].txs, p[2].range)
      BY <1>1, <1>6, <1>10, <1>13 DEF InOrder
  <2>4. SoleDependencyFirst'
      BY SMTT(30), <1>1, <1>2 DEF InOrder, SoleDependencyFirst, Before
  <2>. QED  BY <2>0, <2>1, <2>2, <2>3, <2>4, QueuesNext
<1>20. \A tx \in Names' : Ready(tx)'
    BY <1>1, <1>4, <1>5 DEF CountsOK, SameReady, CyclesKept
<1>21. CountsOK' /\ FinishedOK' /\ HasSender'
    BY <1>1, <1>2, <1>4, <1>5, <1>14, <1>20, CountsFrame, SendersFrame
<1>. QED  BY <1>4, <1>5, <1>8, <1>15, <1>16, <1>17, <1>18, <1>19, <1>21 DEF IInv, CyclesKept

(* Batches end or are applied: that concerns no group and no call.         *)
LEMMA WaitingFrame ==
    ASSUME IInv, SameReady, UNCHANGED <<writes, depends, group_per_participant, adding>>,
           Names' \subseteq Names,
           \A tx \in Transaction : \A q \in ParticipantRange :
              /\ InBatch(tx, q)' => InBatch(tx, q)
              /\ AppliedAt(tx, q) => AppliedAt(tx, q)'
              /\ AppliedAt(tx, q)' => AppliedAt(tx, q) \/ InBatch(tx, q) \/ ~Ready(tx)
    PROVE  /\ AddingOK' /\ GroupsOK'
           /\ \A q \in ParticipantRange : \A s : Queued(s, q) => Queued(s, q)'
           /\ \A q \in ParticipantRange : \A s : s = group_per_participant'[q] => Queued(s, q)'
           /\ adding' # None => \A q \in adding'.extend : \A s : s = adding'.txs => Queued(s, q)'
<1>1. Typed /\ AddingOK /\ GroupsOK /\ InOrder
    BY DEF IInv
<1>2. \A tx \in Transaction : \A q \in ParticipantRange :
         Ready(tx) /\ ~InBatch(tx, q) /\ ~AppliedAt(tx, q) => ~InBatch(tx, q)' /\ ~AppliedAt(tx, q)'
    OBVIOUS
<1>3. \A tx, q : InGroup(tx, q)' <=> InGroup(tx, q)
    BY DEF InGroup
<1>4. /\ \A q \in ParticipantRange : Range(group_per_participant[q]) \subseteq Transaction
      /\ adding # None => adding.extend \subseteq ParticipantRange /\ Range(adding.txs) \subseteq Transaction
    BY <1>1, TypedFacts
<1>5. GroupsOK'
    BY <1>1, <1>2, <1>4 DEF GroupsOK, AllReady, SameReady
<1>6. AddingOK'
    BY <1>1, <1>2, <1>3, <1>4 DEF AddingOK, AllReady, SameReady
<1>7. \A q \in ParticipantRange : \A s : Queued(s, q) => Queued(s, q)'
    BY DEF Queued
<1>. QED  BY <1>1, <1>4, <1>5, <1>6, <1>7 DEF InOrder

(* The batch is recorded in the transaction state store.                   *)
LEMMA recordBatchIInv ==
    ASSUME IInv, NEW c \in cycles, NEW b \in c.batches, recordBatch(c, b), UNCHANGED others
    PROVE  IInv'
<1>. DEFINE old == <<c.of, b>>
            e == [b EXCEPT !.at = "apply"]
            new == <<c.of, e>>
<1>1. /\ Typed /\ CyclesOK /\ HeldOK /\ AppliedOK /\ CountsOK /\ FinishedOK /\ HasSender
      /\ InOrder
    BY DEF IInv
<1>2. /\ UNCHANGED <<writes, adding, group_per_participant, num_pending_participant_commits,
                     non_empty_groups, returned_transactions, applied>>
      /\ UNCHANGED <<depends, num_dependencies, waiting_transactions>>
      /\ committed' = committed \cup Range(b.txs)
      /\ b.at = "record" /\ BatchMoves(c, b, "apply")
    BY DEF recordBatch, others, resolverVars
<1>3. GroupFrame
    BY <1>2 DEF GroupFrame
<1>4. /\ SameReady /\ Coordinators' /\ Counted' /\ RegisteredOK' /\ DoneMeansApplied'
      /\ ~panicked'
    BY <1>3, GroupFrameFacts
<1>5. /\ CyclesKept /\ Collected' = Collected /\ Finishing' = Finishing
      /\ old \in Held /\ b \in Batch /\ Held' = (Held \ {old}) \cup {new}
    BY <1>1, <1>2, BatchMovesView DEF Typed
<1>6. e.range = b.range /\ e.txs = b.txs /\ e.at = "apply" /\ new[2] = e /\ old[2] = b
    BY <1>5 DEF Batch
<1>7. Range(b.txs) \subseteq Transaction
    BY <1>5, SeqFacts DEF Batch
<1>8. Typed'
    BY <1>1, <1>2, <1>3, <1>5, <1>7 DEF Typed, GroupFrame, others, resolverVars, CyclesKept
<1>. HIDE DEF old, new, e
<1>9. \A tx, q : (InBatch(tx, q)' <=> InBatch(tx, q)) /\ (AppliedAt(tx, q)' <=> AppliedAt(tx, q))
    BY <1>2, <1>5, <1>6 DEF InBatch, AppliedAt
<1>10. \A tx : Open(tx)' = Open(tx)
    BY <1>2, <1>9 DEF Open
<1>11. /\ AddingOK' /\ GroupsOK'
       /\ \A q \in ParticipantRange : \A s : Queued(s, q) => Queued(s, q)'
       /\ \A q \in ParticipantRange : \A s : s = group_per_participant'[q] => Queued(s, q)'
       /\ adding' # None => \A q \in adding'.extend : \A s : s = adding'.txs => Queued(s, q)'
    BY <1>2, <1>4, <1>5, <1>9, WaitingFrame DEF CyclesKept
<1>12. HeldOK'
  <2>1. \A p \in Held : BatchOK(p[2])
      BY <1>1 DEF HeldOK
  <2>2. \A d : BatchOK(d) => BatchOK(d)'
      BY <1>2, <1>4, <1>9 DEF BatchOK, AllReady, SameReady
  <2>3. BatchOK(e)'
    <3>1. BatchOK(b)
        BY <1>5, <1>6, <2>1
    <3>. QED  BY <1>2, <1>4, <1>6, <1>9, <3>1 DEF BatchOK, AllReady, SameReady
  <2>4. \A p \in Held' : BatchOK(p[2])'
      BY <1>5, <1>6, <2>1, <2>2, <2>3
  <2>5. ASSUME NEW p \in Held', NEW q \in Held', p[2].range = q[2].range,
               Range(p[2].txs) \cap Range(q[2].txs) # {}
        PROVE  p = q
    <3>. DEFINE like(x) == IF x = new THEN old ELSE x
    <3>1. \A x \in Held' : /\ like(x) \in Held /\ like(x)[2].range = x[2].range
                           /\ like(x)[2].txs = x[2].txs
        BY <1>5, <1>6
    <3>2. \A x \in Held' : x # new => x # old
        BY <1>5
    <3>3. like(p) = like(q)
        BY <1>1, <2>5, <3>1 DEF HeldOK
    <3>. QED  BY <3>2, <3>3
  <2>. QED  BY <2>4, <2>5 DEF HeldOK
<1>13. AppliedOK'
    BY <1>1, <1>2, <1>4 DEF AppliedOK, SameReady
<1>14. InOrder'
  <2>1. \A p \in Held' : p[2].range \in ParticipantRange
      BY <1>1, <1>5, <1>6, TypedFacts
  <2>2. \A p \in Held' : Queued(p[2].txs, p[2].range)
      BY <1>1, <1>5, <1>6 DEF InOrder
  <2>3. SoleDependencyFirst'
      BY SMTT(30), <1>1, <1>2 DEF InOrder, SoleDependencyFirst, Before
  <2>. QED  BY <1>11, <2>1, <2>2, <2>3, QueuesNext
<1>15. \A tx \in Names' : Ready(tx)'
    BY <1>1, <1>4, <1>5 DEF CountsOK, SameReady, CyclesKept
<1>16. CountsOK' /\ FinishedOK' /\ HasSender'
    BY <1>1, <1>2, <1>4, <1>5, <1>10, <1>15, CountsFrame, SendersFrame
<1>. QED  BY <1>4, <1>5, <1>8, <1>11, <1>12, <1>13, <1>14, <1>16 DEF IInv, CyclesKept

(* A range applies more transactions, behind those it has applied.         *)
LEMMA AppliedMore ==
    ASSUME IInv, NEW r \in ParticipantRange, NEW s \in Seq(Transaction),
           applied' = [applied EXCEPT ![r] = @ \o s], UNCHANGED <<writes, depends>>,
           Queued(s, r)
    PROVE  /\ applied' \in [ParticipantRange -> Seq(Transaction)]
           /\ applied'[r] = applied[r] \o s
           /\ \A q \in ParticipantRange : q # r => applied'[q] = applied[q]
           /\ \A q \in ParticipantRange : Range(applied[q]) \subseteq Range(applied'[q])
           /\ \A tx : \A q \in ParticipantRange :
                 AppliedAt(tx, q)' <=> (AppliedAt(tx, q) \/ (q = r /\ tx \in Range(s)))
           /\ SoleDependencyFirst'
<1>. DEFINE a == applied[r]
            u == a \o s
<1>1. applied \in [ParticipantRange -> Seq(Transaction)] /\ a \in Seq(Transaction)
    BY DEF IInv, Typed
<1>2. /\ applied'[r] = u /\ u \in Seq(Transaction)
      /\ \A q \in ParticipantRange : q # r => applied'[q] = applied[q]
      /\ applied' \in [ParticipantRange -> Seq(Transaction)]
    BY <1>1, ConcatFacts
<1>3. Range(u) = Range(a) \cup Range(s)
    BY ZenonT(60), <1>1, RangeConcat
<1>4. \A tx : \A q \in ParticipantRange :
         AppliedAt(tx, q)' <=> (AppliedAt(tx, q) \/ (q = r /\ tx \in Range(s)))
    BY <1>2, <1>3 DEF AppliedAt
<1>5. /\ DOMAIN a = 1..Len(a) /\ DOMAIN s = 1..Len(s) /\ Len(a) \in Nat /\ Len(s) \in Nat
      /\ DOMAIN u = 1..Len(u) /\ Len(u) \in Nat
      /\ \A i \in 1..Len(a) : i \in DOMAIN u /\ u[i] = a[i]
      /\ \A j \in 1..Len(s) : Len(a) + j \in DOMAIN u /\ u[Len(a) + j] = s[j]
      /\ \A i \in DOMAIN u : i \in 1..Len(a) \/ (i - Len(a) \in 1..Len(s) /\ u[i] = s[i - Len(a)])
    BY SMTT(30), <1>1, <1>2, ConcatFacts, SeqFacts
<1>. HIDE DEF u, a
<1>6. ASSUME NEW tx \in Transaction, NEW d \in Transaction, depends[tx] = {d}, r \in writes[d],
             NEW i \in DOMAIN u, u[i] = tx
      PROVE  \E j \in 1..(i - 1) : u[j] = d
  <2>1. CASE i \in 1..Len(a)
    <3>1. a[i] = tx
        BY <1>5, <1>6, <2>1
    <3>2. Before(d, tx, r)
        BY <1>6 DEF IInv, InOrder, SoleDependencyFirst
    <3>3. PICK j \in 1..(i - 1) : a[j] = d
        BY <2>1, <3>1, <3>2 DEF Before, a
    <3>4. j \in 1..Len(a)
        BY SMTT(30), <1>5, <2>1
    <3>. QED  BY <1>5, <3>3, <3>4
  <2>2. CASE i - Len(a) \in 1..Len(s) /\ u[i] = s[i - Len(a)]
    <3>1. AppliedAt(d, r) \/ \E j \in 1..((i - Len(a)) - 1) : s[j] = d
        BY <1>5, <1>6, <2>2 DEF Queued
    <3>2. CASE AppliedAt(d, r)
      <4>1. PICK j \in 1..Len(a) : a[j] = d
        <5>1. d \in Range(a)
            BY <3>2 DEF AppliedAt, a
        <5>2. \A x \in Range(a) : \E j \in DOMAIN a : a[j] = x
            BY Zenon DEF Range
        <5>. QED  BY <1>5, <5>1, <5>2
      <4>2. j \in 1..(i - 1)
          BY SMTT(30), <1>5, <2>2
      <4>. QED  BY <1>5, <4>1, <4>2
    <3>3. CASE \E j \in 1..((i - Len(a)) - 1) : s[j] = d
      <4>1. PICK j \in 1..((i - Len(a)) - 1) : s[j] = d
          BY <3>3
      <4>2. j \in 1..Len(s) /\ Len(a) + j \in 1..(i - 1)
          BY SMTT(30), <1>5, <2>2
      <4>. QED  BY <1>5, <4>1, <4>2
    <3>. QED  BY <3>1, <3>2, <3>3
  <2>. QED  BY <1>5, <2>1, <2>2
<1>7. SoleDependencyFirst'
  <2>1. ASSUME NEW tx \in Transaction, NEW d \in Transaction, depends[tx] = {d},
               NEW q \in writes[d]
        PROVE  \A i \in 1..Len(applied'[q]) : applied'[q][i] = tx =>
                  \E j \in 1..(i - 1) : applied'[q][j] = d
    <3>1. q \in ParticipantRange
        BY DEF IInv, Typed
    <3>2. CASE q = r
      <4>1. applied'[q] = u /\ DOMAIN u = 1..Len(u)
          BY <1>2, <1>5, <3>2
      <4>2. \A i \in DOMAIN u : u[i] = tx => \E j \in 1..(i - 1) : u[j] = d
          BY <1>6, <2>1, <3>2
      <4>. QED  BY <4>1, <4>2
    <3>3. CASE q # r
      <4>1. Before(d, tx, q)
          BY <2>1 DEF IInv, InOrder, SoleDependencyFirst
      <4>. QED  BY <1>2, <3>1, <3>3, <4>1 DEF Before
    <3>. QED  BY <3>2, <3>3
  <2>. QED  BY <2>1 DEF SoleDependencyFirst, Before
<1>8. \A q \in ParticipantRange : Range(applied[q]) \subseteq Range(applied'[q])
    BY <1>2, <1>3 DEF a
<1>. QED  BY <1>2, <1>4, <1>7, <1>8 DEF u, a

(* The range commits the batch: each transaction once, and after the only  *)
(* transaction it depends on.                                              *)
LEMMA applyBatchIInv ==
    ASSUME IInv, NEW c \in cycles, NEW b \in c.batches, applyBatch(c, b), UNCHANGED others
    PROVE  IInv'
<1>. DEFINE old == <<c.of, b>>
            e == [b EXCEPT !.at = "return"]
            new == <<c.of, e>>
            r == b.range
<1>1. /\ Typed /\ CyclesOK /\ HeldOK /\ AppliedOK /\ CountsOK /\ FinishedOK /\ HasSender
      /\ InOrder
    BY DEF IInv
<1>2. /\ UNCHANGED <<writes, adding, group_per_participant, num_pending_participant_commits,
                     non_empty_groups, returned_transactions, committed>>
      /\ UNCHANGED <<depends, num_dependencies, waiting_transactions>>
      /\ applied' = [applied EXCEPT ![r] = @ \o b.txs]
      /\ b.at = "apply" /\ BatchMoves(c, b, "return")
    BY DEF applyBatch, others, resolverVars
<1>3. /\ CyclesKept /\ Collected' = Collected /\ Finishing' = Finishing
      /\ old \in Held /\ b \in Batch /\ Held' = (Held \ {old}) \cup {new}
    BY <1>1, <1>2, BatchMovesView DEF Typed
<1>4. e.range = r /\ e.txs = b.txs /\ e.at = "return" /\ new[2] = e /\ old[2] = b
    BY <1>3 DEF Batch
<1>5. /\ b.txs \in Seq(Transaction) /\ r \in ParticipantRange
      /\ Range(b.txs) \subseteq Transaction
    BY <1>3, SeqFacts DEF Batch
<1>6. Queued(b.txs, r) /\ BatchOK(b)
    BY <1>1, <1>3, <1>4 DEF InOrder, HeldOK
<1>7. /\ applied' \in [ParticipantRange -> Seq(Transaction)]
      /\ applied'[r] = applied[r] \o b.txs
      /\ \A q \in ParticipantRange : q # r => applied'[q] = applied[q]
      /\ \A q \in ParticipantRange : Range(applied[q]) \subseteq Range(applied'[q])
      /\ \A tx : \A q \in ParticipantRange :
            AppliedAt(tx, q)' <=> (AppliedAt(tx, q) \/ (q = r /\ tx \in Range(b.txs)))
      /\ SoleDependencyFirst'
    BY <1>2, <1>5, <1>6, AppliedMore
<1>8. GroupFrame
    BY <1>2, <1>7 DEF GroupFrame
<1>9. /\ SameReady /\ Coordinators' /\ Counted' /\ RegisteredOK' /\ DoneMeansApplied'
      /\ ~panicked'
    BY <1>8, GroupFrameFacts
<1>10. Typed'
    BY <1>1, <1>2, <1>3, <1>7, <1>8 DEF Typed, GroupFrame, others, resolverVars, CyclesKept
<1>. HIDE DEF old, new, e, r
<1>11. \A tx, q : InBatch(tx, q)' <=> InBatch(tx, q)
    BY <1>3, <1>4 DEF InBatch, r
<1>12. \A tx \in Range(b.txs) : InBatch(tx, r) /\ Ready(tx) /\ r \in writes[tx]
                                /\ ~AppliedAt(tx, r) /\ tx \in committed
    BY <1>2, <1>3, <1>4, <1>6 DEF InBatch, BatchOK, AllReady, r
<1>13. \A tx \in Transaction : Open(tx)' = Open(tx)
  <2>1. \A tx \in Transaction : writes[tx] \subseteq ParticipantRange
      BY <1>1 DEF Typed
  <2>. QED  BY SMTT(30), <1>2, <1>7, <1>11, <1>12, <2>1 DEF Open
<1>14. /\ AddingOK' /\ GroupsOK'
       /\ \A q \in ParticipantRange : \A s : Queued(s, q) => Queued(s, q)'
       /\ \A q \in ParticipantRange : \A s : s = group_per_participant'[q] => Queued(s, q)'
       /\ adding' # None => \A q \in adding'.extend : \A s : s = adding'.txs => Queued(s, q)'
  <2>1. \A tx \in Transaction : \A q \in ParticipantRange :
           /\ InBatch(tx, q)' => InBatch(tx, q)
           /\ AppliedAt(tx, q) => AppliedAt(tx, q)'
           /\ AppliedAt(tx, q)' => AppliedAt(tx, q) \/ InBatch(tx, q) \/ ~Ready(tx)
      BY <1>7, <1>11, <1>12
  <2>. QED  BY <1>2, <1>3, <1>9, <2>1, WaitingFrame DEF CyclesKept
<1>15. HeldOK'
  <2>1. \A p \in Held : BatchOK(p[2])
      BY <1>1 DEF HeldOK
  <2>2. ASSUME NEW p \in Held, p # old PROVE BatchOK(p[2])'
    <3>1. BatchOK(p[2]) /\ p[2].range \in ParticipantRange
        BY <1>1, <2>1, TypedFacts
    <3>2. p[2].range = r => Range(p[2].txs) \cap Range(b.txs) = {}
        BY <1>1, <1>3, <1>4, <2>2 DEF HeldOK, r
    <3>3. \A tx \in Range(p[2].txs) : AppliedAt(tx, p[2].range)' <=> AppliedAt(tx, p[2].range)
        BY <1>7, <3>1, <3>2
    <3>. QED  BY <1>2, <1>9, <3>1, <3>3 DEF BatchOK, AllReady, SameReady
  <2>3. BatchOK(e)'
    <3>1. \A tx \in Range(b.txs) : AppliedAt(tx, r)'
        BY <1>5, <1>7 DEF r
    <3>. QED  BY <1>2, <1>4, <1>6, <1>9, <1>12, <3>1 DEF BatchOK, AllReady, SameReady
  <2>4. \A p \in Held' : BatchOK(p[2])'
      BY <1>3, <1>4, <2>2, <2>3
  <2>5. ASSUME NEW p \in Held', NEW q \in Held', p[2].range = q[2].range,
               Range(p[2].txs) \cap Range(q[2].txs) # {}
        PROVE  p = q
    <3>. DEFINE like(x) == IF x = new THEN old ELSE x
    <3>1. \A x \in Held' : /\ like(x) \in Held /\ like(x)[2].range = x[2].range
                           /\ like(x)[2].txs = x[2].txs
        BY <1>3, <1>4 DEF r
    <3>2. \A x \in Held' : x # new => x # old
        BY <1>3
    <3>3. like(p) = like(q)
        BY <1>1, <2>5, <3>1 DEF HeldOK
    <3>. QED  BY <3>2, <3>3
  <2>. QED  BY <2>4, <2>5 DEF HeldOK
<1>16. AppliedOK'
  <2>1. Range(applied[r]) \cap Range(b.txs) = {}
      BY <1>12 DEF AppliedAt
  <2>2. IsInjective(applied[r] \o b.txs)
    <3>1. IsInjective(applied[r]) /\ applied[r] \in Seq(Transaction) /\ IsInjective(b.txs)
        BY <1>1, <1>5, <1>6 DEF AppliedOK, Typed, BatchOK, r
    <3>. QED  BY <1>5, <2>1, <3>1, InjectiveConcat
  <2>3. \A q \in ParticipantRange : IsInjective(applied'[q])
      BY <1>1, <1>7, <2>2 DEF AppliedOK
  <2>4. \A q \in ParticipantRange : \A tx \in Range(applied'[q]) :
           tx \in committed /\ q \in writes[tx] /\ (depends[tx] = {} \/ Ready(tx))
    <3>1. \A q \in ParticipantRange : \A tx \in Range(applied'[q]) :
             AppliedAt(tx, q) \/ (q = r /\ tx \in Range(b.txs))
        BY <1>7 DEF AppliedAt
    <3>. QED  BY <1>1, <1>12, <3>1 DEF AppliedOK, AppliedAt
  <2>. QED  BY <1>2, <1>9, <2>3, <2>4 DEF AppliedOK, SameReady
<1>17. InOrder'
  <2>1. \A p \in Held' : p[2].range \in ParticipantRange
      BY <1>1, <1>3, <1>4, <1>5, TypedFacts DEF r
  <2>2. \A p \in Held' : Queued(p[2].txs, p[2].range)
      BY <1>1, <1>3, <1>4, <1>6 DEF InOrder
  <2>. QED  BY <1>7, <1>14, <2>1, <2>2, QueuesNext
<1>18. \A tx \in Names' : Ready(tx)'
    BY <1>1, <1>3, <1>9 DEF CountsOK, SameReady, CyclesKept
<1>19. CountsOK' /\ FinishedOK' /\ HasSender'
    BY <1>1, <1>2, <1>3, <1>9, <1>13, <1>18, CountsFrame, SendersFrame
<1>. QED  BY <1>3, <1>9, <1>10, <1>14, <1>15, <1>16, <1>17, <1>19 DEF IInv, CyclesKept

(* A batch is over.                                                        *)
LEMMA BatchGone ==
    ASSUME IInv, SameReady, CyclesKept, NEW old \in Held, Held' = Held \ {old},
           committed \subseteq committed',
           UNCHANGED <<writes, depends, adding, group_per_participant, applied>>
    PROVE  /\ HeldOK' /\ AppliedOK' /\ AddingOK' /\ GroupsOK' /\ InOrder'
           /\ \A tx, q : AppliedAt(tx, q)' <=> AppliedAt(tx, q)
           /\ \A tx, q : InBatch(tx, q)' <=>
                 InBatch(tx, q) /\ ~(q = old[2].range /\ tx \in Range(old[2].txs))
<1>1. Typed /\ HeldOK /\ AppliedOK /\ InOrder
    BY DEF IInv
<1>2. \A tx, q : AppliedAt(tx, q)' <=> AppliedAt(tx, q)
    BY DEF AppliedAt
<1>3. ASSUME NEW tx, NEW q
      PROVE  InBatch(tx, q)' <=>
                InBatch(tx, q) /\ ~(q = old[2].range /\ tx \in Range(old[2].txs))
    BY <1>1 DEF InBatch, HeldOK
<1>4. HeldOK'
  <2>1. \A b : BatchOK(b) => BatchOK(b)'
      BY <1>2 DEF BatchOK, AllReady, SameReady
  <2>. QED  BY <1>1, <2>1 DEF HeldOK
<1>5. AppliedOK'
    BY <1>1 DEF AppliedOK, SameReady
<1>6. /\ AddingOK' /\ GroupsOK'
      /\ \A q \in ParticipantRange : \A s : Queued(s, q) => Queued(s, q)'
      /\ \A q \in ParticipantRange : \A s : s = group_per_participant'[q] => Queued(s, q)'
      /\ adding' # None => \A q \in adding'.extend : \A s : s = adding'.txs => Queued(s, q)'
    BY <1>2, <1>3, WaitingFrame DEF CyclesKept
<1>7. InOrder'
  <2>1. \A p \in Held' : p[2].range \in ParticipantRange
      BY <1>1, TypedFacts
  <2>2. \A p \in Held' : Queued(p[2].txs, p[2].range)
      BY <1>1 DEF InOrder
  <2>3. SoleDependencyFirst'
      BY SMTT(30), <1>1 DEF InOrder, SoleDependencyFirst, Before
  <2>. QED  BY <1>6, <2>1, <2>2, <2>3, QueuesNext
<1>. QED  BY <1>2, <1>3, <1>4, <1>5, <1>6, <1>7

(* The state store or the range fails and the batch is lost.               *)
LEMMA failBatchIInv ==
    ASSUME IInv, NEW c \in cycles, NEW b \in c.batches, failBatch(c, b), UNCHANGED others
    PROVE  IInv'
<1>. DEFINE old == <<c.of, b>>
<1>1. Typed /\ CyclesOK /\ HeldOK /\ CountsOK /\ FinishedOK /\ HasSender
    BY DEF IInv
<1>2. /\ UNCHANGED <<writes, adding, group_per_participant, num_pending_participant_commits,
                     non_empty_groups, returned_transactions, applied>>
      /\ UNCHANGED <<depends, num_dependencies, waiting_transactions>>
      /\ committed \subseteq committed' /\ committed' \subseteq committed \cup Range(b.txs)
      /\ b.at # "return" /\ Becomes(c, [c EXCEPT !.batches = @ \ {b}])
    BY DEF failBatch, others, resolverVars
<1>3. /\ CyclesKept /\ Collected' = Collected /\ Finishing' = Finishing
      /\ old \in Held /\ b \in Batch /\ Held' = Held \ {old}
    BY <1>1, <1>2, BatchGoneView DEF Typed
<1>4. GroupFrame
    BY <1>2 DEF GroupFrame
<1>5. /\ SameReady /\ Coordinators' /\ Counted' /\ RegisteredOK' /\ DoneMeansApplied'
      /\ ~panicked'
    BY <1>4, GroupFrameFacts
<1>6. Typed'
  <2>1. Range(b.txs) \subseteq Transaction
      BY <1>3, SeqFacts DEF Batch
  <2>. QED  BY <1>1, <1>2, <1>3, <1>4, <2>1 DEF Typed, GroupFrame, others, resolverVars, CyclesKept
<1>7. old[2] = b
    OBVIOUS
<1>. HIDE DEF old
<1>8. /\ HeldOK' /\ AppliedOK' /\ AddingOK' /\ GroupsOK' /\ InOrder'
      /\ \A tx, q : AppliedAt(tx, q)' <=> AppliedAt(tx, q)
      /\ \A tx, q : InBatch(tx, q)' <=>
            InBatch(tx, q) /\ ~(q = b.range /\ tx \in Range(b.txs))
    BY <1>2, <1>3, <1>5, <1>7, BatchGone
<1>9. \A tx \in Transaction : Open(tx)' = Open(tx)
  <2>1. \A tx \in Range(b.txs) : ~AppliedAt(tx, b.range)
      BY <1>1, <1>2, <1>3, <1>7 DEF HeldOK, BatchOK
  <2>. QED  BY <1>2, <1>8, <2>1 DEF Open
<1>10. \A tx \in Names' : Ready(tx)'
    BY <1>1, <1>3, <1>5 DEF CountsOK, SameReady, CyclesKept
<1>11. CountsOK' /\ FinishedOK' /\ HasSender'
    BY <1>1, <1>2, <1>3, <1>5, <1>9, <1>10, CountsFrame, SendersFrame
<1>. QED  BY <1>3, <1>5, <1>6, <1>8, <1>11 DEF IInv, CyclesKept

(* The summands of the count of a transaction are numbers.                 *)
LEMMA CountTypes ==
    ASSUME Typed, NEW tx \in Transaction, CountOK(tx)
    PROVE  /\ IsFiniteSet(Open(tx)) /\ Cardinality(Open(tx)) \in Nat
           /\ (Cardinality(Open(tx)) = 0 <=> Open(tx) = {})
           /\ timesIn(tx, returned_transactions) \in Nat
           /\ Cardinality(Counting(tx)) \in Nat
           /\ num_pending_participant_commits[tx] \in Nat
<1>1. Open(tx) \in SUBSET ParticipantRange
    BY DEF Open, Typed
<1>2. IsFiniteSet(Open(tx))
    BY <1>1, GroupAssumption, FS_Subset
<1>3. Cardinality(Open(tx)) \in Nat /\ (Cardinality(Open(tx)) = 0 <=> Open(tx) = {})
    BY <1>2, FS_CardinalityType, FS_EmptySet
<1>4. timesIn(tx, returned_transactions) \in Nat
    BY TimesFacts DEF Typed
<1>5. Cardinality(Counting(tx)) \in Nat
    BY FS_CardinalityType DEF CountOK
<1>. QED  BY <1>2, <1>3, <1>4, <1>5 DEF Typed

(* A committed batch is appended to the returned transactions.             *)
LEMMA returnBatchIInv ==
    ASSUME IInv, NEW c \in cycles, NEW b \in c.batches, returnBatch(c, b), UNCHANGED others
    PROVE  IInv'
<1>. DEFINE old == <<c.of, b>>
<1>1. Typed /\ CyclesOK /\ HeldOK /\ CountsOK /\ FinishedOK /\ HasSender
    BY DEF IInv
<1>2. /\ UNCHANGED <<writes, adding, group_per_participant, num_pending_participant_commits,
                     non_empty_groups, committed, applied>>
      /\ UNCHANGED <<depends, num_dependencies, waiting_transactions>>
      /\ returned_transactions' = returned_transactions \o b.txs
      /\ b.at = "return" /\ Becomes(c, [c EXCEPT !.batches = @ \ {b}])
    BY DEF returnBatch, effectVars, others, resolverVars
<1>3. /\ CyclesKept /\ Collected' = Collected /\ Finishing' = Finishing
      /\ old \in Held /\ b \in Batch /\ Held' = Held \ {old}
    BY <1>1, <1>2, BatchGoneView DEF Typed
<1>4. GroupFrame
    BY <1>2 DEF GroupFrame
<1>5. /\ SameReady /\ Coordinators' /\ Counted' /\ RegisteredOK' /\ DoneMeansApplied'
      /\ ~panicked'
    BY <1>4, GroupFrameFacts
<1>6. /\ b.txs \in Seq(Transaction) /\ returned_transactions \in Seq(Transaction)
      /\ Range(b.txs) \subseteq Transaction /\ b.range \in ParticipantRange
    BY ZenonT(60), <1>1, <1>3, SeqFacts DEF Batch, Typed
<1>7. returned_transactions' \in Seq(Transaction)
    BY <1>2, <1>6, ConcatFacts
<1>8. Typed'
    BY <1>1, <1>2, <1>3, <1>4, <1>7 DEF Typed, GroupFrame, others, resolverVars, CyclesKept
<1>9. old[2] = b
    OBVIOUS
<1>. HIDE DEF old
<1>10. /\ HeldOK' /\ AppliedOK' /\ AddingOK' /\ GroupsOK' /\ InOrder'
       /\ \A tx, q : AppliedAt(tx, q)' <=> AppliedAt(tx, q)
       /\ \A tx, q : InBatch(tx, q)' <=>
             InBatch(tx, q) /\ ~(q = b.range /\ tx \in Range(b.txs))
    BY <1>2, <1>3, <1>5, <1>9, BatchGone
<1>11. BatchOK(b)
    BY <1>1, <1>3, <1>9 DEF HeldOK
<1>12. \A tx \in Range(b.txs) : /\ AppliedAt(tx, b.range) /\ b.range \in writes[tx] /\ Ready(tx)
                                /\ InBatch(tx, b.range)
    BY <1>2, <1>3, <1>9, <1>11 DEF BatchOK, AllReady, InBatch
<1>13. \A tx : Counting(tx)' = Counting(tx)
    BY <1>3 DEF Counting, Times
<1>14. ASSUME NEW tx \in Transaction PROVE CountOK(tx)'
  <2>1. CountOK(tx) /\ (Ready(tx)' <=> Ready(tx)) /\ Counting(tx)' = Counting(tx)
      BY <1>1, <1>5, <1>13 DEF CountsOK, SameReady
  <2>2. Open(tx)' = IF tx \in Range(b.txs) THEN Open(tx) \ {b.range} ELSE Open(tx)
      BY <1>2, <1>10, <1>12 DEF Open
  <2>3. timesIn(tx, returned_transactions) + (IF tx \in Range(b.txs) THEN 1 ELSE 0)
        = timesIn(tx, returned_transactions \o b.txs)
      BY <1>6, <1>11, TimesConcat DEF BatchOK
  <2>4. timesIn(tx, returned_transactions)' = timesIn(tx, returned_transactions \o b.txs)
      BY <1>2 DEF timesIn
  <2>5. /\ IsFiniteSet(Open(tx)) /\ Cardinality(Open(tx)) \in Nat
        /\ timesIn(tx, returned_transactions) \in Nat /\ Cardinality(Counting(tx)) \in Nat
      BY <1>1, <2>1, CountTypes
  <2>6. Cardinality(Open(tx)') = Cardinality(Open(tx)) - (IF tx \in Range(b.txs) THEN 1 ELSE 0)
    <3>1. CASE tx \in Range(b.txs)
      <4>1. b.range \in Open(tx)
          BY <1>12, <3>1 DEF Open
      <4>2. Open(tx)' = Open(tx) \ {b.range}
          BY <2>2, <3>1
      <4>3. Cardinality(Open(tx)') = Cardinality(Open(tx)) - 1
          BY <2>5, <4>1, <4>2, FS_RemoveElement
      <4>. QED  BY <3>1, <4>3
    <3>2. CASE tx \notin Range(b.txs)
        BY SMTT(30), <2>2, <2>5, <3>2
    <3>. QED  BY <3>1, <3>2
  <2>. QED  BY SMTT(30), <1>2, <2>1, <2>3, <2>4, <2>5, <2>6 DEF CountOK
<1>15. CountsOK'
  <2>1. AllReady(returned_transactions)'
    <3>1. Range(returned_transactions') = Range(returned_transactions) \cup Range(b.txs)
        BY SMTT(30), <1>2, <1>6, RangeConcat
    <3>. QED  BY <1>1, <1>5, <1>12, <3>1 DEF CountsOK, AllReady, SameReady
  <2>2. \A p \in Collected' \cup Finishing' : AllReady(p[2])'
      BY <1>1, <1>3, <1>5 DEF CountsOK, AllReady, SameReady
  <2>3. \A tx \in Names' : Ready(tx)'
      BY <1>1, <1>3, <1>5 DEF CountsOK, SameReady, CyclesKept
  <2>. QED  BY <1>14, <2>1, <2>2, <2>3 DEF CountsOK
<1>16. FinishedOK' /\ HasSender'
    BY <1>1, <1>2, <1>3, SendersFrame
<1>. QED  BY <1>3, <1>5, <1>8, <1>10, <1>15, <1>16 DEF IInv, CyclesKept

(* A cycle collects what has come back.                                    *)
LEMMA CountingMore ==
    ASSUME NEW n, NEW s \in Seq(Transaction), \A p \in Collected : p[1] # n,
           Collected' = Collected \cup {<<n, s>>}, NEW tx, IsFiniteSet(Counting(tx))
    PROVE  /\ IsFiniteSet(Counting(tx)')
           /\ Cardinality(Counting(tx)') = Cardinality(Counting(tx)) + timesIn(tx, s)
<1>. DEFINE more == {n} \X Times(tx, s)
<1>1. Counting(tx)' = Counting(tx) \cup more
  <2>1. Counting(tx)' = UNION {{p[1]} \X Times(tx, p[2]) : p \in Collected'}
      BY DEF Counting, Times
  <2>2. <<n, s>>[1] = n /\ <<n, s>>[2] = s
      OBVIOUS
  <2>. QED  BY <2>1, <2>2 DEF Counting
<1>2. Counting(tx) \cap more = {}
    BY SMTT(30) DEF Counting
<1>3. IsFiniteSet(Times(tx, s)) /\ timesIn(tx, s) = Cardinality(Times(tx, s)) /\ timesIn(tx, s) \in Nat
    BY TimesFacts
<1>4. IsFiniteSet(more) /\ Cardinality(more) = timesIn(tx, s)
  <2>1. IsFiniteSet({n}) /\ Cardinality({n}) = 1
      BY FS_Singleton
  <2>2. IsFiniteSet(more) /\ Cardinality(more) = 1 * timesIn(tx, s)
      BY SMTT(30), <1>3, <2>1, FS_Product
  <2>. QED  BY SMTT(30), <1>3, <2>2
<1>. HIDE DEF more
<1>5. /\ IsFiniteSet(Counting(tx) \cup more)
      /\ Cardinality(Counting(tx) \cup more) =
            Cardinality(Counting(tx)) + Cardinality(more) - Cardinality({})
    BY SMTT(30), <1>2, <1>4, FS_Union
<1>6. Cardinality(Counting(tx)) \in Nat /\ Cardinality({}) = 0
    BY FS_CardinalityType, FS_EmptySet
<1>. QED  BY SMTT(30), <1>1, <1>3, <1>4, <1>5, <1>6

(* A cycle takes all that has returned.                                    *)
LEMMA takeReturnedIInv ==
    ASSUME IInv, NEW c \in cycles, takeReturned(c), UNCHANGED others
    PROVE  IInv'
<1>1. Typed /\ CyclesOK /\ CountsOK /\ FinishedOK /\ HasSender
    BY DEF IInv
<1>2. /\ UNCHANGED <<writes, adding, group_per_participant, num_pending_participant_commits,
                     non_empty_groups, committed, applied>>
      /\ UNCHANGED <<depends, num_dependencies, waiting_transactions>>
      /\ returned_transactions' = << >>
    BY DEF takeReturned, effectVars, others, resolverVars
<1>3. GroupFrame
    BY <1>2 DEF GroupFrame
<1>4. /\ SameReady /\ Coordinators' /\ Counted' /\ RegisteredOK' /\ DoneMeansApplied'
      /\ ~panicked'
    BY <1>3, GroupFrameFacts
<1>5. /\ CyclesKept /\ Held' = Held /\ Finishing' = Finishing
      /\ \A p \in Collected : p[1] # c.of
      /\ Collected' = Collected \cup {<<c.of, returned_transactions>>}
      /\ returned_transactions \in Seq(Transaction)
    BY <1>1, TakeReturnedView DEF Typed
<1>6. Typed'
    BY SMTT(30), <1>1, <1>2, <1>3, <1>5 DEF Typed, GroupFrame, others, resolverVars, CyclesKept
<1>7. HeldOK' /\ AppliedOK' /\ \A tx : Open(tx)' = Open(tx)
    BY <1>2, <1>4, <1>5, PlacesFrame
<1>8. GroupsOK'
    BY <1>2, <1>4, <1>5, GroupsFrame
<1>9. AddingOK' /\ InOrder'
    BY <1>2, <1>4, <1>5, AddingFrame DEF CyclesKept
<1>10. Range(<< >>) = {}
    BY SMTT(30) DEF Range
<1>11. ASSUME NEW tx \in Transaction PROVE CountOK(tx)'
  <2>1. CountOK(tx) /\ (Ready(tx)' <=> Ready(tx)) /\ Open(tx)' = Open(tx)
      BY <1>1, <1>4, <1>7 DEF CountsOK, SameReady
  <2>2. /\ IsFiniteSet(Counting(tx)')
        /\ Cardinality(Counting(tx)') =
              Cardinality(Counting(tx)) + timesIn(tx, returned_transactions)
      BY <1>5, <2>1, CountingMore DEF CountOK
  <2>3. timesIn(tx, returned_transactions)' = 0
    <3>1. timesIn(tx, << >>) = 0
      <4>1. << >> \in Seq(Transaction) /\ tx \notin Range(<< >>)
          BY SMTT(30), <1>10
      <4>. QED  BY <4>1, TimesFacts
    <3>. QED  BY <1>2, <3>1 DEF timesIn
  <2>4. /\ Cardinality(Open(tx)) \in Nat
        /\ timesIn(tx, returned_transactions) \in Nat /\ Cardinality(Counting(tx)) \in Nat
      BY <1>1, <2>1, CountTypes
  <2>. QED  BY SMTT(30), <1>2, <2>1, <2>2, <2>3, <2>4 DEF CountOK
<1>12. CountsOK'
  <2>1. AllReady(returned_transactions)'
      BY <1>2, <1>10 DEF AllReady
  <2>2. \A p \in Collected' \cup Finishing' : AllReady(p[2])
      BY SMTT(30), <1>1, <1>5 DEF CountsOK
  <2>3. \A p \in Collected' \cup Finishing' : AllReady(p[2])'
      BY <1>4, <2>2 DEF AllReady, SameReady
  <2>4. \A tx \in Names' : Ready(tx)'
      BY <1>1, <1>4, <1>5 DEF CountsOK, SameReady, CyclesKept
  <2>. QED  BY <1>11, <2>1, <2>3, <2>4 DEF CountsOK
<1>13. FinishedOK' /\ HasSender'
    BY <1>1, <1>2, <1>5, SendersFrame
<1>. QED  BY <1>4, <1>5, <1>6, <1>7, <1>8, <1>9, <1>12, <1>13 DEF IInv, CyclesKept

(* What a cycle has collected is counted.                                  *)
LEMMA CountingLess ==
    ASSUME CyclesOK, NEW x \in Collected, x[2] \in Seq(Transaction),
           NEW tx, IsFiniteSet(Counting(tx))
    PROVE  /\ Collected' = Collected \ {x} =>
                 /\ IsFiniteSet(Counting(tx)')
                 /\ Cardinality(Counting(tx)') = Cardinality(Counting(tx)) - timesIn(tx, x[2])
           /\ timesIn(tx, x[2]) <= Cardinality(Counting(tx))
<1>. DEFINE less == {x[1]} \X Times(tx, x[2])
<1>1. less \subseteq Counting(tx)
    BY DEF Counting
<1>2. IsFiniteSet(Times(tx, x[2])) /\ timesIn(tx, x[2]) = Cardinality(Times(tx, x[2]))
      /\ timesIn(tx, x[2]) \in Nat
    BY TimesFacts
<1>3. IsFiniteSet(less) /\ Cardinality(less) = timesIn(tx, x[2])
  <2>1. IsFiniteSet({x[1]}) /\ Cardinality({x[1]}) = 1
      BY FS_Singleton
  <2>2. IsFiniteSet(less) /\ Cardinality(less) = 1 * timesIn(tx, x[2])
      BY SMTT(30), <1>2, <2>1, FS_Product
  <2>. QED  BY SMTT(30), <1>2, <2>2
<1>4. timesIn(tx, x[2]) <= Cardinality(Counting(tx))
  <2>. HIDE DEF less
  <2>. QED  BY <1>1, <1>3, FS_Subset
<1>5. ASSUME Collected' = Collected \ {x}
      PROVE  /\ IsFiniteSet(Counting(tx)')
             /\ Cardinality(Counting(tx)') = Cardinality(Counting(tx)) - timesIn(tx, x[2])
  <2>1. Counting(tx)' = UNION {{p[1]} \X Times(tx, p[2]) : p \in Collected'}
      BY DEF Counting, Times
  <2>2. \A p \in Collected' : ({p[1]} \X Times(tx, p[2])) \cap less = {}
      BY <1>5, CollectedApart
  <2>3. Counting(tx)' = Counting(tx) \ less
      BY <1>5, <2>1, <2>2 DEF Counting
  <2>. HIDE DEF less
  <2>4. Counting(tx) \cap less = less
      BY <1>1
  <2>5. IsFiniteSet(Counting(tx) \ less)
        /\ Cardinality(Counting(tx) \ less) = Cardinality(Counting(tx)) - Cardinality(Counting(tx) \cap less)
      BY FS_Difference
  <2>6. Cardinality(Counting(tx) \cap less) = timesIn(tx, x[2])
      BY <1>3, <2>4
  <2>. QED  BY <2>3, <2>5, <2>6
<1>. QED  BY <1>4, <1>5

(* A cycle subtracts what it has collected from the counts, none of which  *)
(* goes below zero, and keeps what reaches zero.                           *)
LEMMA collectFinishedIInv ==
    ASSUME IInv, NEW c \in cycles, collectFinished(c), UNCHANGED others
    PROVE  IInv'
<1>. DEFINE s == c.finished
            x == <<c.of, s>>
            done == finishedAmong(s)
            y == <<c.of, done>>
<1>1. Typed /\ CyclesOK /\ CountsOK /\ FinishedOK /\ HasSender
    BY DEF IInv
<1>2. /\ UNCHANGED <<writes, adding, group_per_participant, returned_transactions,
                     non_empty_groups, committed, applied>>
      /\ UNCHANGED <<depends, num_dependencies, waiting_transactions>>
      /\ num_pending_participant_commits' = [tx \in Transaction |-> countDown(tx, s)]
    BY DEF collectFinished, effectVars, others, resolverVars
<1>3. GroupFrame
    BY <1>2 DEF GroupFrame
<1>4. /\ SameReady /\ Coordinators' /\ Counted' /\ RegisteredOK' /\ DoneMeansApplied'
      /\ ~panicked'
    BY <1>3, GroupFrameFacts
<1>5. /\ CyclesKept /\ Held' = Held /\ s \in Seq(Transaction)
      /\ x \in Collected /\ Collected' = Collected \ {x} /\ Finishing' = Finishing \cup {y}
    BY <1>1, CollectView DEF Typed
<1>6. /\ done \in Seq(Transaction) /\ IsInjective(done)
      /\ Range(done) = {tx \in Range(s) : countDown(tx, s) = 0}
    BY <1>5, FinishedFacts
<1>7. x[2] = s /\ y[2] = done
    OBVIOUS
<1>. HIDE DEF x, y, done, s
<1>8. HeldOK' /\ AppliedOK' /\ \A tx : Open(tx)' = Open(tx)
    BY <1>2, <1>4, <1>5, PlacesFrame
<1>9. GroupsOK'
    BY <1>2, <1>4, <1>5, GroupsFrame
<1>10. AddingOK' /\ InOrder'
    BY <1>2, <1>4, <1>5, AddingFrame DEF CyclesKept
<1>11. ASSUME NEW tx \in Transaction
       PROVE  /\ CountOK(tx)' /\ num_pending_participant_commits'[tx] \in Nat
              /\ num_pending_participant_commits'[tx] <= num_pending_participant_commits[tx]
              /\ tx \in Range(s) => num_pending_participant_commits[tx] > 0
              /\ num_pending_participant_commits'[tx] = countDown(tx, s)
              /\ tx \notin Range(s) =>
                    num_pending_participant_commits'[tx] = num_pending_participant_commits[tx]
  <2>1. CountOK(tx) /\ (Ready(tx)' <=> Ready(tx)) /\ Open(tx)' = Open(tx)
      BY <1>1, <1>4, <1>8 DEF CountsOK, SameReady
  <2>2. /\ IsFiniteSet(Counting(tx)')
        /\ Cardinality(Counting(tx)') = Cardinality(Counting(tx)) - timesIn(tx, s)
        /\ timesIn(tx, s) <= Cardinality(Counting(tx))
      BY <1>1, <1>5, <1>7, <2>1, CountingLess DEF CountOK
  <2>3. timesIn(tx, returned_transactions)' = timesIn(tx, returned_transactions)
      BY <1>2 DEF timesIn
  <2>4. /\ Cardinality(Open(tx)) \in Nat
        /\ timesIn(tx, returned_transactions) \in Nat /\ Cardinality(Counting(tx)) \in Nat
        /\ num_pending_participant_commits[tx] \in Nat
      BY <1>1, <2>1, CountTypes
  <2>5. timesIn(tx, s) \in Nat /\ (timesIn(tx, s) = 0 <=> tx \notin Range(s))
      BY <1>5, TimesFacts
  <2>6. /\ num_pending_participant_commits'[tx] = countDown(tx, s)
        /\ num_pending_participant_commits'[tx] =
              num_pending_participant_commits[tx] - timesIn(tx, s)
      BY <1>2 DEF countDown
  <2>7. CASE Ready(tx)
    <3>1. num_pending_participant_commits[tx] =
             Cardinality(Open(tx)) + timesIn(tx, returned_transactions) + Cardinality(Counting(tx))
        BY <2>1, <2>7 DEF CountOK
    <3>2. CountOK(tx)'
        BY SMTT(30), <2>1, <2>2, <2>3, <2>4, <2>5, <2>6, <2>7, <3>1 DEF CountOK
    <3>. QED  BY SMTT(30), <2>2, <2>4, <2>5, <2>6, <3>1, <3>2
  <2>8. CASE ~Ready(tx)
    <3>1. tx \notin Range(s)
        BY <1>1, <1>5, <1>7, <2>8 DEF CountsOK, AllReady
    <3>2. num_pending_participant_commits'[tx] = num_pending_participant_commits[tx]
        BY SMTT(30), <2>4, <2>5, <2>6, <3>1
    <3>3. CountOK(tx)'
        BY <2>1, <2>2, <2>8, <3>2 DEF CountOK
    <3>. QED  BY SMTT(30), <2>4, <2>6, <3>1, <3>2, <3>3
  <2>. QED  BY <2>7, <2>8
<1>12. num_pending_participant_commits' \in [Transaction -> Nat]
    BY <1>2, <1>11
<1>13. Typed'
    BY <1>1, <1>2, <1>3, <1>5, <1>12 DEF Typed, GroupFrame, others, resolverVars, CyclesKept
<1>14. Range(s) \subseteq Transaction /\ AllReady(s)
    BY <1>1, <1>5, <1>7, SeqFacts DEF CountsOK
<1>15. CountsOK'
  <2>1. AllReady(returned_transactions)'
      BY <1>1, <1>2, <1>4 DEF CountsOK, AllReady, SameReady
  <2>2. AllReady(done)
      BY <1>6, <1>14 DEF AllReady
  <2>3. \A p \in Collected' \cup Finishing' : AllReady(p[2])
      BY <1>1, <1>5, <1>7, <2>2 DEF CountsOK
  <2>4. \A p \in Collected' \cup Finishing' : AllReady(p[2])'
      BY <1>4, <2>3 DEF AllReady, SameReady
  <2>5. \A tx \in Names' : Ready(tx)'
      BY <1>1, <1>4, <1>5 DEF CountsOK, SameReady, CyclesKept
  <2>. QED  BY <1>11, <2>1, <2>4, <2>5 DEF CountsOK
<1>16. \A p \in Finishing : Range(p[2]) \subseteq Transaction
    BY <1>1, TypedFacts
<1>17. FinishedOK'
  <2>1. \A p \in Finishing : /\ IsInjective(p[2])
                             /\ \A tx \in Range(p[2]) : num_pending_participant_commits[tx] = 0
      BY <1>1 DEF FinishedOK
  <2>2. \A p \in Finishing : \A tx \in Range(p[2]) : num_pending_participant_commits'[tx] = 0
    <3>1. ASSUME NEW tx \in Transaction, num_pending_participant_commits[tx] = 0
          PROVE  num_pending_participant_commits'[tx] = 0
        BY SMTT(30), <1>11, <3>1
    <3>. QED  BY <1>16, <2>1, <3>1
  <2>3. \A tx \in Range(done) : num_pending_participant_commits'[tx] = 0
      BY <1>6, <1>11, <1>14
  <2>4. \A p \in Finishing : Range(p[2]) \cap Range(done) = {}
    <3>1. \A tx \in Range(done) : num_pending_participant_commits[tx] > 0
        BY <1>6, <1>11, <1>14
    <3>. QED  BY SMTT(30), <2>1, <3>1
  <2>5. \A p \in Finishing' : /\ IsInjective(p[2])
                              /\ \A tx \in Range(p[2]) : num_pending_participant_commits'[tx] = 0
      BY <1>5, <1>6, <1>7, <2>1, <2>2, <2>3
  <2>6. \A p, q \in Finishing' : Range(p[2]) \cap Range(q[2]) # {} => p = q
      BY <1>1, <1>5, <1>7, <2>4 DEF FinishedOK
  <2>. QED  BY <2>5, <2>6 DEF FinishedOK
<1>18. HasSender'
  <2>1. ASSUME NEW tx \in Transaction,
               \/ num_dependencies[tx] > 0
               \/ num_pending_participant_commits'[tx] > 0
               \/ \E p \in Finishing' : tx \in Range(p[2])
        PROVE  tx \in waiting_transactions
    <3>1. CASE num_dependencies[tx] > 0
        BY <1>1, <3>1 DEF HasSender
    <3>2. CASE num_pending_participant_commits'[tx] > 0
      <4>1. num_pending_participant_commits[tx] > 0
          BY <1>11, <1>1, <3>2 DEF Typed
      <4>. QED  BY <1>1, <4>1 DEF HasSender
    <3>3. CASE \E p \in Finishing' : tx \in Range(p[2])
      <4>1. CASE \E p \in Finishing : tx \in Range(p[2])
          BY <1>1, <4>1 DEF HasSender
      <4>2. CASE tx \in Range(done)
        <5>1. num_pending_participant_commits[tx] > 0
            BY <1>6, <1>11, <4>2
        <5>. QED  BY <1>1, <5>1 DEF HasSender
      <4>. QED  BY <1>5, <1>7, <3>3, <4>1, <4>2
    <3>. QED  BY <2>1, <3>1, <3>2, <3>3
  <2>. QED  BY <1>2, <2>1 DEF HasSender
<1>. QED  BY <1>4, <1>5, <1>8, <1>9, <1>10, <1>13, <1>15, <1>17, <1>18 DEF IInv, CyclesKept

---------------------------------------------------------------------------
(* The coordinators *)

(* Steps that move no transaction in the group commit or the resolver      *)
LEMMA StillFrame ==
    ASSUME IInv, SameReady,
           UNCHANGED <<writes, depends, adding, group_per_participant, applied,
                       num_pending_participant_commits, returned_transactions,
                       num_dependencies, dependents>>,
           committed \subseteq committed', Names' \subseteq Names, Held' = Held,
           Collected' = Collected, Finishing' \subseteq Finishing
    PROVE  /\ Counted' /\ AddingOK' /\ GroupsOK' /\ HeldOK' /\ AppliedOK' /\ InOrder'
           /\ CountsOK' /\ FinishedOK'
<1>1. Typed /\ Counted /\ CountsOK /\ FinishedOK
    BY DEF IInv
<1>2. HeldOK' /\ AppliedOK' /\ \A tx : Open(tx)' = Open(tx)
    BY PlacesFrame
<1>3. GroupsOK'
    BY GroupsFrame
<1>4. AddingOK' /\ InOrder'
    BY AddingFrame
<1>5. \A tx \in Names' : Ready(tx)'
    BY <1>1 DEF CountsOK, SameReady
<1>6. CountsOK'
    BY <1>1, <1>2, <1>5, CountsFrame
<1>7. FinishedOK'
    BY <1>1 DEF FinishedOK
<1>8. Counted'
    BY <1>1 DEF Counted, Holders, SameReady
<1>. QED  BY <1>2, <1>3, <1>4, <1>6, <1>7, <1>8

(* A transaction without dependencies is recorded.                         *)
LEMMA directRecordIInv ==
    ASSUME IInv, NEW tx \in Transaction, directRecord(tx)
    PROVE  IInv'
<1>1. Typed /\ CyclesOK /\ HasSender /\ Coordinators /\ RegisteredOK /\ DoneMeansApplied /\ ~panicked
    BY DEF IInv
<1>2. /\ coordinator[tx] = "prepared" /\ depends[tx] = {}
      /\ committed' = committed \cup {tx}
      /\ coordinator' = [coordinator EXCEPT ![tx] = "committing"]
      /\ UNCHANGED <<writes, depends, adding, group_per_participant,
                     num_pending_participant_commits, non_empty_groups, returned_transactions,
                     cycles, applied, num_dependencies, dependents, resolved_transactions,
                     waiting_transactions, registering, panicked>>
    BY DEF directRecord, CoordinatorGoes, groupVars, resolverVars
<1>3. SameReady
    BY SMTT(30), <1>2 DEF SameReady, Ready, Submitted
<1>4. CyclesKept /\ Held' = Held /\ Collected' = Collected /\ Finishing' = Finishing
    BY <1>1, <1>2, SameCycles
<1>5. /\ Counted' /\ AddingOK' /\ GroupsOK' /\ HeldOK' /\ AppliedOK' /\ InOrder'
      /\ CountsOK' /\ FinishedOK'
    BY <1>2, <1>3, <1>4, StillFrame DEF CyclesKept
<1>6. Typed'
    BY <1>1, <1>2 DEF Typed
<1>7. HasSender'
    BY <1>1, <1>2, <1>4 DEF HasSender
<1>8. Coordinators'
    BY <1>1, <1>2 DEF Coordinators, Typed
<1>9. RegisteredOK'
    BY <1>1, <1>2 DEF RegisteredOK, AppliedEverywhere, AppliedAt
<1>10. DoneMeansApplied'
    BY <1>1, <1>2 DEF DoneMeansApplied, Typed
<1>. QED  BY <1>1, <1>2, <1>4, <1>5, <1>6, <1>7, <1>8, <1>9, <1>10 DEF IInv, CyclesKept

(* A directly committed transaction is registered with the resolver.       *)
LEMMA directRegisterIInv ==
    ASSUME IInv, NEW tx \in Transaction, directRegister(tx)
    PROVE  IInv'
<1>1. Typed /\ CyclesOK /\ HasSender /\ Coordinators /\ RegisteredOK /\ DoneMeansApplied /\ ~panicked
    BY DEF IInv
<1>2. /\ coordinator[tx] = "committing" /\ \A r \in writes[tx] : tx \in Range(applied[r])
      /\ registering' = registering \cup {<<tx>>}
      /\ coordinator' = [coordinator EXCEPT ![tx] = "done"]
      /\ UNCHANGED <<writes, depends, adding, group_per_participant,
                     num_pending_participant_commits, non_empty_groups, returned_transactions,
                     cycles, committed, applied, num_dependencies, dependents,
                     resolved_transactions, waiting_transactions, panicked>>
    BY DEF directRegister, CoordinatorGoes, groupVars, effectVars, resolverVars
<1>3. depends[tx] = {} /\ tx \in committed
    BY <1>1, <1>2 DEF Coordinators
<1>4. SameReady
    BY SMTT(30), <1>2, <1>3 DEF SameReady, Ready, Submitted
<1>5. CyclesKept /\ Held' = Held /\ Collected' = Collected /\ Finishing' = Finishing
    BY <1>1, <1>2, SameCycles
<1>6. /\ Counted' /\ AddingOK' /\ GroupsOK' /\ HeldOK' /\ AppliedOK' /\ InOrder'
      /\ CountsOK' /\ FinishedOK'
    BY <1>2, <1>4, <1>5, StillFrame DEF CyclesKept
<1>7. <<tx>> \in Seq(Transaction) /\ Range(<<tx>>) = {tx}
    BY SMTT(30) DEF Range
<1>8. Typed'
    BY <1>1, <1>2, <1>7 DEF Typed
<1>9. HasSender'
    BY <1>1, <1>2, <1>5 DEF HasSender
<1>10. Coordinators'
    BY <1>1, <1>2 DEF Coordinators, Typed
<1>11. RegisteredOK'
    BY SMTT(30), <1>1, <1>2, <1>7 DEF RegisteredOK, AppliedEverywhere, AppliedAt
<1>12. DoneMeansApplied'
    BY <1>1, <1>2, <1>3 DEF DoneMeansApplied, Typed
<1>. QED  BY <1>1, <1>2, <1>5, <1>6, <1>8, <1>9, <1>10, <1>11, <1>12 DEF IInv, CyclesKept

(* A transaction without writes is resolved at once.                       *)
LEMMA commitReadOnlyIInv ==
    ASSUME IInv, NEW tx \in Transaction, commitReadOnly(tx)
    PROVE  IInv'
<1>1. Typed /\ CyclesOK /\ HasSender /\ Coordinators /\ RegisteredOK /\ DoneMeansApplied /\ ~panicked
    BY DEF IInv
<1>2. /\ writes[tx] = {}
      /\ coordinator' = [coordinator EXCEPT ![tx] = "done"]
      /\ UNCHANGED <<writes, depends, adding, group_per_participant,
                     num_pending_participant_commits, non_empty_groups, returned_transactions,
                     cycles, committed, applied, num_dependencies, dependents,
                     resolved_transactions, waiting_transactions, registering, panicked>>
    BY DEF commitReadOnly, CoordinatorGoes, groupVars, effectVars, resolverVars
<1>3. SameReady
    BY SMTT(30), <1>2 DEF SameReady, Ready, Submitted
<1>4. CyclesKept /\ Held' = Held /\ Collected' = Collected /\ Finishing' = Finishing
    BY <1>1, <1>2, SameCycles
<1>5. /\ Counted' /\ AddingOK' /\ GroupsOK' /\ HeldOK' /\ AppliedOK' /\ InOrder'
      /\ CountsOK' /\ FinishedOK'
    BY <1>2, <1>3, <1>4, StillFrame DEF CyclesKept
<1>6. Typed'
    BY <1>1, <1>2 DEF Typed
<1>7. HasSender'
    BY <1>1, <1>2, <1>4 DEF HasSender
<1>8. Coordinators'
    BY <1>1, <1>2 DEF Coordinators, Typed
<1>9. RegisteredOK'
    BY <1>1, <1>2 DEF RegisteredOK, AppliedEverywhere, AppliedAt
<1>10. DoneMeansApplied'
    BY <1>1, <1>2 DEF DoneMeansApplied, Typed
<1>. QED  BY <1>1, <1>2, <1>4, <1>5, <1>6, <1>7, <1>8, <1>9, <1>10 DEF IInv, CyclesKept

(* A coordinator stops waiting.                                            *)
LEMMA giveUpIInv ==
    ASSUME IInv, NEW tx \in Transaction, giveUp(tx)
    PROVE  IInv'
<1>1. Typed /\ CyclesOK /\ HasSender /\ Coordinators /\ RegisteredOK /\ DoneMeansApplied /\ ~panicked
    BY DEF IInv
<1>2. /\ coordinator[tx] = "waiting"
      /\ coordinator' = [coordinator EXCEPT ![tx] = "gone"]
      /\ UNCHANGED <<writes, depends, adding, group_per_participant,
                     num_pending_participant_commits, non_empty_groups, returned_transactions,
                     cycles, committed, applied, num_dependencies, dependents,
                     resolved_transactions, waiting_transactions, registering, panicked>>
    BY DEF giveUp, CoordinatorGoes, groupVars, effectVars, resolverVars
<1>3. SameReady
  <2>1. /\ coordinator'[tx] = "gone"
        /\ \A t \in Transaction : t # tx => coordinator'[t] = coordinator[t]
      BY <1>1, <1>2 DEF Typed
  <2>. QED  BY <1>2, <2>1 DEF SameReady, Ready, Submitted
<1>4. CyclesKept /\ Held' = Held /\ Collected' = Collected /\ Finishing' = Finishing
    BY <1>1, <1>2, SameCycles
<1>5. /\ Counted' /\ AddingOK' /\ GroupsOK' /\ HeldOK' /\ AppliedOK' /\ InOrder'
      /\ CountsOK' /\ FinishedOK'
    BY <1>2, <1>3, <1>4, StillFrame DEF CyclesKept
<1>6. Typed'
    BY <1>1, <1>2 DEF Typed
<1>7. HasSender'
    BY <1>1, <1>2, <1>4 DEF HasSender
<1>8. Coordinators'
    BY <1>1, <1>2 DEF Coordinators, Typed
<1>9. RegisteredOK'
    BY <1>1, <1>2 DEF RegisteredOK, AppliedEverywhere, AppliedAt
<1>10. DoneMeansApplied'
    BY <1>1, <1>2 DEF DoneMeansApplied, Typed
<1>. QED  BY <1>1, <1>2, <1>4, <1>5, <1>6, <1>7, <1>8, <1>9, <1>10 DEF IInv, CyclesKept

(* A range applies a transaction that did not go through the resolver.     *)
LEMMA directApplyIInv ==
    ASSUME IInv, NEW t \in Transaction, NEW r \in ParticipantRange, directApply(t, r)
    PROVE  IInv'
<1>1. /\ Typed /\ CyclesOK /\ HeldOK /\ AppliedOK /\ CountsOK /\ FinishedOK /\ HasSender
      /\ InOrder /\ Coordinators
    BY DEF IInv
<1>2. /\ coordinator[t] = "committing" /\ r \in writes[t] /\ t \notin Range(applied[r])
      /\ applied' = [applied EXCEPT ![r] = Append(@, t)]
      /\ UNCHANGED others
      /\ UNCHANGED <<writes, depends, adding, group_per_participant,
                     num_pending_participant_commits, non_empty_groups, returned_transactions,
                     cycles, committed, num_dependencies, waiting_transactions>>
    BY DEF directApply, groupVars, resolverVars, others
<1>3. depends[t] = {} /\ t \in committed
    BY <1>1, <1>2 DEF Coordinators
<1>4. ~Ready(t)
    BY <1>3 DEF Ready, Submitted
<1>5. <<t>> \in Seq(Transaction) /\ Range(<<t>>) = {t} /\ IsInjective(<<t>>)
    BY SMTT(30) DEF Range, IsInjective
<1>6. applied[r] \in Seq(Transaction) /\ Append(applied[r], t) = applied[r] \o <<t>>
    BY SMTT(30), <1>1 DEF Typed
<1>7. applied' = [applied EXCEPT ![r] = @ \o <<t>>]
    BY <1>2, <1>6
<1>8. Queued(<<t>>, r)
    BY SMTT(30), <1>3 DEF Queued
<1>. DEFINE s == <<t>>
<1>. HIDE DEF s
<1>9. /\ applied' \in [ParticipantRange -> Seq(Transaction)]
      /\ applied'[r] = applied[r] \o s
      /\ \A q \in ParticipantRange : q # r => applied'[q] = applied[q]
      /\ \A q \in ParticipantRange : Range(applied[q]) \subseteq Range(applied'[q])
      /\ \A tx : \A q \in ParticipantRange :
            AppliedAt(tx, q)' <=> (AppliedAt(tx, q) \/ (q = r /\ tx \in Range(s)))
      /\ SoleDependencyFirst'
  <2>1. applied' = [applied EXCEPT ![r] = @ \o s] /\ s \in Seq(Transaction) /\ Queued(s, r)
      BY <1>5, <1>7, <1>8 DEF s
  <2>. QED  BY <1>2, <2>1, AppliedMore
<1>10. \A tx : \A q \in ParticipantRange :
          AppliedAt(tx, q)' <=> (AppliedAt(tx, q) \/ (q = r /\ tx = t))
    BY <1>5, <1>9 DEF s
<1>11. GroupFrame
    BY <1>2, <1>9 DEF GroupFrame
<1>12. /\ SameReady /\ Coordinators' /\ Counted' /\ RegisteredOK' /\ DoneMeansApplied'
      /\ ~panicked'
    BY <1>11, GroupFrameFacts
<1>13. CyclesKept /\ Held' = Held /\ Collected' = Collected /\ Finishing' = Finishing
    BY <1>1, <1>2, SameCycles
<1>14. Typed'
    BY <1>1, <1>2, <1>9, <1>11, <1>13 DEF Typed, GroupFrame, others, resolverVars, CyclesKept
<1>15. \A tx, q : InBatch(tx, q)' <=> InBatch(tx, q)
    BY <1>13 DEF InBatch
<1>16. \A tx \in Transaction : Ready(tx) => Open(tx)' = Open(tx)
  <2>1. \A tx \in Transaction : writes[tx] \subseteq ParticipantRange
      BY <1>1 DEF Typed
  <2>. QED  BY <1>2, <1>4, <1>10, <1>15, <2>1 DEF Open
<1>17. /\ AddingOK' /\ GroupsOK'
       /\ \A q \in ParticipantRange : \A u : Queued(u, q) => Queued(u, q)'
       /\ \A q \in ParticipantRange : \A u : u = group_per_participant'[q] => Queued(u, q)'
       /\ adding' # None => \A q \in adding'.extend : \A u : u = adding'.txs => Queued(u, q)'
  <2>1. \A tx \in Transaction : \A q \in ParticipantRange :
           /\ InBatch(tx, q)' => InBatch(tx, q)
           /\ AppliedAt(tx, q) => AppliedAt(tx, q)'
           /\ AppliedAt(tx, q)' => AppliedAt(tx, q) \/ InBatch(tx, q) \/ ~Ready(tx)
      BY <1>4, <1>10, <1>15
  <2>. QED  BY <1>2, <1>12, <1>13, <2>1, WaitingFrame DEF CyclesKept
<1>18. HeldOK'
  <2>1. ASSUME NEW p \in Held PROVE BatchOK(p[2])'
    <3>1. BatchOK(p[2]) /\ p[2].range \in ParticipantRange
        BY <1>1, TypedFacts DEF HeldOK
    <3>2. \A tx \in Range(p[2].txs) : AppliedAt(tx, p[2].range)' <=> AppliedAt(tx, p[2].range)
        BY <1>4, <1>10, <3>1 DEF BatchOK, AllReady
    <3>. QED  BY <1>2, <1>12, <3>1, <3>2 DEF BatchOK, AllReady, SameReady
  <2>. QED  BY <1>1, <1>13, <2>1 DEF HeldOK
<1>19. AppliedOK'
  <2>1. Range(applied[r]) \cap Range(s) = {} /\ IsInjective(s) /\ s \in Seq(Transaction)
      BY <1>2, <1>5 DEF s
  <2>2. IsInjective(applied[r] \o s)
      BY <1>1, <1>6, <2>1, InjectiveConcat DEF AppliedOK
  <2>3. \A q \in ParticipantRange : IsInjective(applied'[q])
      BY <1>1, <1>9, <2>2 DEF AppliedOK
  <2>4. \A q \in ParticipantRange : \A tx \in Range(applied'[q]) :
           tx \in committed /\ q \in writes[tx] /\ (depends[tx] = {} \/ Ready(tx))
    <3>1. \A q \in ParticipantRange : \A tx \in Range(applied'[q]) :
             AppliedAt(tx, q) \/ (q = r /\ tx = t)
        BY <1>10 DEF AppliedAt
    <3>. QED  BY <1>1, <1>2, <1>3, <3>1 DEF AppliedOK, AppliedAt
  <2>. QED  BY <1>2, <1>12, <2>3, <2>4 DEF AppliedOK, SameReady
<1>20. InOrder'
  <2>1. \A p \in Held' : p[2].range \in ParticipantRange
      BY <1>1, <1>13, TypedFacts
  <2>2. \A p \in Held' : Queued(p[2].txs, p[2].range)
      BY <1>1, <1>13 DEF InOrder
  <2>. QED  BY <1>9, <1>17, <2>1, <2>2, QueuesNext
<1>21. \A tx \in Names' : Ready(tx)'
    BY <1>1, <1>12, <1>13 DEF CountsOK, SameReady, CyclesKept
<1>22. CountsOK' /\ FinishedOK' /\ HasSender'
    BY <1>1, <1>2, <1>12, <1>13, <1>16, <1>21, CountsFrame, SendersFrame
<1>. QED  BY <1>12, <1>13, <1>14, <1>17, <1>18, <1>19, <1>20, <1>22 DEF IInv, CyclesKept

---------------------------------------------------------------------------
(* The resolver *)

(* A transaction that has been counted down to zero is committed.          *)
LEMMA FinishedApplied ==
    ASSUME IInv, NEW p \in Finishing, NEW tx \in Range(p[2])
    PROVE  /\ tx \in Transaction /\ Ready(tx) /\ AppliedEverywhere(tx)
           /\ \A r \in writes[tx] : tx \in committed
           /\ tx \in waiting_transactions
<1>1. Typed /\ CountsOK /\ FinishedOK /\ HasSender /\ AppliedOK
    BY DEF IInv
<1>2. tx \in Transaction
    BY <1>1, TypedFacts
<1>3. Ready(tx) /\ CountOK(tx) /\ num_pending_participant_commits[tx] = 0
    BY <1>1, <1>2 DEF CountsOK, AllReady, FinishedOK
<1>4. /\ (Cardinality(Open(tx)) = 0 <=> Open(tx) = {}) /\ Cardinality(Open(tx)) \in Nat
      /\ timesIn(tx, returned_transactions) \in Nat /\ Cardinality(Counting(tx)) \in Nat
    BY <1>1, <1>2, <1>3, CountTypes
<1>5. Cardinality(Open(tx)) + timesIn(tx, returned_transactions) + Cardinality(Counting(tx)) = 0
    BY <1>3 DEF CountOK
<1>6. Cardinality(Open(tx)) = 0
    BY SMTT(30), <1>4, <1>5
<1>7. AppliedEverywhere(tx)
    BY <1>4, <1>6 DEF Open, AppliedEverywhere
<1>8. \A r \in writes[tx] : tx \in committed
    BY <1>1, <1>2, <1>7 DEF AppliedEverywhere, AppliedAt, AppliedOK, Typed
<1>. QED  BY <1>1, <1>2, <1>3, <1>7, <1>8 DEF HasSender

(* A cycle hands its finished transactions to the resolver and wakes the   *)
(* coordinators, each of which has a sender.                               *)
LEMMA notifyIInv ==
    ASSUME IInv, NEW c \in cycles, notify(c)
    PROVE  IInv'
<1>. DEFINE s == c.finished
            y == <<c.of, s>>
            told == notified(s)
            dead == unnotifiable(s)
<1>1. /\ Typed /\ CyclesOK /\ CountsOK /\ FinishedOK /\ HasSender /\ Coordinators /\ RegisteredOK
      /\ DoneMeansApplied /\ ~panicked
    BY DEF IInv
<1>2. /\ c.at = "notify" /\ cycles' = cycles \ {c}
      /\ waiting_transactions' = waiting_transactions \ (told \cup dead)
      /\ coordinator' = [tx \in Transaction |-> IF tx \in told THEN "done" ELSE coordinator[tx]]
      /\ panicked' = (panicked \/ ~(told \cup dead \subseteq waiting_transactions))
      /\ registering' = IF dead # {} \/ s = << >> THEN registering ELSE registering \cup {s}
      /\ UNCHANGED <<writes, depends, adding, group_per_participant,
                     num_pending_participant_commits, non_empty_groups, returned_transactions,
                     committed, applied, num_dependencies, dependents, resolved_transactions>>
    BY DEF notify, effectVars, resolverVars
<1>3. /\ cycles' \subseteq Cycle /\ CyclesOK' /\ Names' \subseteq Names
      /\ Held' = Held /\ Collected' = Collected /\ y \in Finishing /\ Finishing' = Finishing \ {y}
    BY <1>1, <1>2, CycleOver DEF Typed
<1>4. y[2] = s /\ s \in Seq(Transaction)
    BY <1>1 DEF Typed, Cycle
<1>5. told \cup dead \subseteq Range(s)
  <2>1. \A i \in 1..Len(s) : s[i] \in Range(s)
      BY <1>4, SeqFacts
  <2>. QED  BY <2>1 DEF notified, unnotifiable
<1>. HIDE DEF s, y, told, dead
<1>6. \A tx \in Range(s) : /\ tx \in Transaction /\ Ready(tx) /\ AppliedEverywhere(tx)
                           /\ \A r \in writes[tx] : tx \in committed
                           /\ tx \in waiting_transactions
    BY <1>3, <1>4, FinishedApplied
<1>7. SameReady
  <2>1. \A tx \in Transaction : /\ tx \in told => Submitted(tx) /\ coordinator'[tx] = "done"
                                /\ tx \notin told => coordinator'[tx] = coordinator[tx]
      BY <1>2, <1>5, <1>6 DEF Ready
  <2>2. \A tx : Submitted(tx)' <=> Submitted(tx)
      BY <1>2, <2>1 DEF Submitted
  <2>. QED  BY <1>2, <2>2 DEF SameReady, Ready
<1>8. /\ Counted' /\ AddingOK' /\ GroupsOK' /\ HeldOK' /\ AppliedOK' /\ InOrder'
      /\ CountsOK' /\ FinishedOK'
    BY <1>2, <1>3, <1>7, StillFrame
<1>9. Typed'
    BY <1>1, <1>2, <1>3, <1>4 DEF Typed
<1>10. ~panicked'
    BY <1>1, <1>2, <1>5, <1>6
<1>11. HasSender'
  <2>1. ASSUME NEW tx \in Range(s)
        PROVE  /\ num_dependencies[tx] = 0 /\ num_pending_participant_commits[tx] = 0
               /\ \A p \in Finishing' : tx \notin Range(p[2])
      BY <1>1, <1>3, <1>4, <1>6 DEF FinishedOK, Ready
  <2>2. ASSUME NEW tx \in Transaction,
               \/ num_dependencies[tx] > 0
               \/ num_pending_participant_commits[tx] > 0
               \/ \E p \in Finishing' : tx \in Range(p[2])
        PROVE  tx \in waiting_transactions'
    <3>1. tx \notin Range(s)
        BY SMTT(30), <2>1, <2>2
    <3>2. tx \in waiting_transactions
        BY <1>1, <1>3, <2>2 DEF HasSender
    <3>. QED  BY <1>2, <1>5, <3>1, <3>2
  <2>. QED  BY <1>2, <2>2 DEF HasSender
<1>12. Coordinators'
    BY <1>1, <1>2 DEF Coordinators
<1>13. RegisteredOK'
  <2>1. \A tx : AppliedEverywhere(tx)' <=> AppliedEverywhere(tx)
      BY <1>2 DEF AppliedEverywhere, AppliedAt
  <2>2. registering' \subseteq registering \cup {s}
      BY <1>2
  <2>. QED  BY <1>1, <1>2, <1>6, <2>1, <2>2 DEF RegisteredOK
<1>14. DoneMeansApplied'
  <2>1. \A tx \in told : tx \in Transaction => \A r \in writes[tx] : tx \in committed /\ tx \in Range(applied[r])
      BY <1>5, <1>6 DEF AppliedEverywhere, AppliedAt
  <2>2. \A tx \in Transaction : coordinator'[tx] = "done" => tx \in told \/ coordinator[tx] = "done"
      BY <1>2
  <2>. QED  BY <1>1, <1>2, <2>1, <2>2 DEF DoneMeansApplied
<1>. QED  BY <1>3, <1>8, <1>9, <1>10, <1>11, <1>12, <1>13, <1>14 DEF IInv

(* Transactions become ready, and are added to the group commit if there   *)
(* are any.  The only dependency of one of them has been applied, or is    *)
(* added before it.                                                        *)
Behind(q) ==
    \A i \in DOMAIN q : \A d \in Transaction :
       depends[q[i]] = {d} => AppliedEverywhere(d) \/ \E j \in 1..(i - 1) : q[j] = d

(* Transactions that become ready, in an order that puts an only           *)
(* dependency first, enter the group commit as new ones.                   *)
LEMMA NewlyReady ==
    ASSUME IInv, adding = None, NEW q \in Seq(Transaction), IsInjective(q), Behind(q),
           \A tx : Ready(tx)' <=> (Ready(tx) \/ tx \in Range(q)),
           \A tx \in Range(q) : ~Ready(tx),
           IF q = << >> THEN UNCHANGED groupVars ELSE addTransactions(q) /\ UNCHANGED cycles,
           UNCHANGED <<writes, depends, committed, applied>>,
           waiting_transactions \subseteq waiting_transactions',
           Range(q) \subseteq waiting_transactions',
           \A tx \in Transaction : num_dependencies'[tx] > 0 => tx \in waiting_transactions'
    PROVE  /\ AddingOK' /\ GroupsOK' /\ CyclesOK' /\ HeldOK' /\ AppliedOK' /\ CountsOK'
           /\ FinishedOK' /\ HasSender' /\ InOrder'
           /\ adding' \in AddCall \cup {None} /\ UNCHANGED <<group_per_participant,
                 non_empty_groups, returned_transactions, cycles>>
           /\ num_pending_participant_commits' \in [Transaction -> Nat]
<1>1. /\ Typed /\ AddingOK /\ GroupsOK /\ CyclesOK /\ HeldOK /\ AppliedOK /\ CountsOK
      /\ FinishedOK /\ HasSender /\ InOrder
    BY DEF IInv
<1>2. Range(q) \subseteq Transaction /\ (q = << >> <=> Range(q) = {})
  <2>1. q = << >> => Range(q) = {}
      BY SMTT(30) DEF Range
  <2>2. q # << >> => 1 \in DOMAIN q /\ q[1] \in Range(q)
      BY SMTT(30), SeqFacts
  <2>. QED  BY <2>1, <2>2, SeqFacts
<1>3. /\ UNCHANGED <<group_per_participant, non_empty_groups, returned_transactions, cycles>>
      /\ \A tx \in Transaction :
            num_pending_participant_commits'[tx] =
               IF tx \in Range(q) THEN Cardinality(writes[tx])
               ELSE num_pending_participant_commits[tx]
      /\ num_pending_participant_commits' =
            [tx \in Transaction |-> num_pending_participant_commits'[tx]]
      /\ q = << >> => adding' = None
      /\ q # << >> => adding' = [txs |-> q, extend |-> rangesOf(q)]
  <2>1. CASE q = << >>
      BY <1>1, <1>2, <2>1 DEF groupVars, Typed
  <2>2. CASE q # << >>
      BY <2>2 DEF addTransactions
  <2>. QED  BY <2>1, <2>2
<1>4. rangesOf(q) \subseteq ParticipantRange
    BY SMTT(30), <1>1, <1>2 DEF rangesOf, Typed
<1>5. adding' # None => q # << >> /\ adding'.txs = q /\ adding'.extend \subseteq ParticipantRange
    BY SMTT(30), <1>3, <1>4
<1>6. adding' \in AddCall \cup {None}
    BY SMTT(30), <1>3, <1>4 DEF AddCall
<1>7. CyclesKept /\ Held' = Held /\ Collected' = Collected /\ Finishing' = Finishing
    BY <1>1, <1>3, SameCycles
<1>8. \A tx, r : /\ InBatch(tx, r)' <=> InBatch(tx, r)
                 /\ AppliedAt(tx, r)' <=> AppliedAt(tx, r)
                 /\ InGroup(tx, r)' <=> InGroup(tx, r)
    BY <1>3, <1>7 DEF InBatch, AppliedAt, InGroup
<1>9. \A tx : Ready(tx) => Ready(tx)'
    OBVIOUS
<1>10. ASSUME NEW tx \in Range(q)
       PROVE  /\ \A r \in ParticipantRange : ~InGroup(tx, r) /\ ~InBatch(tx, r) /\ ~AppliedAt(tx, r)
              /\ tx \notin Names /\ tx \notin Range(returned_transactions)
              /\ \A p \in Collected \cup Finishing : tx \notin Range(p[2])
  <2>1. ~Ready(tx) /\ Ready(tx)'
      OBVIOUS
  <2>2. depends[tx] # {}
      BY <2>1 DEF Ready, Submitted
  <2>3. \A r \in ParticipantRange : ~InGroup(tx, r) /\ ~AppliedAt(tx, r)
      BY <1>1, <2>1, <2>2 DEF GroupsOK, AllReady, InGroup, AppliedOK, AppliedAt
  <2>4. \A r \in ParticipantRange : ~InBatch(tx, r)
      BY <1>1, <2>1 DEF HeldOK, BatchOK, AllReady, InBatch
  <2>5. tx \notin Names /\ tx \notin Range(returned_transactions)
        /\ \A p \in Collected \cup Finishing : tx \notin Range(p[2])
      BY <1>1, <2>1 DEF CountsOK, AllReady
  <2>. QED  BY <2>3, <2>4, <2>5
<1>11. GroupsOK'
    BY <1>1, <1>3, <1>8, <1>9 DEF GroupsOK, AllReady
<1>12. HeldOK'
  <2>1. \A b : BatchOK(b) => BatchOK(b)'
      BY <1>8, <1>9 DEF BatchOK, AllReady
  <2>. QED  BY <1>1, <1>7, <2>1 DEF HeldOK
<1>13. AppliedOK'
    BY <1>1, <1>9 DEF AppliedOK
<1>14. AddingOK'
  <2>1. \A tx \in Range(q) : Ready(tx)'
      OBVIOUS
  <2>2. ASSUME adding' # None PROVE /\ adding'.txs = q /\ adding'.txs # << >>
                                    /\ adding'.extend \subseteq ParticipantRange
      BY <1>5, <2>2
  <2>3. Names' \cap Range(q) = {}
      BY <1>7, <1>10 DEF CyclesKept
  <2>4. \A r \in ParticipantRange : \A tx \in Range(q) :
           ~InGroup(tx, r)' /\ ~InBatch(tx, r)' /\ ~AppliedAt(tx, r)'
      BY <1>8, <1>10
  <2>. QED  BY <2>1, <2>2, <2>3, <2>4 DEF AddingOK, AllReady
<1>15. InOrder'
  <2>0. \A s, r : Queued(s, r)' <=> Queued(s, r)
      BY <1>8 DEF Queued
  <2>1. \A r \in ParticipantRange : \A s : s = group_per_participant'[r] => Queued(s, r)
      BY <1>1, <1>3 DEF InOrder
  <2>2. \A r : Queued(q, r)
      BY DEF Queued, Behind, AppliedEverywhere
  <2>3. adding' # None => \A r \in adding'.extend : \A s : s = adding'.txs => Queued(s, r)
      BY <1>5, <2>2
  <2>4. \A p \in Held' : Queued(p[2].txs, p[2].range)
      BY <1>1, <1>7 DEF InOrder
  <2>5. SoleDependencyFirst'
      BY SMTT(30), <1>1 DEF InOrder, SoleDependencyFirst, Before
  <2>. QED  BY <2>0, <2>1, <2>3, <2>4, <2>5, QueuesNext
<1>16. \A tx : Counting(tx)' = Counting(tx) /\ Open(tx)' = Open(tx)
    BY <1>7, <1>8 DEF Counting, Times, Open
<1>17. \A tx \in Transaction : IsFiniteSet(writes[tx]) /\ Cardinality(writes[tx]) \in Nat
    BY <1>1, GroupAssumption, FS_Subset, FS_CardinalityType DEF Typed
<1>18. num_pending_participant_commits' \in [Transaction -> Nat]
  <2>1. \A tx \in Transaction : num_pending_participant_commits'[tx] \in Nat
      BY <1>1, <1>3, <1>17 DEF Typed
  <2>. QED  BY <1>3, <2>1
<1>19. ASSUME NEW tx \in Transaction PROVE CountOK(tx)'
  <2>1. CountOK(tx) /\ Counting(tx)' = Counting(tx) /\ Open(tx)' = Open(tx)
      BY <1>1, <1>16 DEF CountsOK
  <2>2. timesIn(tx, returned_transactions)' = timesIn(tx, returned_transactions)
      BY <1>3 DEF timesIn
  <2>3. CASE tx \notin Range(q)
    <3>1. num_pending_participant_commits'[tx] = num_pending_participant_commits[tx]
        BY <1>3, <2>3
    <3>2. Ready(tx)' <=> Ready(tx)
        BY <2>3
    <3>. QED  BY <2>1, <2>2, <3>1, <3>2 DEF CountOK
  <2>4. CASE tx \in Range(q)
    <3>1. Open(tx) = writes[tx]
        BY <1>1, <1>10, <2>4 DEF Open, Typed
    <3>2. timesIn(tx, returned_transactions) = 0
        BY <1>1, <1>10, <2>4, TimesFacts DEF Typed
    <3>3. Counting(tx) = {}
      <4>1. \A p \in Collected : Times(tx, p[2]) = {}
        <5>1. ASSUME NEW p \in Collected, NEW i \in Times(tx, p[2]) PROVE FALSE
          <6>1. p[2] \in Seq(Transaction) /\ i \in 1..Len(p[2]) /\ p[2][i] = tx
              BY <1>1, TypedFacts DEF Times
          <6>2. tx \in Range(p[2])
              BY <6>1, SeqFacts
          <6>. QED  BY <1>10, <2>4, <6>2
        <5>. QED  BY <5>1
      <4>. QED  BY <4>1 DEF Counting
    <3>4. Cardinality({}) = 0
        BY FS_EmptySet
    <3>5. num_pending_participant_commits'[tx] = Cardinality(writes[tx]) /\ Ready(tx)'
        BY <1>3, <2>4
    <3>. QED  BY SMTT(30), <1>17, <2>1, <2>2, <3>1, <3>2, <3>3, <3>4, <3>5 DEF CountOK
  <2>. QED  BY <2>3, <2>4
<1>20. CountsOK'
  <2>1. AllReady(returned_transactions)'
      BY <1>1, <1>3, <1>9 DEF CountsOK, AllReady
  <2>2. \A p \in Collected' \cup Finishing' : AllReady(p[2])'
      BY <1>1, <1>7, <1>9 DEF CountsOK, AllReady
  <2>3. \A tx \in Names' : Ready(tx)'
      BY <1>1, <1>7, <1>9 DEF CountsOK, CyclesKept
  <2>. QED  BY <1>19, <2>1, <2>2, <2>3 DEF CountsOK
<1>21. FinishedOK'
  <2>1. \A p \in Finishing : \A tx \in Range(p[2]) : num_pending_participant_commits'[tx] = 0
      BY <1>1, <1>3, <1>10, TypedFacts DEF FinishedOK
  <2>. QED  BY <1>1, <1>7, <2>1 DEF FinishedOK
<1>22. HasSender'
  <2>1. ASSUME NEW tx \in Transaction,
               \/ num_dependencies'[tx] > 0
               \/ num_pending_participant_commits'[tx] > 0
               \/ \E p \in Finishing : tx \in Range(p[2])
        PROVE  tx \in waiting_transactions'
    <3>1. CASE tx \in Range(q) \/ num_dependencies'[tx] > 0
        BY <3>1
    <3>2. CASE tx \notin Range(q) /\ ~(num_dependencies'[tx] > 0)
        BY <1>1, <1>3, <2>1, <3>2 DEF HasSender
    <3>. QED  BY <3>1, <3>2
  <2>. QED  BY <1>7, <2>1 DEF HasSender
<1>. QED  BY <1>3, <1>6, <1>7, <1>11, <1>12, <1>13, <1>14, <1>15, <1>18, <1>20, <1>21, <1>22 DEF CyclesKept

(* The resolver is given a transaction and counts the dependencies that    *)
(* are not resolved.                                                       *)
LEMMA commitIInv ==
    ASSUME IInv, NEW t \in Transaction, commit(t)
    PROVE  IInv'
<1>. DEFINE left == unresolved(t)
            q == IF left = {} THEN <<t>> ELSE << >>
<1>1. /\ Typed /\ Coordinators /\ Counted /\ CountsOK /\ HasSender /\ RegisteredOK
      /\ DoneMeansApplied /\ ~panicked
    BY DEF IInv
<1>2. /\ coordinator[t] = "prepared" /\ depends[t] # {} /\ writes[t] # {} /\ adding = None
      /\ dependents' = [d \in Transaction |-> IF d \in left THEN dependents[d] \cup {t}
                                              ELSE dependents[d]]
      /\ num_dependencies' = [num_dependencies EXCEPT ![t] = Cardinality(left)]
      /\ waiting_transactions' = waiting_transactions \cup {t}
      /\ coordinator' = [coordinator EXCEPT ![t] = "waiting"]
      /\ UNCHANGED <<writes, depends, committed, applied, resolved_transactions, registering,
                     panicked>>
    BY DEF commit, Unlocked, CoordinatorGoes, effectVars
<1>3. IF q = << >> THEN UNCHANGED groupVars ELSE addTransactions(q) /\ UNCHANGED cycles
    BY DEF commit
<1>4. /\ q \in Seq(Transaction) /\ IsInjective(q)
      /\ Range(q) = IF left = {} THEN {t} ELSE {}
    BY SMTT(30) DEF Range, IsInjective
<1>5. \A i \in DOMAIN q : q[i] = t /\ left = {}
    BY SMTT(30)
<1>6. /\ left \in SUBSET Transaction /\ left \subseteq depends[t] /\ IsFiniteSet(left)
      /\ Cardinality(left) \in Nat /\ (Cardinality(left) = 0 <=> left = {})
  <2>1. left \in SUBSET Transaction /\ left \subseteq depends[t]
      BY <1>1 DEF unresolved, Typed
  <2>2. IsFiniteSet(left)
      BY <2>1, GroupAssumption, FS_Subset
  <2>. QED  BY <2>1, <2>2, FS_CardinalityType, FS_EmptySet
<1>7. left = {} => \A d \in depends[t] : AppliedEverywhere(d)
    BY <1>1 DEF unresolved, RegisteredOK
<1>. HIDE DEF left, q
<1>8. ~Submitted(t) /\ Holders(t) = {}
    BY <1>1, <1>2 DEF Submitted, Counted
<1>9. /\ \A tx \in Transaction : tx # t => /\ coordinator'[tx] = coordinator[tx]
                                           /\ num_dependencies'[tx] = num_dependencies[tx]
      /\ coordinator'[t] = "waiting" /\ num_dependencies'[t] = Cardinality(left)
    BY <1>1, <1>2 DEF Typed
<1>10. /\ \A tx \in Transaction : tx # t => (Submitted(tx)' <=> Submitted(tx))
       /\ Submitted(t)'
    BY <1>2, <1>9 DEF Submitted
<1>11. \A tx : Ready(tx)' <=> (Ready(tx) \/ tx \in Range(q))
  <2>1. ASSUME NEW tx, tx # t PROVE Ready(tx)' <=> (Ready(tx) \/ tx \in Range(q))
    <3>1. CASE tx \in Transaction
        BY <1>4, <1>9, <1>10, <2>1, <3>1 DEF Ready
    <3>2. CASE tx \notin Transaction
        BY <1>4, <2>1, <3>2 DEF Ready, Submitted
    <3>. QED  BY <3>1, <3>2
  <2>2. Ready(t)' <=> (Ready(t) \/ t \in Range(q))
      BY <1>4, <1>6, <1>8, <1>9, <1>10 DEF Ready
  <2>. QED  BY <2>1, <2>2
<1>12. \A tx \in Range(q) : ~Ready(tx)
    BY <1>4, <1>8 DEF Ready
<1>13. Behind(q)
    BY <1>5, <1>7 DEF Behind
<1>14. \A tx \in Transaction : num_dependencies'[tx] > 0 => tx \in waiting_transactions'
    BY <1>1, <1>2, <1>9 DEF HasSender
<1>15. /\ AddingOK' /\ GroupsOK' /\ CyclesOK' /\ HeldOK' /\ AppliedOK' /\ CountsOK'
       /\ FinishedOK' /\ HasSender' /\ InOrder'
       /\ adding' \in AddCall \cup {None} /\ UNCHANGED <<group_per_participant,
             non_empty_groups, returned_transactions, cycles>>
       /\ num_pending_participant_commits' \in [Transaction -> Nat]
  <2>1. Range(q) \subseteq waiting_transactions' /\ waiting_transactions \subseteq waiting_transactions'
      BY <1>2, <1>4
  <2>. QED  BY <1>2, <1>3, <1>4, <1>11, <1>12, <1>13, <1>14, <2>1, NewlyReady
<1>16. Typed'
    BY <1>1, <1>2, <1>6, <1>15 DEF Typed
<1>17. Counted'
  <2>1. \A tx \in Transaction : Holders(tx)' = IF tx = t THEN left ELSE Holders(tx)
    <3>1. \A d \in Transaction : dependents'[d] = IF d \in left THEN dependents[d] \cup {t}
                                                  ELSE dependents[d]
        BY <1>2
    <3>2. \A d \in Transaction : t \notin dependents[d]
        BY <1>8 DEF Holders
    <3>. QED  BY <1>6, <3>1, <3>2 DEF Holders
  <2>2. \A tx \in Transaction : Submitted(tx) => Submitted(tx)'
      BY <1>8, <1>10
  <2>. QED  BY <1>1, <1>2, <1>6, <1>9, <1>10, <2>1, <2>2 DEF Counted
<1>18. Coordinators'
    BY <1>1, <1>2, <1>9 DEF Coordinators
<1>19. RegisteredOK'
    BY <1>1, <1>2 DEF RegisteredOK, AppliedEverywhere, AppliedAt
<1>20. DoneMeansApplied'
    BY <1>1, <1>2, <1>9 DEF DoneMeansApplied
<1>. QED  BY <1>1, <1>2, <1>15, <1>16, <1>17, <1>18, <1>19, <1>20 DEF IInv

---------------------------------------------------------------------------
(* The loop of register_committed_transactions *)

HoldersIn(s, tx) == {d \in Transaction : tx \in s.dependents[d]}

(* What is under the top of a stack                                        *)
Below(s) == SubSeq(s, 1, Len(s) - 1)

Rounds == [stack : Seq(Transaction), num : [Transaction -> Nat],
           dependents : [Transaction -> SUBSET Transaction], ready : Seq(Transaction),
           assert : BOOLEAN]

(* What holds after every round of it                                      *)
Cascade(s, ids) ==
    /\ s \in Rounds /\ s.assert
    /\ Range(s.stack) \subseteq Range(ids) \cup Range(s.ready)
    /\ \A tx \in Transaction : /\ s.num[tx] = Cardinality(HoldersIn(s, tx))
                               /\ HoldersIn(s, tx) \subseteq Holders(tx)
    /\ IsInjective(s.ready) /\ Behind(s.ready)
    /\ \A tx \in Range(s.ready) : num_dependencies[tx] > 0 /\ s.num[tx] = 0
    /\ \A tx \in Transaction \ Range(s.ready) : num_dependencies[tx] > 0 => s.num[tx] > 0

(* An order of a finite set has each member once.                          *)
LEMMA OrdersFacts ==
    ASSUME NEW S, IsFiniteSet(S), NEW q \in orders(S)
    PROVE  q \in Seq(S) /\ IsInjective(q) /\ Range(q) = S
<1>1. Cardinality(S) \in Nat
    BY FS_CardinalityType
<1>2. /\ q \in [1..Cardinality(S) -> S] /\ IsInjective(q)
      /\ \A x \in S : \E i \in 1..Cardinality(S) : q[i] = x
    BY DEF orders, Bijection, Injection, Surjection
<1>3. q \in Seq(S) /\ DOMAIN q = 1..Cardinality(S)
    BY SMTT(30), <1>1, <1>2
<1>4. Range(q) = S
    BY <1>2 DEF Range
<1>. QED  BY <1>2, <1>3, <1>4

(* The top of a stack and what is under it                                 *)
LEMMA TopFacts ==
    ASSUME NEW S, NEW s \in Seq(S), s # << >>
    PROVE  /\ s[Len(s)] \in Range(s) /\ s[Len(s)] \in S
           /\ Below(s) \in Seq(S) /\ Range(Below(s)) \subseteq Range(s)
<1>1. Len(s) \in DOMAIN s
    BY SMTT(30)
<1>2. s[Len(s)] \in Range(s) /\ s[Len(s)] \in S
    BY <1>1, SeqFacts
<1>3. /\ Below(s) \in Seq(S) /\ \A i \in DOMAIN Below(s) : i \in DOMAIN s /\ Below(s)[i] = s[i]
    BY SMTT(30) DEF Below
<1>4. Range(Below(s)) \subseteq Range(s)
    BY <1>3 DEF Range
<1>. QED  BY <1>2, <1>3, <1>4

(* An order may be continued by transactions whose only dependency is in   *)
(* it.                                                                     *)
LEMMA BehindConcat ==
    ASSUME NEW p \in Seq(Transaction), NEW q \in Seq(Transaction), Behind(p),
           \A tx \in Range(q) : \A d \in Transaction :
              depends[tx] = {d} => AppliedEverywhere(d) \/ d \in Range(p)
    PROVE  Behind(p \o q)
<1>. DEFINE u == p \o q
<1>1. /\ DOMAIN p = 1..Len(p) /\ DOMAIN q = 1..Len(q) /\ Len(p) \in Nat /\ Len(q) \in Nat
      /\ DOMAIN u = 1..Len(u)
      /\ \A i \in 1..Len(p) : i \in DOMAIN u /\ u[i] = p[i]
      /\ \A i \in DOMAIN u : i \in 1..Len(p) \/ (i - Len(p) \in 1..Len(q) /\ u[i] = q[i - Len(p)])
      /\ \A i \in DOMAIN q : q[i] \in Range(q)
      /\ \A x \in Range(p) : \E i \in DOMAIN p : p[i] = x
    BY SMTT(30), ConcatFacts, SeqFacts
<1>. HIDE DEF u
<1>2. ASSUME NEW i \in DOMAIN u, NEW d \in Transaction, depends[u[i]] = {d},
             ~AppliedEverywhere(d)
      PROVE  \E j \in 1..(i - 1) : u[j] = d
  <2>1. CASE i \in 1..Len(p)
    <3>1. PICK j \in 1..(i - 1) : p[j] = d
        BY SMTT(30), <1>1, <1>2, <2>1 DEF Behind
    <3>2. j \in 1..Len(p)
        BY SMTT(30), <1>1, <2>1
    <3>. QED  BY <1>1, <3>1, <3>2
  <2>2. CASE i - Len(p) \in 1..Len(q) /\ u[i] = q[i - Len(p)]
    <3>1. u[i] \in Range(q)
        BY <1>1, <2>2
    <3>2. PICK j \in DOMAIN p : p[j] = d
        BY <1>1, <1>2, <3>1
    <3>3. j \in 1..(i - 1) /\ u[j] = d
        BY SMTT(30), <1>1, <2>2, <3>2
    <3>. QED  BY <3>3
  <2>. QED  BY <1>1, <2>1, <2>2
<1>. QED  BY <1>2 DEF Behind, u

(* One pop of register_committed_transactions: the counts stay those of    *)
(* the dependents not yet visited, no count goes below zero, and what      *)
(* becomes ready comes behind its only dependency.                         *)
LEMMA CascadeStep ==
    ASSUME IInv, NEW ids \in registering, NEW s, Cascade(s, ids), NEW z \in popResolved(s)
    PROVE  Cascade(z, ids)
<1>1. Typed /\ Counted /\ RegisteredOK
    BY DEF IInv
<1>2. SUFFICES ASSUME s.stack # << >> PROVE Cascade(z, ids)
    BY DEF popResolved
<1>. DEFINE tx == s.stack[Len(s.stack)]
            found == s.dependents[tx]
            fresh == {d \in found : s.num[d] = 1}
<1>3. /\ s \in Rounds /\ s.assert
      /\ Range(s.stack) \subseteq Range(ids) \cup Range(s.ready)
      /\ \A t \in Transaction : /\ s.num[t] = Cardinality(HoldersIn(s, t))
                                /\ HoldersIn(s, t) \subseteq Holders(t)
      /\ IsInjective(s.ready) /\ Behind(s.ready)
      /\ \A t \in Range(s.ready) : num_dependencies[t] > 0 /\ s.num[t] = 0
      /\ \A t \in Transaction \ Range(s.ready) : num_dependencies[t] > 0 => s.num[t] > 0
    BY DEF Cascade
<1>4. /\ s.stack \in Seq(Transaction) /\ s.num \in [Transaction -> Nat]
      /\ s.dependents \in [Transaction -> SUBSET Transaction] /\ s.ready \in Seq(Transaction)
    BY <1>3 DEF Rounds
<1>5. /\ tx \in Range(s.stack) /\ tx \in Transaction
      /\ Below(s.stack) \in Seq(Transaction) /\ Range(Below(s.stack)) \subseteq Range(s.stack)
    BY <1>2, <1>4, TopFacts
<1>6. PICK order \in orders(fresh) :
         z = [stack      |-> Below(s.stack) \o order,
              num        |-> [d \in Transaction |-> IF d \in found THEN s.num[d] - 1 ELSE s.num[d]],
              dependents |-> [s.dependents EXCEPT ![tx] = {}],
              ready      |-> s.ready \o order,
              assert     |-> s.assert /\ \A d \in found : s.num[d] > 0]
    BY <1>2 DEF popResolved, Visited, pushReady, top, Below
<1>. HIDE DEF tx
<1>7. found \in SUBSET Transaction /\ fresh \in SUBSET Transaction /\ fresh \subseteq found
    BY <1>4, <1>5
<1>8. IsFiniteSet(fresh)
    BY <1>7, GroupAssumption, FS_Subset
<1>9. order \in Seq(fresh) /\ IsInjective(order) /\ Range(order) = fresh
    BY <1>8, OrdersFacts
<1>10. order \in Seq(Transaction)
    BY SMTT(30), <1>7, <1>9
<1>11. /\ z.stack = Below(s.stack) \o order /\ z.ready = s.ready \o order
       /\ z.num = [d \in Transaction |-> IF d \in found THEN s.num[d] - 1 ELSE s.num[d]]
       /\ z.dependents = [s.dependents EXCEPT ![tx] = {}]
       /\ z.assert = (s.assert /\ \A d \in found : s.num[d] > 0)
       /\ z = [stack |-> z.stack, num |-> z.num, dependents |-> z.dependents,
               ready |-> z.ready, assert |-> z.assert]
    BY <1>6
<1>12. ASSUME NEW t \in Transaction
       PROVE  /\ HoldersIn(s, t) \in SUBSET Transaction /\ IsFiniteSet(HoldersIn(s, t))
              /\ Cardinality(HoldersIn(s, t)) \in Nat
              /\ Cardinality(HoldersIn(s, t)) = 0 <=> HoldersIn(s, t) = {}
              /\ t \in found <=> tx \in HoldersIn(s, t)
              /\ HoldersIn(z, t) = HoldersIn(s, t) \ {tx}
              /\ HoldersIn(s, t) # {} => num_dependencies[t] > 0
  <2>1. HoldersIn(s, t) \in SUBSET Transaction /\ (t \in found <=> tx \in HoldersIn(s, t))
      BY <1>5 DEF HoldersIn
  <2>2. IsFiniteSet(HoldersIn(s, t))
      BY <2>1, GroupAssumption, FS_Subset
  <2>3. /\ Cardinality(HoldersIn(s, t)) \in Nat
        /\ Cardinality(HoldersIn(s, t)) = 0 <=> HoldersIn(s, t) = {}
      BY <2>2, FS_CardinalityType, FS_EmptySet
  <2>4. HoldersIn(z, t) = HoldersIn(s, t) \ {tx}
    <3>1. \A d \in Transaction : z.dependents[d] = IF d = tx THEN {} ELSE s.dependents[d]
        BY <1>4, <1>11
    <3>. QED  BY <3>1 DEF HoldersIn
  <2>5. HoldersIn(s, t) # {} => num_dependencies[t] > 0
    <3>1. Holders(t) \in SUBSET Transaction /\ IsFiniteSet(Holders(t))
        BY GroupAssumption, FS_Subset DEF Holders
    <3>2. Cardinality(Holders(t)) \in Nat /\ (Cardinality(Holders(t)) = 0 <=> Holders(t) = {})
        BY <3>1, FS_CardinalityType, FS_EmptySet
    <3>3. num_dependencies[t] = Cardinality(Holders(t)) /\ HoldersIn(s, t) \subseteq Holders(t)
        BY <1>1, <1>3 DEF Counted
    <3>. QED  BY SMTT(30), <3>2, <3>3
  <2>. QED  BY <2>1, <2>2, <2>3, <2>4, <2>5
<1>13. \A d \in found : s.num[d] > 0 /\ num_dependencies[d] > 0
  <2>1. ASSUME NEW d \in found PROVE s.num[d] > 0 /\ num_dependencies[d] > 0
    <3>1. d \in Transaction /\ HoldersIn(s, d) # {}
        BY <1>7, <1>12
    <3>. QED  BY <1>3, <1>12, <3>1
  <2>. QED  BY <2>1
<1>14. z \in Rounds /\ z.assert
  <2>1. z.stack \in Seq(Transaction) /\ z.ready \in Seq(Transaction)
      BY SMTT(30), <1>4, <1>5, <1>10, <1>11, ConcatFacts
  <2>2. z.num \in [Transaction -> Nat]
      BY SMTT(30), <1>4, <1>11, <1>13
  <2>3. z.dependents \in [Transaction -> SUBSET Transaction]
      BY <1>4, <1>11
  <2>4. z.assert = TRUE
      BY <1>3, <1>11, <1>13
  <2>. QED  BY <1>11, <2>1, <2>2, <2>3, <2>4 DEF Rounds
<1>15. Range(z.ready) = Range(s.ready) \cup fresh
    BY SMTT(30), <1>4, <1>9, <1>10, <1>11, RangeConcat
<1>16. Range(z.stack) \subseteq Range(ids) \cup Range(z.ready)
  <2>1. Range(z.stack) = Range(Below(s.stack)) \cup fresh
      BY SMTT(30), <1>5, <1>9, <1>10, <1>11, RangeConcat
  <2>. QED  BY <1>3, <1>5, <1>15, <2>1
<1>17. ASSUME NEW t \in Transaction
       PROVE  /\ z.num[t] = Cardinality(HoldersIn(z, t))
              /\ HoldersIn(z, t) \subseteq Holders(t)
  <2>1. HoldersIn(z, t) \subseteq Holders(t)
      BY <1>3, <1>12
  <2>2. Cardinality(HoldersIn(s, t) \ {tx}) =
           IF tx \in HoldersIn(s, t) THEN Cardinality(HoldersIn(s, t)) - 1
           ELSE Cardinality(HoldersIn(s, t))
      BY <1>12, FS_RemoveElement
  <2>3. z.num[t] = IF t \in found THEN s.num[t] - 1 ELSE s.num[t]
      BY <1>11
  <2>. QED  BY <1>3, <1>12, <2>1, <2>2, <2>3
<1>18. IsInjective(z.ready)
  <2>1. Range(s.ready) \cap Range(order) = {}
      BY SMTT(30), <1>3, <1>9
  <2>. QED  BY SMTT(30), <1>3, <1>4, <1>9, <1>10, <1>11, <2>1, InjectiveConcat
<1>19. Behind(z.ready)
  <2>1. ASSUME NEW t \in fresh, NEW d \in Transaction, depends[t] = {d}
        PROVE  AppliedEverywhere(d) \/ d \in Range(s.ready)
    <3>1. t \in Transaction /\ tx \in HoldersIn(s, t) /\ HoldersIn(s, t) \subseteq depends[t]
        BY <1>1, <1>3, <1>7, <1>12 DEF Counted
    <3>2. tx = d
        BY <2>1, <3>1
    <3>3. d \in Range(ids) \/ d \in Range(s.ready)
        BY <1>3, <1>5, <3>2
    <3>. QED  BY <1>1, <3>3 DEF RegisteredOK
  <2>2. \A t \in Range(order) : \A d \in Transaction :
           depends[t] = {d} => AppliedEverywhere(d) \/ d \in Range(s.ready)
      BY <1>9, <2>1
  <2>3. Behind(s.ready \o order)
      BY <1>3, <1>4, <1>10, <2>2, BehindConcat
  <2>. QED  BY <1>11, <2>3
<1>20. \A t \in Range(z.ready) : num_dependencies[t] > 0 /\ z.num[t] = 0
  <2>1. ASSUME NEW t \in fresh PROVE num_dependencies[t] > 0 /\ z.num[t] = 0
      BY SMTT(30), <1>7, <1>11, <1>13
  <2>2. ASSUME NEW t \in Range(s.ready) PROVE num_dependencies[t] > 0 /\ z.num[t] = 0
    <3>1. t \in Transaction /\ num_dependencies[t] > 0 /\ s.num[t] = 0
        BY <1>3, <1>4, SeqFacts
    <3>2. t \notin found
        BY SMTT(30), <1>13, <3>1
    <3>. QED  BY <1>11, <3>1, <3>2
  <2>. QED  BY <1>15, <2>1, <2>2
<1>21. \A t \in Transaction \ Range(z.ready) : num_dependencies[t] > 0 => z.num[t] > 0
  <2>1. ASSUME NEW t \in Transaction, t \notin Range(s.ready), t \notin fresh,
               num_dependencies[t] > 0
        PROVE  z.num[t] > 0
    <3>1. s.num[t] > 0 /\ s.num[t] \in Nat
        BY <1>3, <1>4, <2>1
    <3>2. t \in found => s.num[t] # 1
        BY <2>1
    <3>. QED  BY SMTT(30), <1>11, <3>1, <3>2
  <2>. QED  BY <1>15, <2>1
<1>. QED  BY <1>14, <1>16, <1>17, <1>18, <1>19, <1>20, <1>21 DEF Cascade

(* So does every round of the cascade.                                     *)
LEMMA CascadeAll ==
    ASSUME IInv, NEW ids \in registering, NEW z \in resolveAll(ids)
    PROVE  Cascade(z, ids)
<1>. DEFINE start == [stack |-> ids, num |-> num_dependencies, dependents |-> dependents,
                      ready |-> << >>, assert |-> TRUE]
            N == Len(ids) + Cardinality(Transaction)
            Step(v) == UNION {popResolved(s) : s \in v}
            Body(f, n) == IF n = 0 THEN {start} ELSE Step(f[n - 1])
            IsLoop(f, m) == f = [n \in 0..m |-> Body(f, n)]
<1>1. N \in Nat /\ ids \in Seq(Transaction)
  <2>1. ids \in Seq(Transaction)
      BY DEF IInv, Typed
  <2>2. Cardinality(Transaction) \in Nat
      BY GroupAssumption, FS_CardinalityType
  <2>. QED  BY SMTT(30), <2>1, <2>2
<1>2. Cascade(start, ids)
  <2>1. /\ start \in Rounds /\ start.assert = TRUE /\ start.ready = << >>
        /\ start.stack = ids /\ start.num = num_dependencies /\ start.dependents = dependents
      BY SMTT(30), <1>1 DEF IInv, Typed, Rounds
  <2>2. Range(<< >>) = {} /\ IsInjective(<< >>) /\ Behind(<< >>)
      BY SMTT(30) DEF Range, IsInjective, Behind
  <2>3. \A tx : HoldersIn(start, tx) = Holders(tx)
      BY <2>1 DEF HoldersIn, Holders
  <2>4. \A tx \in Transaction : num_dependencies[tx] = Cardinality(Holders(tx))
      BY DEF IInv, Counted
  <2>. HIDE DEF start
  <2>. QED  BY <2>1, <2>2, <2>3, <2>4 DEF Cascade
<1>3. \E f : IsLoop(f, N)
  <2>. HIDE DEF N, Step, start
  <2>. DEFINE bad == {m \in 0..N : ~\E f : IsLoop(f, m)}
  <2>1. SUFFICES ASSUME bad # {} PROVE FALSE
    <3>1. N \in 0..N
        BY SMTT(30), <1>1
    <3>. QED  BY <3>1
  <2>0. bad \in SUBSET Nat
      BY SMTT(30)
  <2>2. PICK m \in bad : \A j \in bad : m <= j
      BY <2>0, <2>1, Least
  <2>3. m # 0
    <3>1. IsLoop([n \in 0..0 |-> {start}], 0)
        BY SMTT(30)
    <3>. QED  BY <2>2, <3>1
  <2>4. m \in Nat /\ m - 1 \in 0..N /\ m - 1 \notin bad
    <3>1. m \in 0..N
        OBVIOUS
    <3>2. m \in Nat /\ m - 1 \in 0..N /\ ~(m <= m - 1)
        BY SMTT(30), <1>1, <2>3, <3>1
    <3>. QED  BY <2>2, <3>2
  <2>5. PICK f : IsLoop(f, m - 1)
      BY <2>4
  <2>. DEFINE g == [n \in 0..m |-> IF n = m THEN Step(f[m - 1]) ELSE f[n]]
  <2>6. IsLoop(g, m)
    <3>1. ASSUME NEW n \in 0..m PROVE g[n] = Body(g, n)
      <4>1. CASE n = 0
          BY SMTT(30), <2>3, <2>4, <2>5, <4>1
      <4>2. CASE n = m
          BY SMTT(30), <2>3, <2>4, <2>5, <4>2
      <4>3. CASE n # 0 /\ n # m
        <5>1. n \in 0..(m - 1) /\ n - 1 \in 0..m /\ n - 1 # m
            BY SMTT(30), <2>4, <4>3
        <5>2. f[n] = Step(f[n - 1])
            BY <2>5, <4>3, <5>1
        <5>3. g[n] = f[n] /\ g[n - 1] = f[n - 1]
            BY <4>3, <5>1
        <5>. QED  BY <4>3, <5>2, <5>3
      <4>. QED  BY <4>1, <4>2, <4>3
    <3>. QED  BY <3>1
  <2>. QED  BY <2>2, <2>6
<1>4. PICK f : IsLoop(f, N) /\ resolveAll(ids) = f[N]
    BY <1>3 DEF resolveAll
<1>. DEFINE OK(m) == \A s \in f[m] : Cascade(s, ids)
<1>5. OK(N)
  <2>. DEFINE bad == {m \in 0..N : ~OK(m)}
  <2>1. SUFFICES ASSUME bad # {} PROVE FALSE
    <3>1. N \in 0..N
        BY SMTT(30), <1>1
    <3>. HIDE DEF OK
    <3>. QED  BY <3>1
  <2>0. bad \in SUBSET Nat
      BY SMTT(30)
  <2>2. PICK m \in bad : \A j \in bad : m <= j
      BY <2>0, <2>1, Least
  <2>3. m # 0
    <3>1. f[0] = {start}
        BY SMTT(30), <1>1, <1>4
    <3>. HIDE DEF start
    <3>2. OK(0)
        BY <1>2, <3>1
    <3>. HIDE DEF OK
    <3>. QED  BY <2>2, <3>2
  <2>4. m \in 1..N /\ m - 1 \in 0..N /\ m - 1 \notin bad
    <3>. HIDE DEF OK
    <3>1. m \in 0..N
        OBVIOUS
    <3>2. m \in 1..N /\ m - 1 \in 0..N /\ ~(m <= m - 1)
        BY SMTT(30), <1>1, <2>3, <3>1
    <3>. QED  BY <2>2, <3>2
  <2>5. OK(m - 1)
    <3>. HIDE DEF OK
    <3>. QED  BY <2>4
  <2>6. f[m] = UNION {popResolved(s) : s \in f[m - 1]}
      BY <1>4, <2>3, <2>4
  <2>7. OK(m)
      BY <2>5, <2>6, CascadeStep
  <2>. HIDE DEF OK
  <2>. QED  BY <2>2, <2>7
<1>. QED  BY <1>4, <1>5

(* register_committed_transactions makes ready the transactions whose last *)
(* dependency is resolved.                                                 *)
LEMMA registerIInv ==
    ASSUME IInv, NEW ids \in registering, register_committed_transactions(ids)
    PROVE  IInv'
<1>1. /\ Typed /\ Coordinators /\ Counted /\ CountsOK /\ HasSender /\ RegisteredOK
      /\ DoneMeansApplied /\ ~panicked
    BY DEF IInv
<1>2. PICK s \in resolveAll(ids) :
         /\ num_dependencies' = s.num /\ dependents' = s.dependents
         /\ panicked' = (panicked \/ ~s.assert)
         /\ IF s.ready = << >> THEN UNCHANGED groupVars
            ELSE addTransactions(s.ready) /\ UNCHANGED cycles
    BY DEF register_committed_transactions
<1>3. /\ adding = None
      /\ resolved_transactions' = resolved_transactions \cup Range(ids)
      /\ registering' = registering \ {ids}
      /\ UNCHANGED <<writes, depends, committed, applied, waiting_transactions, coordinator>>
    BY DEF register_committed_transactions, Unlocked, effectVars
<1>4. Cascade(s, ids)
    BY CascadeAll
<1>. DEFINE q == s.ready
<1>5. /\ s.num \in [Transaction -> Nat] /\ s.dependents \in [Transaction -> SUBSET Transaction]
      /\ q \in Seq(Transaction) /\ s.assert /\ IsInjective(q) /\ Behind(q)
      /\ \A tx \in Transaction : /\ s.num[tx] = Cardinality(HoldersIn(s, tx))
                                 /\ HoldersIn(s, tx) \subseteq Holders(tx)
      /\ \A tx \in Range(q) : num_dependencies[tx] > 0 /\ s.num[tx] = 0
      /\ \A tx \in Transaction \ Range(q) : num_dependencies[tx] > 0 => s.num[tx] > 0
    BY <1>4 DEF Cascade, Rounds
<1>6. IF q = << >> THEN UNCHANGED groupVars ELSE addTransactions(q) /\ UNCHANGED cycles
    BY <1>2
<1>. HIDE DEF q
<1>7. Range(q) \subseteq Transaction /\ Range(ids) \subseteq Transaction
    BY <1>1, <1>5, SeqFacts DEF Typed
<1>8. \A tx \in Transaction : /\ Holders(tx)' = HoldersIn(s, tx)
    BY <1>2 DEF Holders, HoldersIn
<1>9. ASSUME NEW tx \in Transaction
      PROVE  /\ num_dependencies[tx] > 0 => Submitted(tx)
             /\ num_dependencies[tx] = 0 => s.num[tx] = 0
             /\ num_dependencies[tx] \in Nat /\ s.num[tx] \in Nat
  <2>1. Holders(tx) \in SUBSET Transaction /\ IsFiniteSet(Holders(tx))
      BY GroupAssumption, FS_Subset DEF Holders
  <2>2. /\ Cardinality(Holders(tx)) \in Nat /\ (Cardinality(Holders(tx)) = 0 <=> Holders(tx) = {})
        /\ Cardinality({}) = 0
      BY <2>1, FS_CardinalityType, FS_EmptySet
  <2>3. num_dependencies[tx] = Cardinality(Holders(tx)) /\ (Holders(tx) # {} => Submitted(tx))
      BY <1>1 DEF Counted
  <2>4. s.num[tx] = Cardinality(HoldersIn(s, tx)) /\ HoldersIn(s, tx) \subseteq Holders(tx)
      BY <1>5
  <2>5. Holders(tx) = {} => s.num[tx] = 0
    <3>1. Holders(tx) = {} => HoldersIn(s, tx) = {}
        BY <2>4
    <3>. QED  BY <2>2, <2>4, <3>1
  <2>. QED  BY SMTT(30), <1>5, <2>2, <2>3, <2>5
<1>10. \A tx : Submitted(tx)' <=> Submitted(tx)
    BY <1>3 DEF Submitted
<1>11. \A tx : Ready(tx)' <=> (Ready(tx) \/ tx \in Range(q))
  <2>1. ASSUME NEW tx \in Transaction PROVE Ready(tx)' <=> (Ready(tx) \/ tx \in Range(q))
    <3>1. CASE tx \in Range(q)
        BY <1>2, <1>5, <1>9, <1>10, <3>1 DEF Ready
    <3>2. CASE tx \notin Range(q)
      <4>1. num_dependencies'[tx] = 0 <=> num_dependencies[tx] = 0
          BY SMTT(30), <1>2, <1>5, <1>9, <3>2
      <4>. QED  BY <1>10, <3>2, <4>1 DEF Ready
    <3>. QED  BY <3>1, <3>2
  <2>2. ASSUME NEW tx, tx \notin Transaction PROVE ~Ready(tx)' /\ ~Ready(tx) /\ tx \notin Range(q)
      BY <1>7, <2>2 DEF Ready, Submitted
  <2>. QED  BY <2>1, <2>2
<1>12. \A tx \in Range(q) : ~Ready(tx)
    BY SMTT(30), <1>5 DEF Ready
<1>13. \A tx \in Transaction : num_dependencies'[tx] > 0 => tx \in waiting_transactions'
  <2>1. ASSUME NEW tx \in Transaction, num_dependencies'[tx] > 0 PROVE num_dependencies[tx] > 0
      BY SMTT(30), <1>2, <1>9, <2>1
  <2>. QED  BY <1>1, <1>3, <2>1 DEF HasSender
<1>14. Range(q) \subseteq waiting_transactions' /\ waiting_transactions \subseteq waiting_transactions'
    BY <1>1, <1>3, <1>5, <1>7 DEF HasSender
<1>15. /\ AddingOK' /\ GroupsOK' /\ CyclesOK' /\ HeldOK' /\ AppliedOK' /\ CountsOK'
       /\ FinishedOK' /\ HasSender' /\ InOrder'
       /\ adding' \in AddCall \cup {None} /\ UNCHANGED <<group_per_participant,
             non_empty_groups, returned_transactions, cycles>>
       /\ num_pending_participant_commits' \in [Transaction -> Nat]
    BY <1>3, <1>5, <1>6, <1>11, <1>12, <1>13, <1>14, NewlyReady
<1>16. Typed'
    BY <1>1, <1>2, <1>3, <1>5, <1>7, <1>15 DEF Typed
<1>17. Counted'
  <2>1. ASSUME NEW tx \in Transaction
        PROVE  /\ num_dependencies'[tx] = Cardinality(Holders(tx)')
               /\ Holders(tx)' \subseteq depends[tx]
               /\ Holders(tx)' # {} => Submitted(tx)'
      BY <1>1, <1>2, <1>5, <1>8, <1>10 DEF Counted
  <2>. QED  BY <1>3, <2>1 DEF Counted
<1>18. Coordinators'
    BY <1>1, <1>3 DEF Coordinators
<1>19. RegisteredOK'
    BY <1>1, <1>3 DEF RegisteredOK, AppliedEverywhere, AppliedAt
<1>20. DoneMeansApplied'
    BY <1>1, <1>3 DEF DoneMeansApplied
<1>21. ~panicked'
    BY <1>1, <1>2, <1>5
<1>. QED  BY <1>15, <1>16, <1>17, <1>18, <1>19, <1>20, <1>21 DEF IInv

---------------------------------------------------------------------------

(* Initially nobody has submitted anything.                                *)
LEMMA InitIInv == Init => IInv
<1>. SUFFICES ASSUME Init PROVE IInv
    OBVIOUS
<1>1. /\ depends \in [Transaction -> SUBSET Transaction]
      /\ writes \in [Transaction -> SUBSET ParticipantRange]
    BY WorkloadAssumption DEF Init
<1>2. /\ adding = None /\ group_per_participant = [r \in ParticipantRange |-> << >>]
      /\ num_pending_participant_commits = [tx \in Transaction |-> 0]
      /\ non_empty_groups = {} /\ returned_transactions = << >> /\ cycles = {} /\ committed = {}
      /\ applied = [r \in ParticipantRange |-> << >>]
      /\ num_dependencies = [tx \in Transaction |-> 0] /\ dependents = [tx \in Transaction |-> {}]
      /\ resolved_transactions = {} /\ waiting_transactions = {} /\ registering = {}
      /\ coordinator = [tx \in Transaction |-> "prepared"] /\ panicked = FALSE
    BY DEF Init, GroupInit
<1>3. Names = {} /\ Held = {} /\ Collected = {} /\ Finishing = {} /\ CyclesOK
    BY <1>2 DEF Names, Held, Collected, Finishing, CyclesOK
<1>4. Range(<< >>) = {} /\ IsInjective(<< >>)
    BY SMTT(30) DEF Range, IsInjective
<1>5. Typed
    BY SMTT(30), <1>1, <1>2 DEF Typed
<1>6. \A tx : ~Submitted(tx) /\ ~Ready(tx)
    BY <1>2 DEF Submitted, Ready
<1>7. Coordinators
    BY <1>2 DEF Coordinators
<1>8. Counted
  <2>1. \A tx : Holders(tx) = {}
      BY <1>2 DEF Holders
  <2>. QED  BY <1>2, <2>1, FS_EmptySet DEF Counted
<1>9. AddingOK /\ GroupsOK
    BY <1>2, <1>4 DEF AddingOK, GroupsOK, AllReady
<1>10. HeldOK /\ AppliedOK
    BY <1>2, <1>3, <1>4 DEF HeldOK, AppliedOK
<1>11. CountsOK
  <2>1. \A tx : Counting(tx) = {}
      BY <1>3 DEF Counting
  <2>2. \A tx \in Transaction : CountOK(tx)
      BY <1>2, <1>6, <2>1, FS_EmptySet DEF CountOK
  <2>. QED  BY <1>2, <1>3, <1>4, <2>2 DEF CountsOK, AllReady
<1>12. FinishedOK /\ HasSender /\ RegisteredOK
    BY SMTT(30), <1>2, <1>3 DEF FinishedOK, HasSender, RegisteredOK
<1>13. DoneMeansApplied /\ ~panicked
    BY <1>2 DEF DoneMeansApplied
<1>14. InOrder
  <2>1. \A r : Queued(<< >>, r)
      BY SMTT(30) DEF Queued
  <2>2. SoleDependencyFirst
      BY SMTT(30), <1>1, <1>2 DEF SoleDependencyFirst, Before
  <2>. QED  BY <1>2, <1>3, <2>1, <2>2 DEF InOrder
<1>. QED  BY <1>3, <1>5, <1>7, <1>8, <1>9, <1>10, <1>11, <1>12, <1>13, <1>14 DEF IInv

(* Nothing changes when nothing changes.                                   *)
LEMMA StutterIInv == IInv /\ UNCHANGED vars => IInv'
<1>. SUFFICES ASSUME IInv, UNCHANGED vars PROVE IInv'
    OBVIOUS
<1>1. /\ Typed /\ CyclesOK /\ HasSender /\ Coordinators /\ RegisteredOK /\ DoneMeansApplied
      /\ ~panicked
    BY DEF IInv
<1>2. UNCHANGED <<writes, depends, adding, group_per_participant,
                  num_pending_participant_commits, non_empty_groups, returned_transactions,
                  cycles, committed, applied, num_dependencies, dependents,
                  resolved_transactions, waiting_transactions, registering, coordinator, panicked>>
    BY DEF vars, groupVars, effectVars, resolverVars
<1>3. SameReady
    BY <1>2 DEF SameReady, Ready, Submitted
<1>4. CyclesKept /\ Held' = Held /\ Collected' = Collected /\ Finishing' = Finishing
    BY <1>1, <1>2, SameCycles
<1>5. /\ Counted' /\ AddingOK' /\ GroupsOK' /\ HeldOK' /\ AppliedOK' /\ InOrder'
      /\ CountsOK' /\ FinishedOK'
    BY <1>2, <1>3, <1>4, StillFrame DEF CyclesKept
<1>6. Typed' /\ HasSender' /\ Coordinators' /\ DoneMeansApplied' /\ ~panicked'
    BY <1>1, <1>2, <1>4 DEF Typed, HasSender, Coordinators, DoneMeansApplied
<1>7. RegisteredOK'
    BY <1>1, <1>2 DEF RegisteredOK, AppliedEverywhere, AppliedAt
<1>. QED  BY <1>4, <1>5, <1>6, <1>7 DEF IInv, CyclesKept

(* Every reachable state satisfies the invariant.                          *)
THEOREM Invariance == Spec => []IInv
<1>1. ASSUME IInv, [Next]_vars PROVE IInv'
  <2>1. ASSUME NEW tx \in Transaction, coordinatorStep(tx) PROVE IInv'
      BY <1>1, <2>1, directRecordIInv, directApplyIInv, directRegisterIInv, commitReadOnlyIInv,
         commitIInv DEF coordinatorStep
  <2>2. CASE groupCommitStep
      BY <1>1, <2>2, extendGroupIInv, markNonEmptyIInv, commitSnapshotIInv, takeGroupIInv,
         recordBatchIInv, applyBatchIInv, returnBatchIInv, takeReturnedIInv, collectFinishedIInv
         DEF groupCommitStep, groupStep
  <2>3. CASE rangeFails
      BY <1>1, <2>3, failBatchIInv DEF rangeFails
  <2>4. ASSUME NEW tx \in Transaction, giveUp(tx) PROVE IInv'
      BY <1>1, <2>4, giveUpIInv
  <2>5. CASE resolverStep
      BY <1>1, <2>5, registerIInv, notifyIInv DEF resolverStep
  <2>6. CASE Quiet \/ UNCHANGED vars
      BY <1>1, <2>6, StutterIInv DEF Quiet
  <2>. QED  BY <1>1, <2>1, <2>2, <2>3, <2>4, <2>5, <2>6 DEF Next
<1>. QED  BY <1>1, InitIInv, PTL DEF Spec

(* The asserts and unwraps of resolver and group commit hold: a dependency *)
(* that is counted down was counted, every transaction that is finished    *)
(* has a sender, and no num_pending_participant_commits is counted below   *)
(* zero, whatever the cycles do meanwhile.                                 *)
THEOREM NoPanicHolds == Spec => []NoPanic
<1>1. ASSUME IInv PROVE NoPanic
  <2>1. ASSUME NEW c \in cycles, c.at = "count", NEW tx \in Transaction
        PROVE  countDown(tx, c.finished) >= 0
    <3>. DEFINE x == <<c.of, c.finished>>
    <3>1. x \in Collected /\ x[2] = c.finished
        BY <2>1 DEF Collected, CollectedBy
    <3>2. Typed /\ CyclesOK /\ CountsOK /\ CountOK(tx)
        BY <1>1 DEF IInv, CountsOK
    <3>3. c.finished \in Seq(Transaction)
        BY <3>2 DEF Typed, Cycle
    <3>4. timesIn(tx, c.finished) \in Nat /\ (timesIn(tx, c.finished) = 0 <=> tx \notin Range(c.finished))
        BY <3>3, TimesFacts
    <3>. HIDE DEF x
    <3>5. timesIn(tx, c.finished) <= Cardinality(Counting(tx))
        BY <3>1, <3>2, <3>3, CountingLess DEF CountOK
    <3>6. /\ Cardinality(Open(tx)) \in Nat /\ timesIn(tx, returned_transactions) \in Nat
          /\ Cardinality(Counting(tx)) \in Nat /\ num_pending_participant_commits[tx] \in Nat
        BY <3>2, CountTypes
    <3>7. CASE Ready(tx)
        BY SMTT(30), <3>2, <3>4, <3>5, <3>6, <3>7 DEF CountOK, countDown
    <3>8. CASE ~Ready(tx)
      <4>1. tx \notin Range(c.finished)
          BY <3>1, <3>2, <3>8 DEF CountsOK, AllReady
      <4>. QED  BY SMTT(30), <3>4, <3>6, <4>1 DEF countDown
    <3>. QED  BY <3>7, <3>8
  <2>. QED  BY <1>1, <2>1 DEF NoPanic, IInv
<1>. QED  BY <1>1, Invariance, PTL

(* A range applies a transaction at most once, whether it comes in a group *)
(* or directly from its coordinator.                                       *)
THEOREM AppliedOnceHolds == Spec => []AppliedOnce
<1>1. IInv => AppliedOnce
    BY DEF IInv, AppliedOK, AppliedOnce
<1>. QED  BY <1>1, Invariance, PTL

(* A coordinator that is told its transaction is committed finds it        *)
(* recorded and applied at every range it wrote to.                        *)
THEOREM DoneMeansAppliedHolds == Spec => []DoneMeansApplied
<1>1. IInv => DoneMeansApplied
    BY DEF IInv
<1>. QED  BY <1>1, Invariance, PTL

(* A range that applies a transaction has applied the only transaction it  *)
(* depends on before it: the order in which                                *)
(* register_committed_transactions pushes the ready ones, add_transactions *)
(* appends them and commit takes them is kept to the end.                  *)
THEOREM SoleDependencyFirstHolds == Spec => []SoleDependencyFirst
<1>1. IInv => SoleDependencyFirst
    BY DEF IInv, InOrder
<1>. QED  BY <1>1, Invariance, PTL
=============================================================================
