------------------------ MODULE CommitProtocolProofs ------------------------
(***************************************************************************)
(* Proofs about CommitProtocol, for any transactions, ranges, programs and *)
(* strategies: a decision is carried out at every range or at none, and no *)
(* transaction that is committed or applied has read from one that is      *)
(* aborted or whose commit is still open.                                  *)
(***************************************************************************)
EXTENDS CommitProtocol, TLAPS

USE NoneAssumption, Zenon

Served == {"prepare", "acquire", "prepared", "refused", "dropped"}
Open == {"none", "get", "read", "finished"} \cup Served
Participation == Open \cup {"resolver", "commit"}
Writer == Transaction \cup {None}

Typed ==
    /\ scenario \in Scenarios
    /\ state \in [Transaction -> {"Running", "Preparing", "Aborted", "Committed"}]
    /\ participant \in [Transaction -> [Key -> Participation]]
    /\ applied \in [Key -> Seq(Transaction)]
    /\ status \in [Transaction -> {"started", "aborted", "committed"}]
    /\ pending_commit_table \in [Key -> Writer]
    /\ store \in [Key -> Writer]
    /\ dependencies \in [Transaction -> SUBSET Transaction]
    /\ DOMAIN readset = Transaction
    /\ ready \subseteq Transaction /\ resolved_transactions \subseteq Transaction
    /\ pending \in [Transaction -> SUBSET Transaction]

(* Before the commit is sent, no range has applied the transaction.        *)
Undecided(tx) ==
    /\ \A r \in Key : ~Applied(tx, r)
    /\ \/ /\ state[tx] = "Running"
          /\ \A r \in Key : participant[tx][r] \in {"none", "get", "read"}
       \/ /\ state[tx] = "Aborted"
          /\ \A r \in Key : participant[tx][r] \in Open
       \/ /\ state[tx] = "Preparing"
          /\ \A r \in Key : IF r \in Participants(tx)
                            THEN participant[tx][r] \in Served
                            ELSE participant[tx][r] = "finished"
       \/ /\ state[tx] = "Preparing"
          /\ \A r \in Key : participant[tx][r] = "resolver"

(* Afterwards those it was sent to either have applied it or are about to. *)
Decided(tx) ==
    /\ state[tx] \in {"Preparing", "Committed"}
    /\ \A r \in Key :
          \/ r \in SentCommit(tx) /\ participant[tx][r] = "commit" /\ ~Applied(tx, r)
          \/ r \in SentCommit(tx) /\ participant[tx][r] = "finished" /\ Applied(tx, r)
          \/ r \notin SentCommit(tx) /\ participant[tx][r] = "finished" /\ ~Applied(tx, r)

Phases ==
    /\ \A tx \in Transaction : Undecided(tx) \/ Decided(tx)
    /\ \A r \in Key : IsInjective(applied[r])

(* What is in the store is committed.                                      *)
Committed(w) == w # None => w \in Transaction /\ status[w] = "committed"
StoreCommitted == \A r \in Key : Committed(store[r])

(* What a transaction has read is committed or one of its dependencies.    *)
ReadsKnown ==
    \A tx \in Transaction : \A r \in DOMAIN readset[tx] :
       Committed(readset[tx][r]) \/ readset[tx][r] \in dependencies[tx]

(* A transaction that is sent to its ranges has no dependencies, or the    *)
(* resolver has found all of them ready.                                   *)
Released(tx) ==
    state[tx] = "Committed" \/ \E r \in Key : participant[tx][r] = "commit" \/ Applied(tx, r)

SentInOrder ==
    /\ strategy = "Traditional" => \A tx \in Transaction : dependencies[tx] = {}
    /\ \A tx \in Transaction : Released(tx) => dependencies[tx] = {} \/ tx \in ready
    /\ \A tx \in ready : /\ \A r \in Key : participant[tx][r] \in {"commit", "finished"}
                         /\ dependencies[tx] \subseteq resolved_transactions \cup ready
    /\ \A tx \in resolved_transactions : status[tx] = "committed"

(* A transaction that waits in the resolver waits for all its dependencies *)
(* but for those that are registered or ready.                             *)
Waits(tx) ==
    /\ SentCommit(tx) # {} /\ state[tx] = "Preparing"
    /\ \A r \in Key : participant[tx][r] = "resolver"
    /\ dependencies[tx] \subseteq pending[tx] \cup resolved_transactions \cup ready

WaitsForAll == \A tx \in waiting : Waits(tx)

(* What is recorded committed or made ready can no longer be aborted.      *)
Sealed == \A tx \in Transaction : status[tx] = "committed" \/ tx \in ready => Decided(tx)

IInv ==
    /\ Typed /\ Phases /\ StoreCommitted /\ ReadsKnown /\ SentInOrder /\ WaitsForAll
    /\ Sealed

---------------------------------------------------------------------------

Placed(tx) == Undecided(tx) \/ Decided(tx)

(* The ranges a program writes to are among its participants.              *)
LEMMA ProgramType ==
    ASSUME Typed, NEW tx \in Transaction
    PROVE  /\ Participants(tx) \subseteq Key
           /\ SentCommit(tx) \subseteq Participants(tx)
           /\ SentCommit(tx) = program[tx].puts
<1>1. program[tx] \in Program
  BY SMTT(30), ScenarioAssumption DEF Typed, program
<1>2. /\ program[tx].gets \in Seq(Key)
      /\ program[tx].puts \subseteq Key
      /\ program[tx].deletes \subseteq Key
  BY <1>1 DEF Program
<1>3. Range(program[tx].gets) \subseteq Key
  BY SMTT(30), <1>2 DEF Range
<1> QED
  BY <1>2, <1>3 DEF Participants, SentCommit

(* Initially every transaction runs.                                       *)
LEMMA InitIInv == Init => IInv
<1> SUFFICES ASSUME Init PROVE IInv
  OBVIOUS
<1>1. Typed
  BY SMTT(30) DEF Init, Typed, Participation, Open, Writer, start_transaction
<1>2. \A tx \in Transaction, r \in Key : ~Applied(tx, r)
  BY SMTT(30) DEF Init, Applied, Range
<1>3. Phases
  BY SMTT(30), <1>2 DEF Init, Phases, Undecided, IsInjective
<1>4. StoreCommitted /\ ReadsKnown
  BY SMTT(30) DEF Init, StoreCommitted, ReadsKnown, Committed
<1>5. SentInOrder
  BY <1>2 DEF Init, SentInOrder, Released
<1>6. WaitsForAll
  BY DEF Init, WaitsForAll, waiting
<1>7. Sealed
  BY DEF Init, Sealed, start_transaction
<1> QED
  BY <1>1, <1>3, <1>4, <1>5, <1>6, <1>7 DEF IInv

(* A transaction that nobody touches stays where it is.                    *)
LEMMA PlacedFrame ==
    ASSUME NEW t \in Transaction, Placed(t), scenario' = scenario,
           participant'[t] = participant[t], state'[t] = state[t],
           \A r \in Key : Applied(t, r)' <=> Applied(t, r)
    PROVE  Placed(t)' /\ (Decided(t) => Decided(t)')
<1>1. Participants(t)' = Participants(t) /\ SentCommit(t)' = SentCommit(t)
  BY DEF Participants, SentCommit, program
<1>2. Undecided(t) => Undecided(t)'
  BY <1>1 DEF Undecided
<1>3. Decided(t) => Decided(t)'
  BY <1>1 DEF Decided
<1> QED
  BY <1>2, <1>3 DEF Placed

(* What is sealed stays so if the transaction that moves does.             *)
LEMMA MoveSealed ==
    ASSUME Phases, Sealed, NEW tx \in Transaction, scenario' = scenario,
           \A t \in Transaction \ {tx} :
              /\ participant'[t] = participant[t] /\ state'[t] = state[t]
              /\ status'[t] = status[t]
              /\ \A r \in Key : Applied(t, r)' <=> Applied(t, r),
           ready' \subseteq ready \cup {tx},
           status'[tx] = "committed" \/ tx \in ready' => Decided(tx)'
    PROVE  Sealed'
<1> SUFFICES ASSUME NEW t \in Transaction, t # tx, status'[t] = "committed" \/ t \in ready'
             PROVE  Decided(t)'
  BY DEF Sealed
<1>1. Decided(t) /\ Placed(t)
  BY DEF Sealed, Placed
<1> QED
  BY <1>1, PlacedFrame

(* A transaction moves at its participants; no range applies anything.     *)
LEMMA MovePhases ==
    ASSUME Typed, Phases, NEW tx \in Transaction, scenario' = scenario, applied' = applied,
           \A t \in Transaction \ {tx} :
              participant'[t] = participant[t] /\ state'[t] = state[t],
           Placed(tx)'
    PROVE  Phases'
<1>1. \A t \in Transaction, r \in Key : Applied(t, r)' <=> Applied(t, r)
  BY DEF Applied
<1>2. ASSUME NEW t \in Transaction PROVE Placed(t)'
  <2>1. CASE t = tx
    BY <2>1
  <2>2. CASE t # tx
    <3>1. Placed(t)
      BY DEF Phases, Placed
    <3> QED
      BY <3>1, <2>2, <1>1, PlacedFrame
  <2> QED
    BY <2>1, <2>2
<1> QED
  BY <1>2 DEF Phases, Placed

(* Nothing is applied and no status is taken back from committed: what has *)
(* been sent stays in order if it does for the transaction that moves.     *)
LEMMA MoveInOrder ==
    ASSUME Typed, SentInOrder, NEW tx \in Transaction, applied' = applied,
           UNCHANGED <<strategy, resolved_transactions>>,
           dependencies \in [Transaction -> SUBSET Transaction],
           \A t \in Transaction \ {tx} :
              /\ participant'[t] = participant[t] /\ state'[t] = state[t]
              /\ dependencies'[t] = dependencies[t],
           ready \subseteq ready', ready' \subseteq ready \cup {tx},
           \A t \in Transaction : status[t] = "committed" => status'[t] = "committed",
           strategy = "Traditional" => dependencies'[tx] = {},
           Released(tx)' => dependencies'[tx] = {} \/ tx \in ready',
           tx \in ready' => /\ \A r \in Key : participant'[tx][r] \in {"commit", "finished"}
                            /\ dependencies'[tx] \subseteq resolved_transactions \cup ready'
    PROVE  SentInOrder'
<1>1. \A t \in Transaction \ {tx} : Released(t)' => Released(t)
  BY DEF Released, Applied
<1>2. (strategy = "Traditional" => \A t \in Transaction : dependencies[t] = {})'
  BY DEF SentInOrder
<1>3. (\A t \in Transaction : Released(t) => dependencies[t] = {} \/ t \in ready)'
  BY <1>1 DEF SentInOrder
<1>4. (\A t \in ready : /\ \A r \in Key : participant[t][r] \in {"commit", "finished"}
                        /\ dependencies[t] \subseteq resolved_transactions \cup ready)'
  BY ZenonT(60) DEF SentInOrder, Typed
<1>5. (\A t \in resolved_transactions : status[t] = "committed")'
  BY DEF SentInOrder, Typed
<1> QED
  BY <1>2, <1>3, <1>4, <1>5 DEF SentInOrder

(* Who waits goes on waiting for what it has to, if the transaction that   *)
(* moves does.                                                             *)
LEMMA MoveWaits ==
    ASSUME WaitsForAll, NEW tx \in Transaction, scenario' = scenario,
           \A t \in Transaction \ {tx} :
              /\ participant'[t] = participant[t] /\ state'[t] = state[t]
              /\ dependencies'[t] = dependencies[t] /\ pending'[t] = pending[t],
           ready \subseteq ready', resolved_transactions \subseteq resolved_transactions',
           pending'[tx] # {} => Waits(tx)'
    PROVE  WaitsForAll'
<1> SUFFICES ASSUME NEW t \in Transaction, t # tx, pending'[t] # {}
             PROVE  Waits(t)'
  BY DEF WaitsForAll, waiting
<1>1. Waits(t)
  BY DEF WaitsForAll, waiting
<1>2. SentCommit(t)' = SentCommit(t)
  BY DEF SentCommit, program
<1> QED
  BY <1>1, <1>2 DEF Waits

---------------------------------------------------------------------------
(* A step of a transaction at one of its ranges, before it is sent         *)

Hop == {<<"none", "get">>, <<"get", "read">>, <<"prepare", "refused">>,
        <<"prepare", "prepared">>, <<"prepare", "acquire">>, <<"acquire", "prepared">>,
        <<"prepare", "dropped">>}

(* A participation that changes is the only one.                           *)
LEMMA AtFacts ==
    ASSUME Typed, NEW tx \in Transaction, NEW r \in Key, NEW to \in Participation,
           At(tx, r, to)
    PROVE  /\ participant' \in [Transaction -> [Key -> Participation]]
           /\ participant'[tx][r] = to
           /\ \A k \in Key \ {r} : participant'[tx][k] = participant[tx][k]
           /\ \A t \in Transaction \ {tx} : participant'[t] = participant[t]
BY DEF Typed, At

(* A get or a prepare at a range leaves its transaction undecided.         *)
LEMMA HopPlaced ==
    ASSUME Typed, Phases, NEW tx \in Transaction, NEW r \in Key, NEW from, NEW to,
           <<from, to>> \in Hop, participant[tx][r] = from, At(tx, r, to),
           from = "none" => state[tx] = "Running",
           scenario' = scenario, applied' = applied, state' = state
    PROVE  ~Decided(tx) /\ Undecided(tx) /\ Undecided(tx)'
<1>1. /\ from \in {"none", "get", "prepare", "acquire"}
      /\ to \in {"get", "read"} \cup Served
  BY DEF Hop, Served
<1>2. to \in Open /\ to \in Participation
  BY <1>1 DEF Participation, Open
<1>3. ~Decided(tx) /\ Undecided(tx)
  BY <1>1 DEF Phases, Decided
<1>4. \A k \in Key : ~Applied(tx, k)'
  BY <1>3 DEF Undecided, Applied
<1>5. Participants(tx)' = Participants(tx)
  BY DEF Participants, program
<1>6. /\ participant'[tx][r] = to
      /\ \A k \in Key \ {r} : participant'[tx][k] = participant[tx][k]
  BY ZenonT(60), <1>2, AtFacts
<1>7. CASE state[tx] = "Running"
  <2>1. from \in {"none", "get"}
    BY <1>1, <1>3, <1>7 DEF Undecided
  <2>2. to \in {"get", "read"}
    BY <2>1 DEF Hop
  <2> QED
    BY <1>3, <1>4, <1>6, <1>7, <2>2 DEF Undecided
<1>8. CASE state[tx] = "Aborted"
  BY <1>2, <1>3, <1>4, <1>6, <1>8 DEF Undecided
<1>9. CASE state[tx] = "Preparing"
  <2>1. from \in {"prepare", "acquire"} /\ r \in Participants(tx)
    BY <1>1, <1>3, <1>9 DEF Undecided, Served
  <2>2. to \in Served
    BY <2>1 DEF Hop, Served
  <2>3. \A k \in Key : IF k \in Participants(tx)
                       THEN participant[tx][k] \in Served
                       ELSE participant[tx][k] = "finished"
    BY <2>1, <1>3, <1>9 DEF Undecided
  <2>4. (\A k \in Key : IF k \in Participants(tx)
                        THEN participant[tx][k] \in Served
                        ELSE participant[tx][k] = "finished")'
    BY <2>1, <2>2, <2>3, <1>5, <1>6
  <2>5. state'[tx] = "Preparing"
    BY <1>9
  <2> QED
    BY <2>4, <2>5, <1>3, <1>4 DEF Undecided
<1> QED
  BY <1>3, <1>7, <1>8, <1>9 DEF Undecided

(* Any step of a get or a prepare at a range                               *)
LEMMA HopIInv ==
    ASSUME IInv, NEW tx \in Transaction, NEW r \in Key, NEW from, NEW to,
           <<from, to>> \in Hop, participant[tx][r] = from, At(tx, r, to),
           from = "none" => state[tx] = "Running",
           UNCHANGED <<strategy, scenario, applied, store, state, status, resolverVars>>,
           pending_commit_table' \in [Key -> Writer],
           dependencies' \in [Transaction -> SUBSET Transaction],
           \A t \in Transaction \ {tx} : dependencies'[t] = dependencies[t],
           strategy = "Traditional" => dependencies' = dependencies,
           DOMAIN readset' = Transaction, ReadsKnown'
    PROVE  IInv'
<1>1. ~Decided(tx) /\ Undecided(tx) /\ Undecided(tx)'
  BY HopPlaced DEF IInv
<1>2. to \in Participation
  BY DEF Hop, Participation, Open, Served
<1>3. Typed'
  BY <1>2, AtFacts DEF IInv, Typed, resolverVars
<1>4. Phases'
  BY ZenonT(60), <1>1, <1>2, AtFacts, MovePhases DEF IInv, Placed
<1>5. StoreCommitted'
  BY DEF IInv, StoreCommitted, Committed
<1>6. tx \notin ready
  BY DEF IInv, SentInOrder, Hop
<1>7. ~Released(tx)'
  BY <1>1 DEF Undecided, Released, Open, Served
<1>8. strategy = "Traditional" => dependencies'[tx] = {}
  BY DEF IInv, SentInOrder
<1>9. SentInOrder'
  BY ZenonT(60), <1>2, <1>6, <1>7, <1>8, AtFacts, MoveInOrder DEF IInv, Typed, resolverVars
<1>10. WaitsForAll'
  <2>1. pending'[tx] = {}
    BY DEF IInv, WaitsForAll, Waits, waiting, resolverVars, Hop
  <2> QED
    BY SMTT(30), <1>2, <2>1, AtFacts, MoveWaits DEF IInv, resolverVars
<1>11. Sealed'
  <2>1. ~(status'[tx] = "committed" \/ tx \in ready')
    BY <1>1 DEF IInv, Sealed, resolverVars
  <2>2. \A t, k : Applied(t, k)' <=> Applied(t, k)
    BY DEF Applied
  <2>3. \A t \in Transaction \ {tx} : participant'[t] = participant[t]
    BY <1>2, AtFacts DEF IInv
  <2> QED
    BY <2>1, <2>2, <2>3, MoveSealed DEF IInv, resolverVars
<1> QED
  BY <1>3, <1>4, <1>5, <1>9, <1>10, <1>11 DEF IInv

(* Such steps that change no dependency                                    *)
LEMMA QuietHops ==
    ASSUME IInv, NEW tx \in Transaction, NEW r \in Key,
           \/ get(tx, r) \/ prepareReadOnly(tx, r) \/ prepareAcquire(tx, r)
           \/ prepareRefused(tx, r) \/ prepareDropped(tx, r)
    PROVE  IInv'
<1>1. /\ UNCHANGED <<strategy, scenario, applied, store, state, status, resolverVars>>
      /\ UNCHANGED <<pending_commit_table, dependencies, readset>>
  BY DEF get, prepareReadOnly, prepareAcquire, prepareRefused, prepareDropped, rangeVars
<1>2. ReadsKnown'
  BY <1>1 DEF IInv, ReadsKnown, Committed
<1>3. /\ pending_commit_table' \in [Key -> Writer]
      /\ dependencies' \in [Transaction -> SUBSET Transaction]
      /\ DOMAIN readset' = Transaction
  BY <1>1 DEF IInv, Typed
<1>4. PICK from, to : /\ <<from, to>> \in Hop /\ participant[tx][r] = from /\ At(tx, r, to)
                      /\ from = "none" => state[tx] = "Running"
  <2>1. CASE get(tx, r)
    BY <2>1 DEF get, Hop
  <2>2. CASE prepareRefused(tx, r) \/ prepareDropped(tx, r)
    BY <2>2 DEF prepareRefused, prepareDropped, Hop
  <2>3. CASE prepareReadOnly(tx, r)
    BY <2>3 DEF prepareReadOnly, Hop
  <2>4. CASE prepareAcquire(tx, r)
    BY <2>4 DEF prepareAcquire, Hop
  <2> QED
    BY <2>1, <2>2, <2>3, <2>4
<1> QED
  BY <1>1, <1>2, <1>3, <1>4, HopIInv

(* A get returns the value, and the writer as a dependency if it is        *)
(* pending.                                                                *)
LEMMA getReplyIInv ==
    ASSUME IInv, NEW tx \in Transaction, NEW r \in Key, getReply(tx, r)
    PROVE  IInv'
<1> DEFINE writer == pending_commit_table[r]
           dirty == strategy # "Traditional" /\ writer # None
           value == IF dirty THEN writer ELSE store[r]
<1>1. /\ UNCHANGED <<strategy, scenario, applied, store, state, status, resolverVars>>
      /\ UNCHANGED pending_commit_table
      /\ participant[tx][r] = "get" /\ At(tx, r, "read")
      /\ readset' = [readset EXCEPT ![tx] = Insert(readset[tx], r, value)]
      /\ dependencies' = IF dirty
                         THEN [dependencies EXCEPT ![tx] = dependencies[tx] \cup {writer}]
                         ELSE dependencies
  BY DEF getReply, readDependencies
<1>2. writer \in Writer /\ DOMAIN readset = Transaction
  BY DEF IInv, Typed
<1>3. dirty => writer \in Transaction
  BY <1>2 DEF Writer
<1>4. /\ dependencies' \in [Transaction -> SUBSET Transaction]
      /\ \A t \in Transaction \ {tx} : dependencies'[t] = dependencies[t]
      /\ dependencies[tx] \subseteq dependencies'[tx]
      /\ dirty => writer \in dependencies'[tx]
      /\ strategy = "Traditional" => dependencies' = dependencies
  BY <1>1, <1>3 DEF IInv, Typed
<1>5. /\ DOMAIN readset' = Transaction
      /\ readset'[tx] = Insert(readset[tx], r, value)
      /\ \A t \in Transaction \ {tx} : readset'[t] = readset[t]
  BY <1>1, <1>2
<1>6. Committed(value) \/ value \in dependencies'[tx]
  BY <1>4 DEF IInv, StoreCommitted
<1>7. \A w : Committed(w)' <=> Committed(w)
  BY <1>1 DEF Committed
<1>8. ReadsKnown'
  <2>1. ASSUME NEW t \in Transaction, NEW k \in DOMAIN readset'[t]
        PROVE  Committed(readset'[t][k]) \/ readset'[t][k] \in dependencies'[t]
    <3>1. CASE t = tx /\ k = r
      BY <3>1, <1>5, <1>6 DEF Insert
    <3>2. CASE ~(t = tx /\ k = r)
      <4>1. k \in DOMAIN readset[t] /\ readset'[t][k] = readset[t][k]
        BY ZenonT(60), <2>1, <3>2, <1>5 DEF Insert
      <4> QED
        BY <4>1, <1>4 DEF IInv, ReadsKnown
    <3> QED
      BY <3>1, <3>2
  <2> QED
    BY <2>1, <1>7 DEF ReadsKnown
<1>9. pending_commit_table' \in [Key -> Writer]
  BY <1>1 DEF IInv, Typed
<1>10. <<"get", "read">> \in Hop
  BY DEF Hop
<1> HIDE DEF value, dirty
<1> QED
  BY <1>1, <1>4, <1>5, <1>8, <1>9, <1>10, HopIInv

(* A prepare returns the dependencies of its write.                        *)
LEMMA prepareReplyIInv ==
    ASSUME IInv, NEW tx \in Transaction, NEW r \in Key, prepareReply(tx, r)
    PROVE  IInv'
<1>1. /\ UNCHANGED <<strategy, scenario, applied, store, state, status, resolverVars>>
      /\ UNCHANGED readset
      /\ participant[tx][r] = "acquire" /\ At(tx, r, "prepared")
  BY DEF prepareReply
<1>2. /\ pending_commit_table' \in [Key -> Writer]
      /\ dependencies' \in [Transaction -> SUBSET Transaction]
      /\ \A t \in Transaction \ {tx} : dependencies'[t] = dependencies[t]
      /\ dependencies[tx] \subseteq dependencies'[tx]
      /\ strategy = "Traditional" => dependencies' = dependencies
  <2>1. CASE strategy = "Traditional"
    <3>1. UNCHANGED <<dependencies, pending_commit_table>>
      BY <2>1 DEF prepareReply
    <3> QED
      BY <3>1 DEF IInv, Typed
  <2>2. CASE strategy # "Traditional"
    <3>1. PICK early :
             /\ dependencies' = [dependencies EXCEPT ![tx] =
                   dependencies[tx] \cup writeDependencies(pending_commit_table, {r})]
             /\ pending_commit_table' = pendingAfterPrepare(pending_commit_table, tx, early)
      BY <2>2 DEF prepareReply
    <3>2. writeDependencies(pending_commit_table, {r}) \subseteq Transaction
      BY SMTT(30) DEF writeDependencies, IInv, Typed, Writer
    <3>3. pendingAfterPrepare(pending_commit_table, tx, early) \in [Key -> Writer]
      BY DEF pendingAfterPrepare, IInv, Typed, Writer
    <3> QED
      BY <2>2, <3>1, <3>2, <3>3 DEF IInv, Typed
  <2> QED
    BY <2>1, <2>2
<1>3. ReadsKnown'
  BY <1>1, <1>2 DEF IInv, ReadsKnown, Committed
<1>4. DOMAIN readset' = Transaction
  BY <1>1 DEF IInv, Typed
<1>5. <<"acquire", "prepared">> \in Hop
  BY DEF Hop
<1> QED
  BY <1>1, <1>2, <1>3, <1>4, <1>5, HopIInv

---------------------------------------------------------------------------
(* Steps of the coordinator and of the resolver                            *)

(* Any step of a coordinator or of the resolver on one transaction         *)
LEMMA MoveIInv ==
    ASSUME IInv, NEW tx \in Transaction, NEW f \in [Key -> Participation],
           participant' = [participant EXCEPT ![tx] = f],
           UNCHANGED <<strategy, scenario, rangeVars, readset, dependencies,
                       resolved_transactions>>,
           state' \in [Transaction -> {"Running", "Preparing", "Aborted", "Committed"}],
           status' \in [Transaction -> {"started", "aborted", "committed"}],
           \A t \in Transaction \ {tx} : state'[t] = state[t] /\ status'[t] = status[t],
           \A t \in Transaction : status[t] = "committed" => status'[t] = "committed",
           ready \subseteq ready', ready' \subseteq ready \cup {tx},
           Placed(tx)', status'[tx] = "committed" \/ tx \in ready' => Decided(tx)',
           Released(tx)' => dependencies[tx] = {} \/ tx \in ready',
           tx \in ready' => /\ \A r \in Key : f[r] \in {"commit", "finished"}
                            /\ dependencies[tx] \subseteq resolved_transactions \cup ready',
           pending' \in [Transaction -> SUBSET Transaction],
           \A t \in Transaction \ {tx} : pending'[t] = pending[t],
           pending'[tx] # {} => Waits(tx)'
    PROVE  IInv'
<1>1. /\ participant' \in [Transaction -> [Key -> Participation]]
      /\ participant'[tx] = f
      /\ \A t \in Transaction \ {tx} : participant'[t] = participant[t]
  BY DEF IInv, Typed
<1>2. Typed'
  BY SMTT(30), <1>1 DEF IInv, Typed, rangeVars
<1>3. Phases'
  BY <1>1, MovePhases DEF IInv, rangeVars
<1>4. StoreCommitted' /\ ReadsKnown'
  BY DEF IInv, StoreCommitted, ReadsKnown, Committed, rangeVars
<1>5. SentInOrder'
  <2>1. strategy = "Traditional" => dependencies'[tx] = {}
    BY DEF IInv, SentInOrder
  <2> QED
    BY <1>1, <2>1, MoveInOrder DEF IInv, Typed, rangeVars
<1>6. WaitsForAll'
  BY <1>1, MoveWaits DEF IInv
<1>7. Sealed'
  <2>1. \A t, k : Applied(t, k)' <=> Applied(t, k)
    BY DEF Applied, rangeVars
  <2> QED
    BY <1>1, <2>1, MoveSealed DEF IInv
<1> QED
  BY <1>2, <1>3, <1>4, <1>5, <1>6, <1>7 DEF IInv

(* Nothing is applied while the lists of the ranges stay.                  *)
LEMMA AppliedFrame ==
    ASSUME applied' = applied
    PROVE  \A t, r : Applied(t, r)' <=> Applied(t, r)
BY DEF Applied

(* A transaction that is not decided is aborted.                           *)
LEMMA recordAbortIInv ==
    ASSUME IInv, NEW tx \in Transaction, NEW ranges, record_abort(tx, ranges),
           ~Decided(tx), pending[tx] = {}, \A r \in Key : participant[tx][r] \in Open
    PROVE  IInv'
<1> DEFINE f == participant[tx]
<1>1. /\ state' = [state EXCEPT ![tx] = "Aborted"]
      /\ status' = [status EXCEPT ![tx] = abort_transaction(status[tx])]
      /\ UNCHANGED <<strategy, scenario, rangeVars, participant, readset, dependencies,
                     resolverVars>>
  BY DEF record_abort
<1>2. \A r \in Key : ~Applied(tx, r)
  BY DEF IInv, Phases, Undecided
<1>3. f \in [Key -> Participation] /\ participant' = [participant EXCEPT ![tx] = f]
  BY <1>1 DEF IInv, Typed
<1>4. \A r \in Key : ~Applied(tx, r)'
  BY <1>1, <1>2, AppliedFrame DEF rangeVars
<1>5. /\ state'[tx] = "Aborted"
      /\ state' \in [Transaction -> {"Running", "Preparing", "Aborted", "Committed"}]
      /\ status' \in [Transaction -> {"started", "aborted", "committed"}]
      /\ \A t \in Transaction \ {tx} : state'[t] = state[t] /\ status'[t] = status[t]
      /\ \A t \in Transaction : status[t] = "committed" => status'[t] = "committed"
      /\ status'[tx] = "committed" => status[tx] = "committed"
  BY <1>1 DEF IInv, Typed, abort_transaction
<1>6. Placed(tx)'
  BY <1>1, <1>4, <1>5 DEF Placed, Undecided
<1>7. ~Released(tx)'
  BY <1>1, <1>4, <1>5 DEF Released, Open, Served
<1>8. tx \notin ready /\ status'[tx] # "committed"
  BY <1>5 DEF IInv, Sealed
<1>9. pending \in [Transaction -> SUBSET Transaction]
  BY DEF IInv, Typed
<1> HIDE DEF f
<1> QED
  BY <1>1, <1>3, <1>5, <1>6, <1>7, <1>8, <1>9, MoveIInv DEF resolverVars

(* The client aborts.                                                      *)
LEMMA abortIInv ==
    ASSUME IInv, NEW tx \in Transaction, abort(tx)
    PROVE  IInv'
<1>1. state[tx] = "Running" /\ record_abort(tx, Touched(tx))
  BY DEF abort
<1>2. ~Decided(tx) /\ \A r \in Key : participant[tx][r] \in Open
  BY <1>1 DEF IInv, Phases, Undecided, Decided, Open
<1>3. pending[tx] = {}
  BY <1>1 DEF IInv, WaitsForAll, Waits, waiting
<1> QED
  BY <1>1, <1>2, <1>3, recordAbortIInv

(* The coordinator aborts after the panic of a prepare task.               *)
LEMMA preparePanicsIInv ==
    ASSUME IInv, NEW tx \in Transaction, preparePanics(tx)
    PROVE  IInv'
<1>1. /\ state[tx] = "Preparing" /\ record_abort(tx, Participants(tx))
      /\ Participants(tx) # {}
      /\ \A r \in Participants(tx) : participant[tx][r] \in Outstanding
  BY DEF preparePanics
<1>2. PICK r \in Key : r \in Participants(tx) /\ participant[tx][r] \in Outstanding
  BY <1>1, ProgramType DEF IInv
<1>3. ~Decided(tx) /\ pending[tx] = {}
  BY <1>2 DEF Decided, Outstanding, IInv, WaitsForAll, Waits, waiting
<1>4. \A k \in Key : participant[tx][k] \in Open
  BY <1>1, <1>2, <1>3 DEF IInv, Phases, Undecided, Open, Outstanding
<1> QED
  BY <1>1, <1>3, <1>4, recordAbortIInv

(* The abort calls at the ranges change locks only.                        *)
LEMMA abortStepFrame ==
    ASSUME abortStep
    PROVE  UNCHANGED <<strategy, scenario, state, participant, applied, status,
                       pending_commit_table, store, dependencies, readset, resolverVars>>
BY DEF abortStep, abortAtRange, abortRelease, rangeVars

(* The coordinator sends its prepares.                                     *)
LEMMA commitIInv ==
    ASSUME IInv, NEW tx \in Transaction, commit(tx)
    PROVE  IInv'
<1> DEFINE f == [r \in Key |-> IF r \in Participants(tx) THEN "prepare" ELSE "finished"]
<1>1. /\ state[tx] = "Running" /\ BetweenGets(tx)
      /\ state' = [state EXCEPT ![tx] = "Preparing"]
      /\ participant' = [participant EXCEPT ![tx] = f]
      /\ UNCHANGED <<strategy, scenario, rangeVars, readset, dependencies, status,
                     resolverVars>>
  BY DEF commit
<1>2. /\ \A r \in Key : ~Applied(tx, r)
      /\ \A r \in Key : participant[tx][r] \in {"none", "read"}
  BY <1>1 DEF IInv, Phases, Undecided, Decided, BetweenGets
<1>3. /\ f \in [Key -> Participation]
      /\ \A r \in Key : f[r] = IF r \in Participants(tx) THEN "prepare" ELSE "finished"
  BY DEF Participation, Open, Served
<1>4. participant'[tx] = f /\ state'[tx] = "Preparing"
  BY <1>1 DEF IInv, Typed
<1>5. \A r \in Key : ~Applied(tx, r)'
  BY <1>1, <1>2, AppliedFrame DEF rangeVars
<1>6. Participants(tx)' = Participants(tx)
  BY <1>1 DEF Participants, program
<1> HIDE DEF f
<1>7. Placed(tx)'
  <2>1. (\A k \in Key : IF k \in Participants(tx)
                        THEN participant[tx][k] \in Served
                        ELSE participant[tx][k] = "finished")'
    BY <1>3, <1>4, <1>6 DEF Served
  <2> QED
    BY <2>1, <1>4, <1>5 DEF Placed, Undecided
<1>8. ~Released(tx)'
  BY <1>3, <1>4, <1>5 DEF Released
<1>9. /\ state' \in [Transaction -> {"Running", "Preparing", "Aborted", "Committed"}]
      /\ status' \in [Transaction -> {"started", "aborted", "committed"}]
      /\ \A t \in Transaction \ {tx} : state'[t] = state[t] /\ status'[t] = status[t]
      /\ \A t \in Transaction : status[t] = "committed" => status'[t] = "committed"
  BY <1>1 DEF IInv, Typed
<1>10. tx \notin ready /\ status'[tx] # "committed"
  BY <1>1 DEF IInv, Sealed, Decided, resolverVars
<1>11. pending \in [Transaction -> SUBSET Transaction] /\ pending[tx] = {}
  BY <1>1 DEF IInv, Typed, WaitsForAll, Waits, waiting
<1> QED
  BY <1>1, <1>3, <1>7, <1>8, <1>9, <1>10, <1>11, MoveIInv DEF resolverVars

(* What a transaction is in that all its participants have prepared.       *)
LEMMA AllPreparedFacts ==
    ASSUME IInv, NEW tx \in Transaction, AllPrepared(tx)
    PROVE  /\ \A r \in Key : ~Applied(tx, r)
           /\ tx \in ready => dependencies[tx] \subseteq resolved_transactions \cup ready
           /\ tx \in ready \/ status[tx] = "committed" => SentCommit(tx) = {}
           /\ pending[tx] = {}
<1>1. /\ Participants(tx) \subseteq Key
      /\ SentCommit(tx) \subseteq Participants(tx)
  BY ProgramType DEF IInv
<1>2. \A r \in SentCommit(tx) : r \in Key /\ participant[tx][r] = "prepared"
  BY <1>1 DEF AllPrepared
<1>3. pending[tx] = {}
  BY <1>1, <1>2 DEF IInv, WaitsForAll, Waits, waiting
<1>4. CASE Decided(tx)
  BY <1>2, <1>3, <1>4 DEF Decided, IInv, SentInOrder
<1>5. CASE Undecided(tx)
  BY <1>2, <1>3, <1>5 DEF Undecided, IInv, SentInOrder, Sealed, Decided
<1> QED
  BY <1>4, <1>5 DEF IInv, Phases

(* Sent: the transaction is told to commit where it has put something.     *)
LEMMA SentFacts ==
    ASSUME NEW tx \in Transaction
    PROVE  /\ Sent(tx) \in [Key -> Participation]
           /\ \A r \in Key : Sent(tx)[r] = IF r \in SentCommit(tx) THEN "commit" ELSE "finished"
BY DEF Sent, Participation, Open

(* A transaction whose commits are sent is decided.                        *)
LEMMA Sending ==
    ASSUME NEW tx \in Transaction, participant'[tx] = Sent(tx),
           \A r \in Key : ~Applied(tx, r), applied' = applied, scenario' = scenario,
           state'[tx] \in {"Preparing", "Committed"}
    PROVE  /\ Placed(tx)'
           /\ \A r \in Key : Sent(tx)[r] \in {"commit", "finished"}
           /\ Released(tx)' => state'[tx] = "Committed" \/ SentCommit(tx) # {}
           /\ Decided(tx)'
<1>1. SentCommit(tx)' = SentCommit(tx)
  BY DEF SentCommit, program
<1>2. \A r \in Key : ~Applied(tx, r)'
  BY AppliedFrame
<1>3. \A r \in Key : participant'[tx][r] = IF r \in SentCommit(tx) THEN "commit"
                                           ELSE "finished"
  BY SentFacts
<1>4. Decided(tx)'
  BY <1>1, <1>2, <1>3 DEF Decided
<1>5. Released(tx)' => state'[tx] = "Committed" \/ SentCommit(tx) # {}
  BY <1>2, <1>3 DEF Released
<1> QED
  BY <1>4, <1>5, SentFacts DEF Placed

(* The coordinator decides, all prepares answered.                         *)
LEMMA decideIInv ==
    ASSUME IInv, NEW tx \in Transaction, decide(tx)
    PROVE  IInv'
<1>1. /\ AllPrepared(tx) /\ ~ViaResolver(tx)
      /\ participant' = [participant EXCEPT ![tx] = Sent(tx)]
      /\ status' = [status EXCEPT ![tx] = "committed"]
      /\ state' = [state EXCEPT ![tx] = "Committed"]
      /\ UNCHANGED <<strategy, scenario, rangeVars, readset, dependencies, resolverVars>>
  BY DEF decide, commit_transaction
<1>2. /\ state' \in [Transaction -> {"Running", "Preparing", "Aborted", "Committed"}]
      /\ state'[tx] = "Committed"
      /\ status' \in [Transaction -> {"started", "aborted", "committed"}]
      /\ \A t \in Transaction \ {tx} : state'[t] = state[t] /\ status'[t] = status[t]
      /\ \A t \in Transaction : status[t] = "committed" => status'[t] = "committed"
      /\ participant'[tx] = Sent(tx)
      /\ pending \in [Transaction -> SUBSET Transaction]
  BY <1>1 DEF IInv, Typed
<1>3. /\ Placed(tx)' /\ Decided(tx)'
      /\ \A r \in Key : Sent(tx)[r] \in {"commit", "finished"}
      /\ pending[tx] = {}
  BY <1>1, <1>2, AllPreparedFacts, Sending DEF rangeVars
<1>4. dependencies[tx] = {}
  BY <1>1 DEF ViaResolver, IInv, SentInOrder
<1> QED
  BY <1>1, <1>2, <1>3, <1>4, SentFacts, MoveIInv DEF resolverVars

(* The resolver finds no unresolved dependency.                            *)
LEMMA resolveNowIInv ==
    ASSUME IInv, NEW tx \in Transaction, resolveNow(tx)
    PROVE  IInv'
<1>1. /\ AllPrepared(tx) /\ state[tx] = "Preparing"
      /\ SentCommit(tx) = {} \/ dependencies[tx] \subseteq resolved_transactions
      /\ ready' = IF SentCommit(tx) = {} THEN ready ELSE ready \cup {tx}
      /\ participant' = [participant EXCEPT ![tx] = Sent(tx)]
      /\ UNCHANGED <<strategy, scenario, rangeVars, state, readset, dependencies, status,
                     resolved_transactions, pending>>
  BY DEF resolveNow, AllPrepared, unresolved
<1>2. /\ state' \in [Transaction -> {"Running", "Preparing", "Aborted", "Committed"}]
      /\ state'[tx] = "Preparing"
      /\ status' \in [Transaction -> {"started", "aborted", "committed"}]
      /\ \A t \in Transaction \ {tx} : state'[t] = state[t] /\ status'[t] = status[t]
      /\ \A t \in Transaction : status[t] = "committed" => status'[t] = "committed"
      /\ participant'[tx] = Sent(tx)
      /\ pending \in [Transaction -> SUBSET Transaction]
  BY <1>1 DEF IInv, Typed
<1>3. /\ Placed(tx)' /\ Decided(tx)'
      /\ \A r \in Key : Sent(tx)[r] \in {"commit", "finished"}
      /\ Released(tx)' => SentCommit(tx) # {}
      /\ pending[tx] = {}
  BY <1>1, <1>2, AllPreparedFacts, Sending DEF rangeVars
<1>4. Released(tx)' => tx \in ready'
  BY <1>1, <1>3
<1>5. tx \in ready' => dependencies[tx] \subseteq resolved_transactions \cup ready'
  BY <1>1, AllPreparedFacts
<1>6. ready \subseteq ready' /\ ready' \subseteq ready \cup {tx}
  BY <1>1
<1> QED
  BY <1>1, <1>2, <1>3, <1>4, <1>5, <1>6, SentFacts, MoveIInv

(* The resolver makes the transaction wait for its dependencies.           *)
LEMMA resolveLaterIInv ==
    ASSUME IInv, NEW tx \in Transaction, resolveLater(tx)
    PROVE  IInv'
<1> DEFINE f == [r \in Key |-> "resolver"]
<1>1. /\ AllPrepared(tx) /\ state[tx] = "Preparing" /\ SentCommit(tx) # {}
      /\ pending' = [pending EXCEPT ![tx] = dependencies[tx] \ resolved_transactions]
      /\ participant' = [participant EXCEPT ![tx] = f]
      /\ UNCHANGED <<strategy, scenario, rangeVars, state, readset, dependencies, status,
                     ready, resolved_transactions>>
  BY DEF resolveLater, AllPrepared, unresolved
<1>2. /\ state' \in [Transaction -> {"Running", "Preparing", "Aborted", "Committed"}]
      /\ status' \in [Transaction -> {"started", "aborted", "committed"}]
      /\ \A t \in Transaction \ {tx} : state'[t] = state[t] /\ status'[t] = status[t]
      /\ \A t \in Transaction : status[t] = "committed" => status'[t] = "committed"
  BY <1>1 DEF IInv, Typed
<1>3. f \in [Key -> Participation] /\ \A r \in Key : f[r] = "resolver"
  BY DEF Participation
<1>4. participant'[tx] = f
  BY <1>1 DEF IInv, Typed
<1>5. \A r \in Key : ~Applied(tx, r)'
  BY <1>1, AllPreparedFacts, AppliedFrame DEF rangeVars
<1> HIDE DEF f
<1>6. Placed(tx)'
  BY <1>1, <1>3, <1>4, <1>5 DEF Placed, Undecided
<1>7. ~Released(tx)'
  BY <1>1, <1>3, <1>4, <1>5 DEF Released
<1>8. tx \notin ready /\ status'[tx] # "committed"
  BY <1>1, AllPreparedFacts
<1>9. /\ pending' \in [Transaction -> SUBSET Transaction]
      /\ \A t \in Transaction \ {tx} : pending'[t] = pending[t]
      /\ pending'[tx] = dependencies[tx] \ resolved_transactions
  BY <1>1 DEF IInv, Typed
<1>10. Waits(tx)'
  <2>1. SentCommit(tx)' = SentCommit(tx)
    BY <1>1 DEF SentCommit, program
  <2> QED
    BY <2>1, <1>1, <1>3, <1>4, <1>9 DEF Waits
<1> QED
  BY <1>1, <1>2, <1>3, <1>6, <1>7, <1>8, <1>9, <1>10, MoveIInv

---------------------------------------------------------------------------
(* A registration *)

(* What becomes ready with a transaction waits for nothing else.           *)
LEMMA NewReadyFacts ==
    ASSUME NEW tx
    PROVE  /\ newReady(tx) \subseteq waiting
           /\ \A t \in newReady(tx) : pending[t] \subseteq newReady(tx) \cup {tx}
<1> DEFINE Closed(ts) == \A u \in waiting : pending[u] \subseteq ts \cup {tx} => u \in ts
           new == newReady(tx)
           T == {t \in new : pending[t] \subseteq new \cup {tx}}
<1>1. new = {t \in waiting : \A ts \in SUBSET waiting : Closed(ts) => t \in ts}
  BY DEF newReady
<1> HIDE DEF new
<1>2. \A ts \in SUBSET waiting : Closed(ts) => new \subseteq ts
  BY <1>1
<1>3. ASSUME NEW u \in waiting, pending[u] \subseteq new \cup {tx} PROVE u \in new
  <2>1. ASSUME NEW ts \in SUBSET waiting, Closed(ts) PROVE u \in ts
    BY <2>1, <1>2, <1>3
  <2> QED
    BY <2>1, <1>1
<1>4. T \in SUBSET waiting
  BY <1>1
<1>5. ASSUME NEW u \in waiting, pending[u] \subseteq T \cup {tx} PROVE u \in T
  <2>1. pending[u] \subseteq new \cup {tx}
    BY <1>5
  <2> QED
    BY <2>1, <1>3
<1>6. new \subseteq T
  <2>1. Closed(T)
    BY <1>5
  <2> HIDE DEF T, Closed
  <2> QED
    BY <2>1, <1>2, <1>4
<1> QED
  BY <1>1, <1>6 DEF new

(* The resolver registers a committed transaction, and those that waited   *)
(* for it become ready.                                                    *)
LEMMA registerIInv ==
    ASSUME IInv, NEW tx \in Transaction, register(tx)
    PROVE  IInv'
<1> DEFINE new == newReady(tx)
<1>1. /\ status[tx] = "committed"
      /\ resolved_transactions' = resolved_transactions \cup {tx}
      /\ ready' = ready \cup new
      /\ pending' = [t \in Transaction |-> IF t \in new THEN {}
                                           ELSE pending[t] \ (new \cup {tx})]
      /\ participant' = [t \in Transaction |-> IF t \in new THEN Sent(t) ELSE participant[t]]
      /\ UNCHANGED <<strategy, scenario, rangeVars, state, readset, dependencies, status>>
  BY DEF register
<1>2. /\ new \subseteq waiting
      /\ \A t \in new : pending[t] \subseteq new \cup {tx}
  BY NewReadyFacts
<1> HIDE DEF new
<1>3. new \subseteq Transaction
  BY <1>2 DEF waiting
<1>4. \A t \in new : Waits(t)
  BY <1>2 DEF IInv, WaitsForAll
<1>5. Typed'
  BY <1>1, <1>3, SentFacts DEF IInv, Typed, rangeVars
<1>6. \A t, r : Applied(t, r)' <=> Applied(t, r)
  BY <1>1, AppliedFrame DEF rangeVars
<1>7. ASSUME NEW t \in new
      PROVE  /\ participant'[t] = Sent(t) /\ state'[t] = "Preparing"
             /\ \A r \in Key : ~Applied(t, r)
  <2>1. participant'[t] = Sent(t) /\ state'[t] = "Preparing"
    BY <1>1, <1>3, <1>4 DEF Waits
  <2>2. Placed(t) /\ t \in Transaction
    BY <1>3 DEF IInv, Phases, Placed
  <2>3. \A r \in Key : participant[t][r] = "resolver"
    BY <1>4 DEF Waits
  <2>4. \A r \in Key : ~Applied(t, r)
    BY <2>2, <2>3 DEF Placed, Undecided, Decided
  <2> QED
    BY <2>1, <2>4
<1>8. ASSUME NEW t \in new
      PROVE  /\ Placed(t)' /\ Decided(t)'
             /\ \A r \in Key : participant'[t][r] \in {"commit", "finished"}
  BY <1>1, <1>3, <1>7, Sending DEF rangeVars
<1>9. \A t \in Transaction \ new : participant'[t] = participant[t] /\ state'[t] = state[t]
  BY <1>1
<1>10. Phases'
  <2>1. ASSUME NEW t \in Transaction \ new PROVE Placed(t)'
    <3>1. Placed(t)
      BY DEF IInv, Phases, Placed
    <3> QED
      BY <3>1, <1>1, <1>6, <1>9, PlacedFrame
  <2>2. \A t \in Transaction : Placed(t)'
    BY <2>1, <1>8
  <2> QED
    BY <2>2, <1>1 DEF IInv, Phases, Placed, rangeVars
<1>11. StoreCommitted' /\ ReadsKnown'
  BY <1>1 DEF IInv, StoreCommitted, ReadsKnown, Committed, rangeVars
<1>12. SentInOrder'
  <2>1. \A t \in Transaction \ new : Released(t)' <=> Released(t)
    BY <1>6, <1>9 DEF Released
  <2>2. (\A t \in Transaction : Released(t) => dependencies[t] = {} \/ t \in ready)'
    BY <2>1, <1>1 DEF IInv, SentInOrder
  <2>3. (\A t \in ready : \A r \in Key : participant[t][r] \in {"commit", "finished"})'
    BY <1>1, <1>8, <1>9 DEF IInv, SentInOrder, Typed
  <2>4. (\A t \in ready : dependencies[t] \subseteq resolved_transactions \cup ready)'
    <3>1. \A t \in ready : dependencies[t] \subseteq resolved_transactions \cup ready
      BY DEF IInv, SentInOrder
    <3>2. \A t \in new : dependencies[t] \subseteq pending[t] \cup resolved_transactions \cup ready
      BY <1>4 DEF Waits
    <3> QED
      BY <3>1, <3>2, <1>1, <1>2
  <2>5. (\A t \in resolved_transactions : status[t] = "committed")'
    BY <1>1 DEF IInv, SentInOrder
  <2>6. (strategy = "Traditional" => \A t \in Transaction : dependencies[t] = {})'
    BY <1>1 DEF IInv, SentInOrder
  <2> QED
    BY <2>2, <2>3, <2>4, <2>5, <2>6 DEF SentInOrder
<1>13. WaitsForAll'
  <2> SUFFICES ASSUME NEW t \in Transaction, pending'[t] # {} PROVE Waits(t)'
    BY DEF WaitsForAll, waiting
  <2>1. t \notin new /\ pending'[t] = pending[t] \ (new \cup {tx})
    BY <1>1
  <2>2. Waits(t)
    BY <2>1 DEF IInv, WaitsForAll, waiting
  <2>3. SentCommit(t)' = SentCommit(t)
    BY <1>1 DEF SentCommit, program
  <2> QED
    BY <2>1, <2>2, <2>3, <1>1, <1>9 DEF Waits
<1>14. Sealed'
  <2>1. ASSUME NEW t \in Transaction \ new, status'[t] = "committed" \/ t \in ready'
        PROVE  Decided(t)'
    <3>1. Decided(t) /\ Placed(t)
      BY <2>1, <1>1 DEF IInv, Sealed, Placed
    <3> QED
      BY <3>1, <1>1, <1>6, <1>9, PlacedFrame
  <2> QED
    BY <2>1, <1>8 DEF Sealed
<1> QED
  BY <1>5, <1>10, <1>11, <1>12, <1>13, <1>14 DEF IInv

---------------------------------------------------------------------------
(* The commit at a range                                                   *)

(* A list without duplicates is extended by something new.                 *)
LEMMA AppendApplied ==
    ASSUME NEW s \in Seq(Transaction), NEW tx \in Transaction
    PROVE  /\ Append(s, tx) \in Seq(Transaction)
           /\ Range(Append(s, tx)) = Range(s) \cup {tx}
           /\ IsInjective(s) /\ tx \notin Range(s) => IsInjective(Append(s, tx))
<1> DEFINE u == Append(s, tx)
<1>1. /\ u \in Seq(Transaction) /\ DOMAIN u = 1..(Len(s) + 1) /\ u[Len(s) + 1] = tx
      /\ \A i \in 1..Len(s) : u[i] = s[i]
  BY SMTT(30)
<1>2. DOMAIN s = 1..Len(s) /\ Len(s) \in Nat
  BY SMTT(30)
<1> HIDE DEF u
<1>3. \A i \in DOMAIN u : i = Len(s) + 1 \/ i \in DOMAIN s
  BY SMTT(30), <1>1, <1>2
<1>4. \A i \in DOMAIN s : i \in DOMAIN u /\ u[i] = s[i] /\ i # Len(s) + 1
  BY SMTT(30), <1>1, <1>2
<1>5. Len(s) + 1 \in DOMAIN u
  BY SMTT(30), <1>1, <1>2
<1>6. Range(u) = Range(s) \cup {tx}
  BY <1>1, <1>3, <1>4, <1>5 DEF Range
<1>7. ASSUME IsInjective(s), tx \notin Range(s) PROVE IsInjective(u)
  <2>1. \A i \in DOMAIN s : s[i] # tx
    BY <1>7 DEF Range
  <2> QED
    BY <2>1, <1>1, <1>3, <1>4, <1>7 DEF IsInjective
<1> QED
  BY <1>1, <1>6, <1>7 DEF u

(* A range applies a transaction.                                          *)
LEMMA commitAtRangeIInv ==
    ASSUME IInv, NEW tx \in Transaction, NEW r \in Key, commitAtRange(tx, r)
    PROVE  IInv'
<1>1. /\ participant[tx][r] = "commit" /\ At(tx, r, "finished")
      /\ store' = [store EXCEPT ![r] = tx]
      /\ applied' = [applied EXCEPT ![r] = Append(applied[r], tx)]
      /\ status' = [status EXCEPT ![tx] = "committed"]
      /\ UNCHANGED <<strategy, scenario, state, readset, dependencies, resolverVars>>
  BY DEF commitAtRange, commit_transaction
<1>2. Typed /\ Phases
  BY DEF IInv
<1>3. /\ participant' \in [Transaction -> [Key -> Participation]]
      /\ participant'[tx][r] = "finished"
      /\ \A k \in Key \ {r} : participant'[tx][k] = participant[tx][k]
      /\ \A t \in Transaction \ {tx} : participant'[t] = participant[t]
  BY <1>1, <1>2, AtFacts DEF Participation, Open
<1>4. Decided(tx) /\ r \in SentCommit(tx) /\ ~Applied(tx, r)
  BY <1>1, <1>2 DEF Phases, Undecided, Decided, Open, Served
<1>5. /\ applied' \in [Key -> Seq(Transaction)]
      /\ \A k \in Key \ {r} : applied'[k] = applied[k]
      /\ Range(applied'[r]) = Range(applied[r]) \cup {tx}
      /\ IsInjective(applied'[r])
  BY <1>1, <1>2, <1>4, AppendApplied DEF Typed, Phases, Applied
<1>6. \A t \in Transaction, k \in Key :
         Applied(t, k)' <=> Applied(t, k) \/ (t = tx /\ k = r)
  BY <1>5 DEF Applied
<1>7. pending_commit_table' \in [Key -> Writer]
  <2>1. PICK p : /\ pending_commit_table' = [pending_commit_table EXCEPT ![r] = p[r]]
                 /\ p = pendingAfterCommit(pending_commit_table, <<tx>>, work)
    BY DEF commitAtRange
  <2>2. p[r] \in {None, pending_commit_table[r]}
    BY <2>1 DEF pendingAfterCommit
  <2> QED
    BY <2>1, <2>2, <1>2 DEF Typed, Writer
<1>8. /\ status' \in [Transaction -> {"started", "aborted", "committed"}]
      /\ status'[tx] = "committed"
      /\ \A t \in Transaction : status[t] = "committed" => status'[t] = "committed"
      /\ store' \in [Key -> Writer]
      /\ store'[r] = tx /\ \A k \in Key \ {r} : store'[k] = store[k]
  BY <1>1, <1>2 DEF Typed, Writer
<1>9. Typed'
  BY <1>1, <1>2, <1>3, <1>5, <1>7, <1>8 DEF Typed, resolverVars
<1>10. Decided(tx)'
  <2>1. SentCommit(tx)' = SentCommit(tx) /\ state'[tx] = state[tx]
    BY <1>1 DEF SentCommit, program
  <2> QED
    BY ZenonT(60), <2>1, <1>3, <1>4, <1>6 DEF Decided
<1>10a. Phases'
  <2>1. ASSUME NEW t \in Transaction PROVE Placed(t)'
    <3>1. CASE t # tx
      <4>1. Placed(t)
        BY <1>2 DEF Phases, Placed
      <4> QED
        BY <3>1, <4>1, <1>1, <1>3, <1>6, PlacedFrame
    <3>2. CASE t = tx
      BY <3>2, <1>10 DEF Placed
    <3> QED
      BY <3>1, <3>2
  <2>2. \A k \in Key : IsInjective(applied'[k])
    BY <1>2, <1>5 DEF Phases
  <2> QED
    BY <2>1, <2>2 DEF Phases, Placed
<1>11. \A w : Committed(w) => Committed(w)'
  BY <1>8 DEF Committed
<1>12. StoreCommitted'
  BY <1>8, <1>11 DEF IInv, StoreCommitted, Committed
<1>13. ReadsKnown'
  BY <1>1, <1>11 DEF IInv, ReadsKnown
<1>14. SentInOrder'
  <2>1. Released(tx)
    BY <1>1 DEF Released
  <2>2. \A t \in Transaction : Released(t)' => Released(t)
    BY <2>1, <1>1, <1>3, <1>6 DEF Released
  <2>3. (\A t \in Transaction : Released(t) => dependencies[t] = {} \/ t \in ready)'
    BY <2>2, <1>1 DEF IInv, SentInOrder, resolverVars
  <2>4. (\A t \in ready : /\ \A k \in Key : participant[t][k] \in {"commit", "finished"}
                          /\ dependencies[t] \subseteq resolved_transactions \cup ready)'
    <3>1. ready' = ready /\ ready \subseteq Transaction
      BY <1>1, <1>2 DEF Typed, resolverVars
    <3>2. ASSUME NEW t \in ready, NEW k \in Key
          PROVE  participant'[t][k] \in {"commit", "finished"}
      <4>1. participant[t][k] \in {"commit", "finished"}
        BY DEF IInv, SentInOrder
      <4>2. participant'[t][k] = "finished" \/ participant'[t][k] = participant[t][k]
        BY <3>1, <1>3
      <4> QED
        BY <4>1, <4>2
    <3>3. \A t \in ready : dependencies[t] \subseteq resolved_transactions \cup ready
      BY DEF IInv, SentInOrder
    <3> QED
      BY <3>1, <3>2, <3>3, <1>1 DEF resolverVars
  <2>5. (\A t \in resolved_transactions : status[t] = "committed")'
    BY <1>1, <1>2, <1>8 DEF IInv, SentInOrder, Typed, resolverVars
  <2>6. (strategy = "Traditional" => \A t \in Transaction : dependencies[t] = {})'
    BY <1>1 DEF IInv, SentInOrder
  <2> QED
    BY <2>3, <2>4, <2>5, <2>6 DEF SentInOrder
<1>15. WaitsForAll'
  <2>1. pending'[tx] = {}
    BY <1>1 DEF IInv, WaitsForAll, Waits, waiting, resolverVars
  <2> QED
    BY <2>1, <1>1, <1>3, MoveWaits DEF IInv, resolverVars
<1>16. Sealed'
  <2>1. \A t \in Transaction \ {tx} : status'[t] = status[t] /\ state'[t] = state[t]
    BY <1>1, <1>2 DEF Typed
  <2> QED
    BY <2>1, <1>1, <1>3, <1>6, <1>10, MoveSealed DEF IInv, resolverVars
<1> QED
  BY <1>9, <1>10a, <1>12, <1>13, <1>14, <1>15, <1>16 DEF IInv

(* Nothing changes when nothing that matters changes.                      *)
LEMMA StutterIInv ==
    ASSUME IInv,
           UNCHANGED <<strategy, scenario, state, participant, applied, status,
                       pending_commit_table, store, dependencies, readset, resolverVars>>
    PROVE  IInv'
<1> USE DEF resolverVars
<1>1. Typed' /\ StoreCommitted' /\ ReadsKnown'
  BY DEF IInv, Typed, StoreCommitted, ReadsKnown, Committed
<1>2. \A t \in Transaction, r \in Key : Applied(t, r)' <=> Applied(t, r)
  BY AppliedFrame
<1>3. \A t \in Transaction : Placed(t)' /\ (Decided(t) => Decided(t)')
  <2> SUFFICES ASSUME NEW t \in Transaction PROVE Placed(t)' /\ (Decided(t) => Decided(t)')
    OBVIOUS
  <2>1. Placed(t)
    BY DEF IInv, Phases, Placed
  <2> QED
    BY <2>1, <1>2, PlacedFrame
<1>4. Phases'
  BY <1>3 DEF IInv, Phases, Placed
<1>5. SentInOrder'
  <2>1. \A t \in Transaction : Released(t)' <=> Released(t)
    BY <1>2 DEF Released
  <2> QED
    BY <2>1 DEF IInv, SentInOrder, Typed
<1>6. WaitsForAll'
  <2>1. \A t \in Transaction : SentCommit(t)' = SentCommit(t)
    BY DEF SentCommit, program
  <2> QED
    BY SMTT(30), <2>1 DEF IInv, WaitsForAll, Waits, waiting
<1>7. Sealed'
  BY <1>3 DEF IInv, Sealed
<1> QED
  BY <1>1, <1>4, <1>5, <1>6, <1>7 DEF IInv

(* Every reachable state satisfies the invariant.                          *)
THEOREM Invariance == Spec => []IInv
<1>1. IInv /\ [Next]_vars => IInv'
  <2> SUFFICES ASSUME IInv, [Next]_vars PROVE IInv'
    OBVIOUS
  <2>1. ASSUME NEW tx \in Transaction,
               coordinatorStep(tx) \/ abort(tx) \/ preparePanics(tx)
        PROVE  IInv'
    BY <2>1, commitIInv, decideIInv, resolveNowIInv, resolveLaterIInv, registerIInv,
       abortIInv, preparePanicsIInv
       DEF coordinatorStep
  <2>2. ASSUME NEW tx \in Transaction, NEW r \in Key, rangeStep(tx, r) PROVE IInv'
    BY <2>2, QuietHops, getReplyIInv, prepareReplyIInv, commitAtRangeIInv DEF rangeStep
  <2>3. CASE UNCHANGED vars
    BY <2>3, StutterIInv DEF vars, rangeVars, coordVars
  <2>4. CASE abortStep
    BY <2>4, abortStepFrame, StutterIInv
  <2> QED
    BY <2>1, <2>2, <2>3, <2>4 DEF Next, Quiet
<1> QED
  BY <1>1, InitIInv, PTL DEF Spec

(* All or nothing: no range applies an aborted transaction, a transaction  *)
(* that is over has been applied by every range it put to, and no range    *)
(* applies one twice.                                                      *)
THEOREM AtomicHolds == Spec => []Atomic
<1>1. IInv => Atomic
  <2> SUFFICES ASSUME IInv, NEW tx \in Transaction
               PROVE  /\ state[tx] = "Aborted" => \A r \in Key : ~Applied(tx, r)
                      /\ Finished(tx) /\ state[tx] # "Aborted" =>
                            \A r \in program[tx].puts : Applied(tx, r)
                      /\ \A r \in Key : IsInjective(applied[r])
    BY DEF Atomic
  <2>1. \A r \in program[tx].puts : r \in Key /\ r \in SentCommit(tx) /\ r \in Participants(tx)
    BY ProgramType DEF IInv
  <2>2. CASE Undecided(tx)
    BY <2>1, <2>2 DEF Undecided, Finished, IInv, Phases, Served
  <2>3. CASE Decided(tx)
    BY <2>1, <2>3 DEF Decided, Finished, IInv, Phases
  <2> QED
    BY <2>2, <2>3 DEF IInv, Phases
<1> QED
  BY <1>1, Invariance, PTL

(* When a transaction is committed or applied, everything it has read is   *)
(* committed or ready, and not aborted: early lock release lets it read    *)
(* pending values, and the resolver makes it wait for them.  The writer of *)
(* such a value may be aborted until then, after its own prepares.         *)
THEOREM RecoverableHolds == Spec => []Recoverable
<1>1. IInv => Recoverable
  <2> SUFFICES ASSUME IInv, NEW tx \in Transaction,
                      state[tx] = "Committed" \/ \E r \in Key : Applied(tx, r),
                      NEW r \in DOMAIN readset[tx], readset[tx][r] # None
               PROVE  /\ state[readset[tx][r]] # "Aborted"
                      /\ status[readset[tx][r]] = "committed" \/ readset[tx][r] \in ready
    BY DEF Recoverable
  <2>1. dependencies[tx] = {} \/ tx \in ready
    BY DEF IInv, SentInOrder, Released
  <2>2. CASE Committed(readset[tx][r])
    BY <2>2 DEF Committed, IInv, Sealed, Decided
  <2>3. CASE readset[tx][r] \in dependencies[tx]
    <3>1. readset[tx][r] \in Transaction
      BY <2>3 DEF IInv, Typed
    <3>2. status[readset[tx][r]] = "committed" \/ readset[tx][r] \in ready
      BY <2>1, <2>3 DEF IInv, SentInOrder
    <3> QED
      BY <3>1, <3>2 DEF IInv, Sealed, Decided
  <2> QED
    BY <2>2, <2>3 DEF IInv, ReadsKnown
<1> QED
  BY <1>1, Invariance, PTL
=============================================================================
