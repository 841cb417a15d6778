------------------------- MODULE CoordinatorProofs -------------------------
(***************************************************************************)
(* Proofs about the two sides of a coordinator: the frontend that clients  *)
(* call it through and the range client it reaches the ranges with.        *)
(*                                                                         *)
(* Frontend, for any transactions, keys, requests and dropped handlers: a  *)
(* transaction ends in one way, nothing is written once it prepares, and   *)
(* the count of open clients never falls short.  First the invariant, and  *)
(* what the proofs share: how a handler moves, when the count still covers *)
(* the table, and the frames of steps that look at a transaction or change *)
(* one.  Then the steps that end a transaction, the steps that begin one,  *)
(* and the theorems.                                                       *)
(*                                                                         *)
(* RangeClient (RC), for any keyspaces, keys, calls and crashes: requests  *)
(* go to the range their keyspace was created with, which has the key, all *)
(* calls use one client, and keyspaces are listed in their region.         *)
(***************************************************************************)
EXTENDS Frontend, FiniteSetTheorems, WellFoundedInduction, TLAPS

CONSTANTS Rank, PublicCloud, Creation, ClientCall, Requests, Hex, HandlerErrors,
          MaxKeyspaces, MaxCrashes
VARIABLES keyspaces, acknowledged, keyspace_to_keyspace_info, key_to_full_range_id,
          range_clients, phase, crashes, request, info, range, client, conn

RC == INSTANCE RangeClient

(* Little arithmetic is involved: Zenon proves what no step leaves to SMT. *)
USE Zenon

CallRecord == [op : {"start", "get", "put", "delete", "abort", "commit"}, key : Key \cup {None}]

(* Types, as far as they are needed; what the buffers hold is not.         *)
Typed ==
    /\ transaction_table \subseteq Transaction
    /\ mutex \in [Transaction -> Request \cup {None}]
    /\ state \in [Transaction -> {None, "Running", "Preparing", "Aborted", "Committed"}]
    /\ DOMAIN writeset = Transaction /\ DOMAIN deleteset = Transaction
    /\ DOMAIN prepared = Transaction
    /\ status \in [Transaction -> {"absent", "started", "aborted", "committed"}]
    /\ resolving \subseteq Transaction /\ known \subseteq Transaction
    /\ dropped \subseteq Request
    /\ DOMAIN pc = Request
    /\ rpc \in [Request -> Rpcs \cup {None}]
    /\ calls \in [Request -> Seq(CallRecord)]
    /\ tx \in [Request -> Transaction \cup {None}]
    /\ answer \in [Request -> {None, "ok", "err"}]

(* The calls left to a handler: where it is goes with the first of them,   *)
(* and a commit or an abort is the last.                                   *)
LastOp(r) == calls[r][Len(calls[r])].op
Commits(r) == rpc[r] \in {"commit", "read_modify_write"}

AtCall(r) ==
    /\ pc[r] = "idle" <=> tx[r] = None
    /\ answer[r] # None => pc[r] = "done"
    /\ pc[r] # "idle" =>
          /\ calls[r] # << >>
          /\ Commits(r) => LastOp(r) = "commit"
          /\ rpc[r] = "abort" => LastOp(r) = "abort"
    /\ pc[r] \in {"start", "insert", "count"} => op(r) = "start"
    /\ pc[r] = "read" => op(r) = "get"
    /\ pc[r] \in {"sample", "relock", "prepare", "resolve", "uncount"} => op(r) = "commit"
    /\ pc[r] = "remove" => op(r) \in {"abort", "commit"}

(* A transaction that is being started is known to its handler only.       *)
Alone(r) ==
    /\ pc[r] \in {"start", "insert", "count"} =>
          tx[r] \notin known /\ \A q \in Request \ {r} : tx[q] # tx[r]
    /\ pc[r] = "start" => state[tx[r]] = None
    /\ pc[r] \notin {"idle", "start"} => state[tx[r]] # None

(* Handlers on their way to the answer of a commit or an abort, or there   *)
CommitOk(r) == answer[r] = "ok" /\ Commits(r)
AbortOk(r) == answer[r] = "ok" /\ rpc[r] = "abort"
Decided(r) == (pc[r] = "remove" /\ op(r) = "commit") \/ pc[r] = "uncount" \/ CommitOk(r)
Committing(r) == pc[r] \in {"prepare", "resolve"} \/ Decided(r)
Aborting(r) == pc[r] = "record_abort" \/ (pc[r] = "remove" /\ op(r) = "abort") \/ AbortOk(r)

(* The state of the transaction agrees with the handlers that end it.      *)
Ending(r) ==
    /\ Aborting(r) => state[tx[r]] = "Aborted"
    /\ Committing(r) => state[tx[r]] \in {"Preparing", "Committed"}
    /\ pc[r] = "prepare" => /\ state[tx[r]] = "Preparing"
                            /\ status[tx[r]] = "started" /\ tx[r] \notin resolving
    /\ pc[r] = "resolve" => /\ state[tx[r]] = "Preparing"
                            /\ tx[r] \in resolving \/ status[tx[r]] = "committed"
    /\ Decided(r) => status[tx[r]] = "committed" \/ ReadOnly(tx[r])
    /\ pc[r] = "read" /\ r \notin dropped =>
          mutex[tx[r]] = r /\ state[tx[r]] = "Running"

(* The table has a transaction until its commit or abort removes it.       *)
Listed(r) ==
    /\ Committing(r) => (tx[r] \in transaction_table <=> ~(pc[r] = "uncount" \/ CommitOk(r)))
    /\ AbortOk(r) => tx[r] \notin transaction_table

(* One handler at most commits a transaction.                              *)
OneCommits ==
    \A r, q \in Request : Committing(r) /\ Committing(q) /\ tx[r] = tx[q] => r = q

(* What the state of a transaction says about the rest                     *)
Life(t) ==
    /\ state[t] = None => /\ status[t] = "absent" /\ prepared[t] = None
                          /\ t \notin transaction_table \cup known
    /\ state[t] # None => \E r \in Request : tx[r] = t
    /\ state[t] = "Running" =>
          /\ status[t] = "started" /\ prepared[t] = None
          /\ t \in transaction_table \/ \E r \in Request : pc[r] = "insert" /\ tx[r] = t
    /\ state[t] = "Preparing" => status[t] \in {"started", "committed"}
    /\ state[t] = "Committed" => status[t] = "committed"
    /\ state[t] = "Aborted" => status[t] \in {"started", "aborted"}
    /\ t \in resolving => state[t] = "Preparing"
    /\ prepared[t] # None => prepared[t] = Buffers(t)

(* The transactions the count has to cover: those in the table or just     *)
(* removed by a commit, without those not yet counted.                     *)
Counted ==
    (transaction_table \cup {tx[r] : r \in {q \in Request : pc[q] = "uncount"}})
       \ {tx[r] : r \in {q \in Request : pc[q] = "count"}}

(* A step changes the count at most together with the transactions it has  *)
(* to cover.                                                               *)
CountStep ==
    \/ num_open_clients' = num_open_clients /\ Counted' \subseteq Counted
    \/ /\ num_open_clients' = num_open_clients + 1
       /\ \E t : Counted' \subseteq Counted \cup {t}
    \/ /\ num_open_clients' = num_open_clients - 1
       /\ \E t \in Counted : Counted' = Counted \ {t}

IInv ==
    /\ Typed
    /\ \A r \in Request : AtCall(r) /\ Alone(r) /\ Ending(r) /\ Listed(r)
    /\ OneCommits
    /\ \A t \in Transaction : Life(t)

---------------------------------------------------------------------------
(* How a handler moves.  Only its own position, calls and answer change.   *)

AllAtCall == \A r \in Request : AtCall(r)

OthersStay(r) ==
    \A q \in Request \ {r} :
        pc'[q] = pc[q] /\ calls'[q] = calls[q] /\ answer'[q] = answer[q]

(* The call a handler may be at when it is there                           *)
OpAt(there, o) ==
    /\ there \in {"start", "insert", "count"} => o = "start"
    /\ there = "read" => o = "get"
    /\ there \in {"sample", "relock", "prepare", "resolve", "uncount"} => o = "commit"
    /\ there = "remove" => o \in {"abort", "commit"}

HandlersTyped ==
    /\ DOMAIN pc = Request
    /\ calls \in [Request -> Seq(CallRecord)]
    /\ answer \in [Request -> {None, "ok", "err"}]

(* A handler that goes on with its call                                    *)
LEMMA Going ==
    ASSUME Typed, AllAtCall, UNCHANGED <<tx, rpc>>,
           NEW r \in Request, pc[r] \notin {"idle", "done"},
           NEW there, there # "idle", OpAt(there, op(r)), Goes(r, there)
    PROVE  /\ HandlersTyped' /\ AllAtCall' /\ OthersStay(r)
           /\ pc'[r] = there /\ answer'[r] = None /\ op(r)' = op(r)
<1>1. /\ HandlersTyped' /\ OthersStay(r) /\ op(r)' = op(r)
      /\ pc'[r] = there /\ answer'[r] = None
    BY DEF Goes, Typed, HandlersTyped, OthersStay, op, AllAtCall, AtCall
<1>2. ASSUME NEW q \in Request
      PROVE  AtCall(q)'
  <2>1. CASE q # r
    BY <1>1, <2>1, ZenonT(60) DEF AllAtCall, AtCall, OthersStay, op, Commits, LastOp
  <2>2. CASE q = r
    BY <1>1, <2>2 DEF AllAtCall, AtCall, Goes, OpAt, Commits, LastOp
  <2>. QED
    BY <2>1, <2>2
<1>. QED
    BY <1>1, <1>2 DEF AllAtCall

(* A handler whose call returns.  It may tell a client that a transaction  *)
(* has committed or aborted only if that was the call.                     *)
LEMMA Returning ==
    ASSUME Typed, AllAtCall, UNCHANGED <<tx, rpc>>,
           NEW r \in Request, pc[r] \notin {"idle", "done"},
           NEW result \in {"ok", "err"}, Returns(r, result)
    PROVE  /\ HandlersTyped' /\ AllAtCall' /\ OthersStay(r)
           /\ pc'[r] \in {"lookup", "done"}
           /\ CommitOk(r)' => result = "ok" /\ op(r) = "commit"
           /\ AbortOk(r)' => result = "ok" /\ op(r) = "abort"
<1>. DEFINE c == calls[r]
<1>1. /\ c \in Seq(CallRecord) /\ c # << >> /\ answer[r] = None
      /\ Commits(r) => c[Len(c)].op = "commit"
      /\ rpc[r] = "abort" => c[Len(c)].op = "abort"
    BY DEF Typed, AllAtCall, AtCall, LastOp
<1>2. CASE result = "ok" /\ Len(c) > 1
  <2>1. /\ Tail(c) \in Seq(CallRecord) /\ Tail(c) # << >>
        /\ Tail(c)[Len(Tail(c))] = c[Len(c)]
    BY <1>1, <1>2, SMTT(30)
  <2>2. /\ pc' = [pc EXCEPT ![r] = "lookup"] /\ calls' = [calls EXCEPT ![r] = Tail(c)]
        /\ answer' = answer
    BY <1>2 DEF Returns
  <2>. HIDE DEF c
  <2>3. HandlersTyped' /\ OthersStay(r) /\ pc'[r] = "lookup" /\ calls'[r] = Tail(c)
    BY <2>1, <2>2 DEF Typed, HandlersTyped, OthersStay
  <2>4. ASSUME NEW q \in Request
        PROVE  AtCall(q)'
    <3>1. CASE q # r
      BY <2>3, <3>1, ZenonT(60) DEF AllAtCall, AtCall, OthersStay, op, Commits, LastOp
    <3>2. CASE q = r
      BY <1>1, <2>1, <2>2, <2>3, <3>2, SMTT(30) DEF AllAtCall, AtCall, Commits, LastOp
    <3>. QED
      BY <3>1, <3>2
  <2>. QED
    BY <1>1, <2>2, <2>3, <2>4, FrontendAssumption DEF AllAtCall, CommitOk, AbortOk
<1>3. CASE ~(result = "ok" /\ Len(c) > 1)
  <2>2. /\ pc' = [pc EXCEPT ![r] = "done"] /\ answer' = [answer EXCEPT ![r] = result]
        /\ calls' = calls
    BY <1>3 DEF Returns
  <2>3. HandlersTyped' /\ OthersStay(r) /\ pc'[r] = "done" /\ answer'[r] = result
    BY <2>2 DEF Typed, HandlersTyped, OthersStay
  <2>4. result = "ok" => Head(c) = c[Len(c)]
    BY <1>1, <1>3, SMTT(30)
  <2>5. ASSUME NEW q \in Request
        PROVE  AtCall(q)'
    <3>1. CASE q # r
      BY <2>3, <3>1, ZenonT(60) DEF AllAtCall, AtCall, OthersStay, op, Commits, LastOp
    <3>2. CASE q = r
      BY <2>2, <2>3, <3>2 DEF AllAtCall, AtCall, Commits, LastOp
    <3>. QED
      BY <3>1, <3>2
  <2>. QED
    BY <1>1, <2>3, <2>4, <2>5 DEF AllAtCall, CommitOk, AbortOk, Commits, op
<1>. QED
    BY <1>2, <1>3

(* Handlers that have not moved are where they were.                       *)
LEMMA Staying ==
    ASSUME NEW r \in Request, OthersStay(r), rpc' = rpc, NEW q \in Request \ {r}
    PROVE  /\ pc'[q] = pc[q]
           /\ CommitOk(q)' <=> CommitOk(q)
           /\ AbortOk(q)' <=> AbortOk(q)
           /\ Decided(q)' <=> Decided(q)
           /\ Committing(q)' <=> Committing(q)
           /\ Aborting(q)' <=> Aborting(q)
BY DEF OthersStay, CommitOk, AbortOk, Decided, Committing, Aborting, Commits, op

---------------------------------------------------------------------------
(* The count of open clients need not change when it has no more to cover. *)
LEMMA CountKept ==
    ASSUME UNCHANGED <<num_open_clients, tx>>,
           transaction_table' \subseteq transaction_table,
           NEW r \in Request, OthersStay(r),
           pc[r] \notin {"count", "uncount"}, pc'[r] \notin {"count", "uncount"}
    PROVE  CountStep
<1>. DEFINE At(there) == {q \in Request : pc[q] = there}
<1>1. At("count")' = At("count") /\ At("uncount")' = At("uncount")
    BY DEF OthersStay
<1>2. Counted' \subseteq Counted
    BY <1>1 DEF Counted
<1>. QED
    BY <1>2 DEF CountStep

---------------------------------------------------------------------------
(* Steps that look at a transaction and change neither it nor the table:   *)
(* at most its buffers, before they are prepared, and its mutex, if it is  *)
(* free or the handler's own.                                              *)

Looking(r) ==
    /\ UNCHANGED <<transaction_table, num_open_clients, state, prepared, status, resolving,
                   tx, known, rpc, dropped>>
    /\ DOMAIN writeset' = Transaction /\ DOMAIN deleteset' = Transaction
    /\ \A t \in Transaction :
          \/ prepared[t] = None
          \/ writeset'[t] = writeset[t] /\ deleteset'[t] = deleteset[t]
    /\ mutex' \in [Transaction -> Request \cup {None}]
    /\ \A t \in Transaction : mutex'[t] = mutex[t] \/ mutex[t] \in {r, None}
    /\ pc[r] \in {"lookup", "lock", "read", "sample", "relock"}
    /\ pc'[r] \in {"lookup", "lock", "read", "sample", "relock", "done"}
    /\ pc'[r] = "read" => mutex'[tx[r]] = r /\ state[tx[r]] = "Running"
    /\ HandlersTyped' /\ AllAtCall' /\ OthersStay(r)
    /\ ~CommitOk(r)' /\ ~AbortOk(r)'

(* Such a step preserves the invariant.                                    *)
LEMMA LookingKeeps ==
    ASSUME IInv, NEW r \in Request, Looking(r)
    PROVE  IInv' /\ CountStep
<1>1. Typed'
    BY DEF IInv, Typed, Looking, HandlersTyped
<1>2. /\ ~Committing(r)' /\ ~Aborting(r)' /\ ~Decided(r)' /\ ~CommitOk(r)' /\ ~AbortOk(r)'
      /\ rpc' = rpc /\ OthersStay(r)
    BY DEF Looking, Committing, Decided, Aborting
<1>3. ASSUME NEW q \in Request
      PROVE  Alone(q)' /\ Ending(q)' /\ Listed(q)'
  <2>1. CASE q = r
    BY <1>2, <2>1 DEF IInv, Alone, Ending, Listed, Looking
  <2>2. CASE q # r
    <3>1. /\ pc'[q] = pc[q] /\ (CommitOk(q)' <=> CommitOk(q)) /\ (AbortOk(q)' <=> AbortOk(q))
          /\ (Decided(q)' <=> Decided(q)) /\ (Committing(q)' <=> Committing(q))
          /\ (Aborting(q)' <=> Aborting(q))
      BY <1>2, <2>2, Staying
    <3>2. Alone(q)' /\ Listed(q)'
      BY <2>2, <3>1 DEF IInv, Alone, Listed, Looking
    <3>3. pc[q] = "read" => tx[q] \in Transaction
      BY DEF IInv, AtCall, Typed
    <3>4. Ending(q)'
      BY <2>2, <3>1, <3>3, FrontendAssumption, SMTT(30) DEF IInv, Ending, Looking, ReadOnly
    <3>. QED
      BY <3>2, <3>4
  <2>. QED
    BY <2>1, <2>2
<1>4. OneCommits'
  <2>1. \A q \in Request : Committing(q)' => q # r /\ Committing(q)
    BY <1>2, Staying
  <2>. QED
    BY <2>1 DEF IInv, OneCommits, Looking
<1>5. ASSUME NEW t \in Transaction
      PROVE  Life(t)'
  <2>1. \A q \in Request : pc[q] = "insert" => pc'[q] = "insert"
    BY DEF Looking, OthersStay
  <2>2. /\ Life(t) /\ UNCHANGED <<transaction_table, state, prepared, status, resolving, tx, known>>
        /\ prepared[t] = None \/ Buffers(t)' = Buffers(t)
    BY DEF IInv, Looking, Buffers
  <2>. QED
    BY <2>1, <2>2 DEF Life
<1>6. CountStep
    BY CountKept DEF Looking
<1>. QED
    BY <1>1, <1>3, <1>4, <1>5, <1>6 DEF IInv, Looking, AllAtCall

(* The steps that are such: lookups, refusals, gets, puts and deletes, and *)
(* a commit or an abort that finds the transaction ended.                  *)
LEMMA LookingSteps ==
    ASSUME IInv, NEW r \in Request, r \notin dropped,
           \/ lookup(r) \/ refused(r) \/ get(r) \/ getReply(r) \/ put(r) \/ delete(r)
           \/ readKeyspace(r) \/ sampleClients(r)
           \/ commit(r) /\ ~check_still_running(tx[r])
           \/ /\ abort(r) /\ state[tx[r]] # "Aborted" /\ ~check_still_running(tx[r])
    PROVE  Looking(r)
<1>. USE DEF serverVars, bufferVars, fixedVars
<1>1. Typed /\ AllAtCall /\ (pc[r] \notin {"idle", "done"} => tx[r] \in Transaction)
    BY DEF IInv, AllAtCall, AtCall, Typed
<1>2. ASSUME UNCHANGED <<tx, rpc>>, pc[r] \notin {"idle", "done"},
             NEW result \in {"ok", "err"}, Returns(r, result),
             result = "ok" => op(r) \notin {"commit", "abort"}
      PROVE  /\ HandlersTyped' /\ AllAtCall' /\ OthersStay(r) /\ pc'[r] \in {"lookup", "done"}
             /\ ~CommitOk(r)' /\ ~AbortOk(r)'
    BY <1>1, <1>2, Returning
<1>3. ASSUME UNCHANGED <<tx, rpc>>, pc[r] \notin {"idle", "done"},
             NEW there \in {"lock", "read", "sample", "relock"}, OpAt(there, op(r)),
             Goes(r, there)
      PROVE  /\ HandlersTyped' /\ AllAtCall' /\ OthersStay(r) /\ pc'[r] = there
             /\ ~CommitOk(r)' /\ ~AbortOk(r)'
  <2>1. /\ HandlersTyped' /\ AllAtCall' /\ OthersStay(r) /\ pc'[r] = there /\ answer'[r] = None
    BY <1>1, <1>3, Going
  <2>. QED
    BY <2>1, FrontendAssumption DEF CommitOk, AbortOk
<1>4. CASE lookup(r)
  <2>1. CASE tx[r] \in transaction_table
    BY <1>1, <1>3, <1>4, <2>1 DEF lookup, Looking, Typed, OpAt
  <2>2. CASE tx[r] \notin transaction_table
    BY <1>1, <1>2, <1>4, <2>2 DEF lookup, Looking, Typed
  <2>. QED
    BY <2>1, <2>2
<1>5. CASE refused(r)
    BY <1>1, <1>2, <1>5 DEF refused, Looking, Typed
<1>6. CASE get(r)
  <2>1. CASE Buffered(tx[r], key(r))
    BY <1>1, <1>2, <1>6, <2>1 DEF get, Accessing, Looking, Typed
  <2>2. CASE ~Buffered(tx[r], key(r))
    BY <1>1, <1>3, <1>6, <2>2, ZenonT(60) DEF get, Accessing, CanLock, Locks, check_still_running,
                                  Looking, Typed, OpAt
  <2>. QED
    BY <2>1, <2>2
<1>7. CASE getReply(r)
  <2>1. op(r) = "get" /\ mutex[tx[r]] = r
    BY <1>7 DEF getReply, IInv, AtCall, Ending
  <2>. QED
    BY <1>1, <1>2, <1>7, <2>1 DEF getReply, Unlocks, Looking, Typed
<1>8. ASSUME pc[r] = "lock", check_still_running(tx[r])
      PROVE  prepared[tx[r]] = None
    BY <1>1, <1>8 DEF check_still_running, IInv, Life
<1>9. CASE put(r)
    BY <1>1, <1>2, <1>8, <1>9 DEF put, Accessing, bufferPut, Looking, Typed
<1>10. CASE delete(r)
    BY <1>1, <1>2, <1>8, <1>10 DEF delete, Accessing, bufferDel, Looking, Typed
<1>11. CASE readKeyspace(r)
    BY <1>1, <1>3, <1>11 DEF readKeyspace, Looking, Typed, OpAt
<1>12. CASE sampleClients(r)
  <2>1. op(r) = "commit"
    BY <1>12 DEF sampleClients, IInv, AtCall
  <2>. QED
    BY <1>1, <1>3, <1>12, <2>1 DEF sampleClients, Looking, Typed, OpAt
<1>13. CASE commit(r) /\ ~check_still_running(tx[r])
    BY <1>1, <1>2, <1>13 DEF commit, Looking, Typed
<1>14. CASE abort(r) /\ state[tx[r]] # "Aborted" /\ ~check_still_running(tx[r])
    BY <1>1, <1>2, <1>14 DEF abort, Looking, Typed
<1>. QED
    BY <1>4, <1>5, <1>6, <1>7, <1>9, <1>10, <1>11, <1>12, <1>13, <1>14

---------------------------------------------------------------------------
(* Steps of no handler: the resolver commits, a handler is dropped.        *)

(* The resolver commits a transaction that is Preparing, which no handler  *)
(* can abort any more.                                                     *)
LEMMA ResolverCommits ==
    ASSUME IInv, NEW t \in Transaction, resolverCommits(t)
    PROVE  IInv' /\ CountStep
<1>. USE DEF serverVars, bufferVars, fixedVars, handlerVars
<1>1. /\ Typed /\ t \in resolving /\ state[t] = "Preparing"
      /\ status' = [status EXCEPT ![t] = "committed"]
      /\ resolving' = resolving \ {t}
      /\ UNCHANGED <<transaction_table, num_open_clients, mutex, state, bufferVars, pc, calls,
                     answer, tx, known, rpc, dropped>>
    BY ZenonT(60) DEF resolverCommits, batch_commit_transactions, commit_transaction, IInv, Typed,
                      Life
<1>2. Typed'
    BY <1>1 DEF Typed
<1>3. ASSUME NEW q \in Request
      PROVE  AtCall(q)' /\ Alone(q)' /\ Ending(q)' /\ Listed(q)'
  <2>1. AtCall(q)' /\ Alone(q)' /\ Listed(q)'
    BY <1>1 DEF IInv, AtCall, Alone, Listed, Committing, Decided, CommitOk, AbortOk, Commits,
                LastOp, op
  <2>2. /\ (Committing(q)' <=> Committing(q)) /\ (Decided(q)' <=> Decided(q))
        /\ (Aborting(q)' <=> Aborting(q))
    BY <1>1 DEF Committing, Decided, Aborting, CommitOk, AbortOk, Commits, op
  <2>3. pc[q] \in {"prepare", "resolve"} => tx[q] \in Transaction
    BY DEF IInv, AtCall, Typed
  <2>4. /\ tx[q] # t => status'[tx[q]] = status[tx[q]]
        /\ tx[q] = t => status'[tx[q]] = "committed"
    <3>1. CASE tx[q] \in Transaction
      BY <1>1, <3>1 DEF Typed
    <3>2. CASE tx[q] \notin Transaction
      BY <1>1, <3>2, SMTT(30)
    <3>. QED
      BY <3>1, <3>2
  <2>5. Ending(q)'
    BY <1>1, <2>2, <2>3, <2>4 DEF IInv, Ending, ReadOnly
  <2>. QED
    BY <2>1, <2>5
<1>4. OneCommits'
    BY <1>1 DEF IInv, OneCommits, Committing, Decided, CommitOk, Commits, op
<1>5. ASSUME NEW u \in Transaction
      PROVE  Life(u)'
  <2>1. status'[u] = status[u] \/ (u = t /\ status'[u] = "committed")
    BY <1>1 DEF Typed
  <2>. QED
    BY <1>1, <2>1, FrontendAssumption, SMTT(30) DEF IInv, Life, Buffers
<1>6. CountStep
    BY <1>1 DEF CountStep, Counted
<1>. QED
    BY <1>2, <1>3, <1>4, <1>5, <1>6 DEF IInv

(* A dropped handler stays where it is, and gives up its mutex.            *)
LEMMA Drops ==
    ASSUME IInv, NEW r \in Request, drop(r)
    PROVE  IInv' /\ CountStep
<1>. USE DEF serverVars, bufferVars, fixedVars, handlerVars
<1>1. /\ Typed /\ dropped' = dropped \cup {r}
      /\ mutex' = [t \in Transaction |-> IF mutex[t] = r THEN None ELSE mutex[t]]
      /\ UNCHANGED <<transaction_table, num_open_clients, state, bufferVars, status, resolving,
                     pc, calls, answer, tx, known, rpc>>
    BY DEF drop, IInv
<1>2. Typed'
  <2>1. mutex' \in [Transaction -> Request \cup {None}]
    BY <1>1 DEF Typed
  <2>. QED
    BY <1>1, <2>1 DEF Typed
<1>3. ASSUME NEW q \in Request
      PROVE  AtCall(q)' /\ Alone(q)' /\ Ending(q)' /\ Listed(q)'
  <2>1. AtCall(q)' /\ Alone(q)' /\ Listed(q)'
    BY <1>1 DEF IInv, AtCall, Alone, Listed, Committing, Decided, CommitOk, AbortOk, Commits,
                LastOp, op
  <2>2. /\ (Committing(q)' <=> Committing(q)) /\ (Decided(q)' <=> Decided(q))
        /\ (Aborting(q)' <=> Aborting(q))
    BY <1>1 DEF Committing, Decided, Aborting, CommitOk, AbortOk, Commits, op
  <2>3. pc[q] = "read" /\ q \notin dropped' => mutex'[tx[q]] = q
    <3>1. pc[q] = "read" => tx[q] \in Transaction
      BY DEF IInv, AtCall, Typed
    <3>. QED
      BY <1>1, <3>1 DEF IInv, Ending
  <2>4. Ending(q)'
    BY <1>1, <2>2, <2>3 DEF IInv, Ending, ReadOnly
  <2>. QED
    BY <2>1, <2>4
<1>4. OneCommits'
    BY <1>1 DEF IInv, OneCommits, Committing, Decided, CommitOk, Commits, op
<1>5. \A u \in Transaction : Life(u)'
    BY <1>1, ZenonT(60) DEF IInv, Life, Buffers
<1>6. CountStep
    BY <1>1 DEF CountStep, Counted
<1>. QED
    BY <1>2, <1>3, <1>4, <1>5, <1>6 DEF IInv

---------------------------------------------------------------------------
(* Starting a transaction: nobody else has heard of it.                    *)

(* The transaction is recorded, put in the table, and counted.             *)
LEMMA Starting ==
    ASSUME IInv, NEW r \in Request, r \notin dropped,
           startRecord(r) \/ startInsert(r) \/ startCount(r)
    PROVE  IInv' /\ CountStep
<1>. USE DEF serverVars, bufferVars, fixedVars
<1>. DEFINE t == tx[r]
<1>1. /\ pc[r] \in {"start", "insert", "count"} /\ t \in Transaction /\ op(r) = "start"
      /\ Typed /\ AllAtCall /\ t \notin known /\ \A q \in Request \ {r} : tx[q] # t
    BY SMTT(30) DEF startRecord, startInsert, startCount, IInv, AllAtCall, AtCall, Typed, Alone
<1>2. UNCHANGED <<tx, rpc, mutex, bufferVars, resolving, dropped>>
    BY DEF startRecord, startInsert, startCount
<1>3. /\ HandlersTyped' /\ AllAtCall' /\ OthersStay(r) /\ ~CommitOk(r)' /\ ~AbortOk(r)'
      /\ startRecord(r) => pc'[r] = "insert"
      /\ startInsert(r) => pc'[r] = "count"
      /\ startCount(r) => pc'[r] \in {"lookup", "done"}
  <2>1. ASSUME NEW there \in {"insert", "count"}, Goes(r, there)
        PROVE  /\ HandlersTyped' /\ AllAtCall' /\ OthersStay(r) /\ pc'[r] = there
               /\ ~CommitOk(r)' /\ ~AbortOk(r)'
    <3>1. /\ HandlersTyped' /\ AllAtCall' /\ OthersStay(r) /\ pc'[r] = there
          /\ answer'[r] = None
      BY <1>1, <1>2, <2>1, Going DEF OpAt
    <3>. QED
      BY <3>1, FrontendAssumption DEF CommitOk, AbortOk
  <2>2. CASE startRecord(r)
    BY <2>1, <2>2 DEF startRecord, startInsert, startCount
  <2>3. CASE startInsert(r)
    BY <2>1, <2>3 DEF startRecord, startInsert, startCount
  <2>4. CASE startCount(r)
    <3>1. Returns(r, "ok") /\ pc[r] = "count"
      BY <2>4 DEF startCount
    <3>2. /\ HandlersTyped' /\ AllAtCall' /\ OthersStay(r) /\ pc'[r] \in {"lookup", "done"}
          /\ ~CommitOk(r)' /\ ~AbortOk(r)'
      BY <1>1, <1>2, <3>1, Returning
    <3>. QED
      BY <3>1, <3>2 DEF startRecord, startInsert
  <2>. QED
    BY <2>2, <2>3, <2>4
<1>4. /\ state' \in [Transaction -> {None, "Running", "Preparing", "Aborted", "Committed"}]
      /\ status' \in [Transaction -> {"absent", "started", "aborted", "committed"}]
      /\ transaction_table' \subseteq Transaction /\ known' \subseteq Transaction
      /\ \A u \in Transaction \ {t} :
            /\ state'[u] = state[u] /\ status'[u] = status[u]
            /\ u \in transaction_table' <=> u \in transaction_table
            /\ u \in known' <=> u \in known
      /\ state'[t] # None
  <2>. HIDE DEF t
  <2>1. CASE startRecord(r)
    BY <1>1, <2>1, FrontendAssumption DEF startRecord, start_transaction, Typed, t
  <2>2. CASE startInsert(r)
    <3>1. state[t] # None
      BY <1>1, <2>2 DEF startInsert, IInv, Alone, t
    <3>. QED
      BY <1>1, <2>2, <3>1 DEF startInsert, Typed, t
  <2>3. CASE startCount(r)
    <3>1. state[t] # None
      BY <1>1, <2>3 DEF startCount, IInv, Alone, t
    <3>. QED
      BY <1>1, <2>3, <3>1 DEF startCount, Typed, t
  <2>. QED
    BY <2>1, <2>2, <2>3
<1>5. Typed'
    BY <1>1, <1>2, <1>3, <1>4 DEF Typed, HandlersTyped
<1>6. ~Committing(r)' /\ ~Aborting(r)' /\ ~Decided(r)' /\ pc'[r] \notin {"idle", "start", "read"}
    BY <1>3 DEF Committing, Decided, Aborting, startRecord, startInsert, startCount
<1>7. ASSUME NEW q \in Request
      PROVE  Alone(q)' /\ Ending(q)' /\ Listed(q)'
  <2>1. CASE q = r
    <3>1. pc'[r] \in {"start", "insert", "count"} => known' = known
      BY <1>3 DEF startRecord, startInsert, startCount
    <3>. QED
      BY <1>1, <1>2, <1>3, <1>4, <1>6, <2>1, <3>1 DEF Alone, Ending, Listed, Committing
  <2>2. CASE q # r
    <3>1. /\ pc'[q] = pc[q] /\ (Committing(q)' <=> Committing(q))
          /\ (Aborting(q)' <=> Aborting(q)) /\ (AbortOk(q)' <=> AbortOk(q))
          /\ (Decided(q)' <=> Decided(q)) /\ (CommitOk(q)' <=> CommitOk(q))
      BY <1>2, <1>3, <2>2, Staying
    <3>2. CASE tx[q] = None
      <4>1. pc[q] = "idle" /\ answer[q] = None
        BY <3>2 DEF IInv, AtCall
      <4>2. ~Committing(q) /\ ~Aborting(q) /\ ~Decided(q) /\ ~AbortOk(q)
        BY <4>1, FrontendAssumption DEF Committing, Decided, Aborting, CommitOk, AbortOk
      <4>. QED
        BY <3>1, <4>1, <4>2 DEF Alone, Ending, Listed
    <3>3. CASE tx[q] # None
      <4>1. tx[q] \in Transaction \ {t}
        BY <1>1, <2>2, <3>3 DEF Typed
      <4>. QED
        BY <1>2, <1>4, <3>1, <4>1, SMTT(30) DEF IInv, Alone, Ending, Listed, ReadOnly
    <3>. QED
      BY <3>2, <3>3
  <2>. QED
    BY <2>1, <2>2
<1>8. OneCommits'
  <2>1. \A q \in Request : Committing(q)' => q # r /\ Committing(q)
    BY <1>2, <1>3, <1>6, Staying
  <2>. QED
    BY <1>2, <2>1 DEF IInv, OneCommits
<1>9. ASSUME NEW u \in Transaction
      PROVE  Life(u)'
  <2>1. CASE u # t
    <3>1. \A q \in Request : pc[q] = "insert" /\ tx[q] = u => pc'[q] = "insert"
      BY <1>3, <2>1 DEF OthersStay
    <3>2. Life(u) /\ Buffers(u)' = Buffers(u)
      BY <1>2 DEF IInv, Buffers
    <3>. QED
      BY <1>2, <1>4, <2>1, <3>1, <3>2 DEF Life
  <2>2. CASE u = t
    <3>1. Life(t) /\ Buffers(t)' = Buffers(t)
      BY <1>1, <1>2 DEF IInv, Buffers
    <3>2. CASE startRecord(r)
      <4>1. state[t] = None /\ status[t] = "absent" /\ prepared[t] = None /\ t \notin resolving
        BY <1>1, <3>1, <3>2, FrontendAssumption DEF startRecord, IInv, Alone, Life
      <4>2. state'[t] = "Running" /\ status'[t] = "started" /\ pc'[r] = "insert"
        BY <1>1, <1>3, <3>2, <4>1 DEF startRecord, start_transaction, Typed
      <4>. QED
        BY <1>1, <1>2, <2>2, <4>1, <4>2, FrontendAssumption DEF Life
    <3>3. CASE startInsert(r)
      <4>1. /\ t \in transaction_table' /\ state' = state /\ status' = status
        BY <3>3 DEF startInsert
      <4>. QED
        BY <1>2, <1>4, <2>2, <3>1, <4>1 DEF Life
    <3>4. CASE startCount(r)
      <4>1. /\ transaction_table' = transaction_table /\ state' = state /\ status' = status
            /\ pc[r] = "count"
        BY <3>4 DEF startCount
      <4>2. ~ \E q \in Request : pc[q] = "insert" /\ tx[q] = t
        BY <1>1, <4>1
      <4>. QED
        BY <1>2, <1>4, <2>2, <3>1, <4>1, <4>2 DEF Life
    <3>. QED
      BY <3>2, <3>3, <3>4
  <2>. QED
    BY <2>1, <2>2
<1>10. CountStep
  <2>. DEFINE At(there) == {q \in Request : pc[q] = there}
  <2>1. CASE startRecord(r)
    BY <1>1, <1>2, <1>3, <2>1, CountKept DEF startRecord
  <2>2. CASE startInsert(r)
    <3>1. At("count")' = At("count") \cup {r} /\ At("uncount")' = At("uncount")
      BY <1>3, <2>2 DEF startInsert, OthersStay
    <3>2. Counted' \subseteq Counted
      BY <1>2, <2>2, <3>1 DEF Counted, startInsert
    <3>. QED
      BY <2>2, <3>2 DEF CountStep, startInsert
  <2>3. CASE startCount(r)
    <3>1. At("count")' = At("count") \ {r} /\ At("uncount")' = At("uncount")
      BY <1>3, <2>3 DEF startCount, OthersStay
    <3>2. Counted' \subseteq Counted \cup {t}
      BY <1>2, <2>3, <3>1 DEF Counted, startCount
    <3>. QED
      BY <2>3, <3>2 DEF CountStep, startCount
  <2>. QED
    BY <2>1, <2>2, <2>3
<1>. QED
    BY <1>3, <1>5, <1>7, <1>8, <1>9, <1>10 DEF IInv, AllAtCall

---------------------------------------------------------------------------
(* Steps that change the transaction of the handler                        *)

Touching(r) ==
    LET t == tx[r]
    IN  /\ UNCHANGED <<tx, known, rpc, dropped>>
        /\ pc[r] \notin {"idle", "start", "insert", "count", "done"}
        /\ pc'[r] \notin {"idle", "start", "insert", "count"}
        /\ HandlersTyped' /\ AllAtCall' /\ OthersStay(r)
        /\ Typed' /\ state'[t] # None
        /\ \A u \in Transaction \ {t} :
              /\ state'[u] = state[u] /\ status'[u] = status[u] /\ prepared'[u] = prepared[u]
              /\ writeset'[u] = writeset[u] /\ deleteset'[u] = deleteset[u]
              /\ mutex'[u] = mutex[u]
              /\ u \in resolving' <=> u \in resolving
              /\ u \in transaction_table' <=> u \in transaction_table

(* What is left to show is about that transaction.                         *)
LEMMA TouchingKeeps ==
    ASSUME IInv, NEW r \in Request, Touching(r), Life(tx[r])',
           \A q \in Request : tx[q] = tx[r] => Ending(q)' /\ Listed(q)',
           \A q \in Request \ {r} : tx[q] = tx[r] /\ Committing(q) => ~Committing(r)'
    PROVE  IInv'
<1>. DEFINE t == tx[r]
<1>1. t \in Transaction
    BY SMTT(30) DEF IInv, Touching, AtCall, Typed
<1>2. ASSUME NEW q \in Request \ {r}
      PROVE  /\ pc'[q] = pc[q] /\ (CommitOk(q)' <=> CommitOk(q)) /\ (AbortOk(q)' <=> AbortOk(q))
             /\ (Decided(q)' <=> Decided(q)) /\ (Committing(q)' <=> Committing(q))
             /\ (Aborting(q)' <=> Aborting(q))
    BY Staying DEF Touching
<1>3. ASSUME NEW q \in Request
      PROVE  Alone(q)'
  <2>1. CASE q = r
    BY <1>1, <2>1 DEF IInv, Alone, Touching
  <2>2. CASE q # r /\ pc[q] \in {"start", "insert", "count"}
    <3>1. tx[q] \in Transaction \ {t}
      BY <2>2, SMTT(30) DEF IInv, Alone, AtCall, Typed
    <3>. QED
      BY <1>2, <2>2, <3>1, ZenonT(60) DEF IInv, Alone, Touching
  <2>3. CASE q # r /\ pc[q] \notin {"start", "insert", "count"}
    <3>1. pc[q] # "idle" => tx[q] \in Transaction
      BY DEF IInv, AtCall, Typed
    <3>. QED
      BY <1>2, <2>3, <3>1 DEF IInv, Alone, Touching
  <2>. QED
    BY <2>1, <2>2, <2>3
<1>4. ASSUME NEW q \in Request, tx[q] # t
      PROVE  Ending(q)' /\ Listed(q)'
  <2>1. CASE tx[q] = None
    <3>1. pc[q] = "idle" /\ answer[q] = None
      BY <2>1 DEF IInv, AtCall
    <3>2. ~Committing(q) /\ ~Aborting(q) /\ ~Decided(q) /\ ~AbortOk(q)
      BY <3>1, FrontendAssumption DEF Committing, Decided, Aborting, CommitOk, AbortOk
    <3>. QED
      BY <1>2, <1>4, <3>1, <3>2 DEF Ending, Listed
  <2>2. CASE tx[q] # None
    <3>1. tx[q] \in Transaction \ {t} /\ q \in Request \ {r}
      BY <1>4, <2>2 DEF IInv, Typed
    <3>2. Ending(q) /\ Listed(q)
      BY DEF IInv
    <3>3. /\ state'[tx[q]] = state[tx[q]] /\ status'[tx[q]] = status[tx[q]]
          /\ prepared'[tx[q]] = prepared[tx[q]] /\ mutex'[tx[q]] = mutex[tx[q]]
          /\ tx[q] \in resolving' <=> tx[q] \in resolving
          /\ tx[q] \in transaction_table' <=> tx[q] \in transaction_table
          /\ tx' = tx /\ dropped' = dropped
      BY <3>1 DEF Touching
    <3>4. ReadOnly(tx[q])' <=> ReadOnly(tx[q])
      BY <3>3 DEF ReadOnly
    <3>5. Ending(q)'
      BY <1>2, <3>1, <3>2, <3>3, <3>4 DEF Ending
    <3>6. Listed(q)'
      BY <1>2, <3>1, <3>2, <3>3 DEF Listed
    <3>. QED
      BY <3>5, <3>6
  <2>. QED
    BY <2>1, <2>2
<1>5. OneCommits'
  <2>1. \A q \in Request \ {r} : Committing(q)' <=> Committing(q)
    BY <1>2
  <2>2. tx' = tx
    BY DEF Touching
  <2>. QED
    BY <2>1, <2>2 DEF IInv, OneCommits
<1>6. ASSUME NEW u \in Transaction, u # t
      PROVE  Life(u)'
  <2>1. \A q \in Request : pc[q] = "insert" => pc'[q] = "insert"
    BY DEF Touching, OthersStay
  <2>2. Life(u)
    BY DEF IInv
  <2>3. /\ state'[u] = state[u] /\ status'[u] = status[u] /\ prepared'[u] = prepared[u]
        /\ writeset'[u] = writeset[u] /\ deleteset'[u] = deleteset[u]
        /\ u \in resolving' <=> u \in resolving
        /\ u \in transaction_table' <=> u \in transaction_table
        /\ tx' = tx /\ known' = known
    BY <1>6 DEF Touching
  <2>4. Buffers(u)' = Buffers(u)
    BY <2>3 DEF Buffers
  <2>. QED
    BY <2>1, <2>2, <2>3, <2>4 DEF Life
<1>. QED
    BY <1>3, <1>4, <1>5, <1>6 DEF IInv, Touching, AllAtCall

---------------------------------------------------------------------------
(* The steps that end a transaction                                        *)

(* A get or a prepare that fails, or an abort, makes the transaction       *)
(* Aborted.  No handler has committed it: of a running one none has begun  *)
(* to, and of one that prepares this handler alone has.                    *)
LEMMA BecomesAborted ==
    ASSUME IInv, NEW r \in Request, r \notin dropped,
           \/ getFromNewLeader(r) \/ prepareFails(r)
           \/ abort(r) /\ check_still_running(tx[r])
    PROVE  IInv' /\ CountStep
<1>. USE DEF serverVars, bufferVars, fixedVars
<1>. DEFINE t == tx[r]
<1>1. /\ pc[r] \in {"read", "prepare", "lock"} /\ t \in Transaction
      /\ Typed /\ AllAtCall /\ UNCHANGED <<tx, rpc>> /\ Goes(r, "record_abort")
    BY ZenonT(60) DEF getFromNewLeader, prepareFails, abort, check_still_running, IInv,
                      AllAtCall, AtCall, Typed
<1>2. /\ HandlersTyped' /\ AllAtCall' /\ OthersStay(r) /\ pc'[r] = "record_abort"
      /\ answer'[r] = None
    BY <1>1, Going DEF OpAt
<1>3. /\ state' = [state EXCEPT ![t] = "Aborted"]
      /\ \/ mutex' = mutex
         \/ mutex' = [mutex EXCEPT ![t] = r] /\ mutex[t] = None
      /\ UNCHANGED <<transaction_table, num_open_clients, bufferVars, status, resolving, known,
                     dropped>>
    BY DEF getFromNewLeader, prepareFails, abort, check_still_running, Becomes, Locks, CanLock
<1>4. Touching(r)
  <2>. HIDE DEF t
  <2>1. /\ state \in [Transaction -> {None, "Running", "Preparing", "Aborted", "Committed"}]
        /\ mutex \in [Transaction -> Request \cup {None}]
    BY <1>1 DEF Typed
  <2>2. state' \in [Transaction -> {None, "Running", "Preparing", "Aborted", "Committed"}]
    BY <1>3, <2>1
  <2>3. mutex' \in [Transaction -> Request \cup {None}]
    BY <1>3, <2>1
  <2>4. Typed'
    BY <1>1, <1>2, <1>3, <2>2, <2>3 DEF Typed, HandlersTyped
  <2>. QED
    BY <1>1, <1>2, <1>3, <2>4, FrontendAssumption, SMTT(30) DEF Touching, Typed, t
<1>5. /\ state[t] = "Running" \/ (pc[r] = "prepare" /\ state[t] = "Preparing")
      /\ status[t] = "started" /\ t \notin resolving
  <2>1. CASE getFromNewLeader(r)
    BY <1>1, <2>1 DEF getFromNewLeader, IInv, Ending, Life
  <2>2. CASE prepareFails(r)
    BY <1>1, <2>2 DEF prepareFails, IInv, Ending, Life
  <2>3. CASE abort(r) /\ check_still_running(tx[r])
    BY <1>1, <2>3 DEF check_still_running, IInv, Ending, Life
  <2>. QED
    BY <2>1, <2>2, <2>3
<1>6. ASSUME NEW q \in Request \ {r}, tx[q] = t
      PROVE  ~Committing(q)
  <2>1. CASE state[t] = "Running"
    BY <1>6, <2>1 DEF IInv, Ending
  <2>2. CASE pc[r] = "prepare"
    BY <1>6, <2>2 DEF IInv, OneCommits, Committing
  <2>. QED
    BY <1>5, <2>1, <2>2
<1>7. ASSUME NEW q \in Request, tx[q] = t
      PROVE  Ending(q)' /\ Listed(q)'
  <2>1. CASE q = r
    <3>1. ~Committing(r)' /\ ~Decided(r)' /\ ~AbortOk(r)'
      BY <1>2, FrontendAssumption DEF Committing, Decided, CommitOk, AbortOk
    <3>. QED
      BY <1>1, <1>2, <1>3, <2>1, <3>1 DEF Ending, Listed, Typed
  <2>2. CASE q # r
    <3>1. /\ pc'[q] = pc[q] /\ ~Committing(q)' /\ (Aborting(q)' <=> Aborting(q))
          /\ (AbortOk(q)' <=> AbortOk(q))
      BY <1>1, <1>2, <1>6, <1>7, <2>2, Staying
    <3>2. ~Aborting(q) /\ ~AbortOk(q)
      BY <1>5, <1>7 DEF IInv, Ending, Aborting
    <3>3. ~(pc[q] = "read" /\ q \notin dropped)
      <4>1. CASE state[t] = "Running"
        <5>1. mutex[t] \in {None, r} \/ pc[r] = "read"
          BY <2>2, <4>1, <1>5 DEF getFromNewLeader, prepareFails, abort, CanLock, IInv, Ending
        <5>2. mutex[t] \in {None, r}
          BY <5>1 DEF IInv, Ending
        <5>. QED
          BY <1>7, <2>2, <5>2, FrontendAssumption DEF IInv, Ending
      <4>2. CASE state[t] = "Preparing"
        BY <1>7, <4>2 DEF IInv, Ending
      <4>. QED
        BY <1>5, <4>1, <4>2
    <3>. QED
      BY <1>3, <3>1, <3>2, <3>3 DEF Ending, Listed, Committing, Decided, CommitOk
  <2>. QED
    BY <2>1, <2>2
<1>8. Life(t)'
    BY <1>1, <1>3, <1>5, FrontendAssumption DEF IInv, Life, Typed, Buffers
<1>9. CountStep
    BY <1>1, <1>2, <1>3, CountKept
<1>10. ~Committing(r)'
    BY <1>2, FrontendAssumption DEF Committing, Decided, CommitOk
<1>. QED
    BY <1>4, <1>7, <1>8, <1>9, <1>10, TouchingKeeps

(* An abort that finds the transaction Aborted goes on to remove it.       *)
LEMMA AbortedAlready ==
    ASSUME IInv, NEW r \in Request, abort(r), state[tx[r]] = "Aborted"
    PROVE  IInv' /\ CountStep
<1>. USE DEF serverVars, bufferVars, fixedVars
<1>. DEFINE t == tx[r]
<1>1. /\ pc[r] = "lock" /\ t \in Transaction /\ op(r) = "abort"
      /\ Typed /\ AllAtCall /\ UNCHANGED <<tx, rpc>> /\ Goes(r, "remove")
    BY ZenonT(60) DEF abort, check_still_running, IInv, AllAtCall, AtCall, Typed
<1>2. /\ HandlersTyped' /\ AllAtCall' /\ OthersStay(r) /\ pc'[r] = "remove"
      /\ answer'[r] = None /\ op(r)' = "abort"
    BY <1>1, Going DEF OpAt
<1>3. UNCHANGED <<transaction_table, num_open_clients, state, mutex, bufferVars, status,
                  resolving, known, dropped>>
    BY DEF abort, check_still_running
<1>4. Touching(r)
  <2>1. Typed'
    BY <1>1, <1>2, <1>3 DEF Typed, HandlersTyped
  <2>. QED
    BY <1>1, <1>2, <1>3, <2>1, FrontendAssumption DEF Touching
<1>5. ~Committing(r)' /\ ~Decided(r)' /\ ~AbortOk(r)'
    BY <1>2, FrontendAssumption DEF Committing, Decided, CommitOk, AbortOk
<1>6. ASSUME NEW q \in Request, tx[q] = t
      PROVE  Ending(q)' /\ Listed(q)'
  <2>1. CASE q = r
    BY <1>1, <1>2, <1>3, <1>5, <2>1 DEF Ending, Listed
  <2>2. CASE q # r
    <3>1. /\ pc'[q] = pc[q] /\ (Committing(q)' <=> Committing(q))
          /\ (Aborting(q)' <=> Aborting(q)) /\ (AbortOk(q)' <=> AbortOk(q))
          /\ (Decided(q)' <=> Decided(q)) /\ (CommitOk(q)' <=> CommitOk(q))
      BY <1>1, <1>2, <2>2, Staying
    <3>. QED
      BY <1>1, <1>3, <3>1 DEF IInv, Ending, Listed, ReadOnly
  <2>. QED
    BY <2>1, <2>2
<1>7. Life(t)'
    BY <1>1, <1>3 DEF IInv, Life, Buffers
<1>8. CountStep
    BY <1>1, <1>2, <1>3, CountKept
<1>. QED
    BY <1>4, <1>5, <1>6, <1>7, <1>8, TouchingKeeps

(* The record of an abort: the transaction is Aborted and so not recorded  *)
(* as committed, which would be a panic.                                   *)
LEMMA RecordAbort ==
    ASSUME IInv, NEW r \in Request, r \notin dropped, record_abort(r)
    PROVE  IInv' /\ CountStep
<1>. USE DEF serverVars, bufferVars, fixedVars
<1>. DEFINE t == tx[r]
<1>1. /\ pc[r] = "record_abort" /\ t \in Transaction
      /\ Typed /\ AllAtCall /\ UNCHANGED <<tx, rpc>>
      /\ state[t] = "Aborted" /\ status[t] \in {"started", "aborted"}
    BY SMTT(30) DEF record_abort, IInv, AllAtCall, AtCall, Typed, Ending, Aborting, Life
<1>2. /\ status' = [status EXCEPT ![t] = "aborted"]
      /\ mutex' = [mutex EXCEPT ![t] = None]
      /\ IF op(r) = "abort" THEN Goes(r, "remove") ELSE Returns(r, "err")
      /\ UNCHANGED <<transaction_table, num_open_clients, state, bufferVars, resolving, known,
                     dropped>>
    BY <1>1 DEF record_abort, abortOutcome, abort_transaction, Unlocks, Typed
<1>3. /\ HandlersTyped' /\ AllAtCall' /\ OthersStay(r)
      /\ pc'[r] \in {"lookup", "done"} \/ (pc'[r] = "remove" /\ op(r)' = "abort")
      /\ ~CommitOk(r)' /\ ~AbortOk(r)'
  <2>1. CASE op(r) = "abort"
    <3>1. /\ HandlersTyped' /\ AllAtCall' /\ OthersStay(r) /\ pc'[r] = "remove"
          /\ answer'[r] = None /\ op(r)' = "abort"
      BY <1>1, <1>2, <2>1, Going DEF OpAt
    <3>. QED
      BY <3>1, FrontendAssumption DEF CommitOk, AbortOk
  <2>2. CASE op(r) # "abort"
    BY <1>1, <1>2, <2>2, Returning
  <2>. QED
    BY <2>1, <2>2
<1>4. Touching(r)
  <2>. HIDE DEF t
  <2>1. /\ status' \in [Transaction -> {"absent", "started", "aborted", "committed"}]
        /\ mutex' \in [Transaction -> Request \cup {None}]
    BY <1>1, <1>2 DEF Typed
  <2>2. Typed'
    BY <1>1, <1>2, <1>3, <2>1 DEF Typed, HandlersTyped
  <2>. QED
    BY <1>1, <1>2, <1>3, <2>2, FrontendAssumption DEF Touching, Typed, t
<1>5. ~Committing(r)' /\ ~Decided(r)'
    BY <1>3 DEF Committing, Decided
<1>6. ASSUME NEW q \in Request, tx[q] = t
      PROVE  Ending(q)' /\ Listed(q)'
  <2>1. CASE q = r
    BY <1>1, <1>2, <1>3, <1>5, <2>1 DEF Ending, Listed
  <2>2. CASE q # r
    <3>1. /\ pc'[q] = pc[q] /\ (Committing(q)' <=> Committing(q))
          /\ (Aborting(q)' <=> Aborting(q)) /\ (AbortOk(q)' <=> AbortOk(q))
          /\ (Decided(q)' <=> Decided(q))
      BY <1>1, <1>3, <2>2, Staying
    <3>2. ~Committing(q) /\ ~Decided(q) /\ ~(pc[q] = "read" /\ q \notin dropped)
      BY <1>1, <1>6 DEF IInv, Ending, Committing
    <3>3. pc[q] \notin {"prepare", "resolve"}
      BY <3>2 DEF Committing
    <3>. QED
      BY <1>1, <1>2, <3>1, <3>2, <3>3 DEF IInv, Ending, Listed
  <2>. QED
    BY <2>1, <2>2
<1>7. Life(t)'
    BY <1>1, <1>2 DEF IInv, Life, Buffers, Typed
<1>8. CountStep
    BY <1>1, <1>2, <1>3, CountKept
<1>. QED
    BY <1>4, <1>5, <1>6, <1>7, <1>8, TouchingKeeps

(* A commit of a running transaction sends its buffers to be prepared.     *)
LEMMA CommitBegins ==
    ASSUME IInv, NEW r \in Request, r \notin dropped, commit(r), check_still_running(tx[r])
    PROVE  IInv' /\ CountStep
<1>. USE DEF serverVars, bufferVars, fixedVars
<1>. DEFINE t == tx[r]
<1>1. /\ pc[r] = "relock" /\ t \in Transaction /\ op(r) = "commit"
      /\ Typed /\ AllAtCall /\ UNCHANGED <<tx, rpc>> /\ Goes(r, "prepare")
      /\ state[t] = "Running" /\ mutex[t] = None
      /\ status[t] = "started" /\ t \notin resolving
    BY SMTT(30) DEF commit, check_still_running, CanLock, IInv, AllAtCall, AtCall, Typed, Life
<1>2. /\ state' = [state EXCEPT ![t] = "Preparing"]
      /\ mutex' = [mutex EXCEPT ![t] = r]
      /\ prepared' = [prepared EXCEPT ![t] = Buffers(t)]
      /\ UNCHANGED <<transaction_table, num_open_clients, writeset, deleteset, status,
                     resolving, known, dropped>>
    BY DEF commit, check_still_running, Becomes, Locks
<1>3. /\ HandlersTyped' /\ AllAtCall' /\ OthersStay(r) /\ pc'[r] = "prepare"
      /\ answer'[r] = None
    BY <1>1, Going DEF OpAt
<1>4. Touching(r)
  <2>. HIDE DEF t
  <2>1. /\ state' \in [Transaction -> {None, "Running", "Preparing", "Aborted", "Committed"}]
        /\ mutex' \in [Transaction -> Request \cup {None}]
        /\ DOMAIN prepared' = Transaction
    BY <1>1, <1>2 DEF Typed
  <2>2. Typed'
    BY <1>1, <1>2, <1>3, <2>1 DEF Typed, HandlersTyped
  <2>. QED
    BY <1>1, <1>2, <1>3, <2>2, FrontendAssumption DEF Touching, Typed, t
<1>5. t \in transaction_table
  <2>1. ~ \E q \in Request : pc[q] = "insert" /\ tx[q] = t
    BY <1>1 DEF IInv, Alone
  <2>. QED
    BY <1>1, <2>1 DEF IInv, Life
<1>6. ASSUME NEW q \in Request, tx[q] = t
      PROVE  /\ ~Committing(q) /\ ~Aborting(q) /\ ~(pc[q] = "read" /\ q \notin dropped)
             /\ pc[q] \notin {"prepare", "resolve"} /\ ~Decided(q) /\ ~AbortOk(q)
  <2>1. ~Committing(q) /\ ~Aborting(q) /\ ~(pc[q] = "read" /\ q \notin dropped)
    BY <1>1, <1>6, FrontendAssumption DEF IInv, Ending
  <2>. QED
    BY <2>1 DEF Committing, Aborting
<1>7. ASSUME NEW q \in Request, tx[q] = t
      PROVE  Ending(q)' /\ Listed(q)'
  <2>1. CASE q = r
    <3>1. ~Aborting(r)' /\ ~Decided(r)' /\ ~CommitOk(r)' /\ ~AbortOk(r)'
      BY <1>3, FrontendAssumption DEF Aborting, Decided, CommitOk, AbortOk
    <3>. QED
      BY <1>1, <1>2, <1>3, <1>5, <2>1, <3>1 DEF Ending, Listed, Typed
  <2>2. CASE q # r
    <3>1. /\ pc'[q] = pc[q] /\ (Committing(q)' <=> Committing(q))
          /\ (Aborting(q)' <=> Aborting(q)) /\ (AbortOk(q)' <=> AbortOk(q))
          /\ (Decided(q)' <=> Decided(q))
      BY <1>1, <1>3, <2>2, Staying
    <3>. QED
      BY <1>2, <1>6, <1>7, <3>1 DEF Ending, Listed
  <2>. QED
    BY <2>1, <2>2
<1>8. Life(t)'
    BY <1>1, <1>2, FrontendAssumption DEF Life, Buffers, Typed
<1>9. CountStep
    BY <1>1, <1>2, <1>3, CountKept
<1>. QED
    BY <1>4, <1>6, <1>7, <1>8, <1>9, TouchingKeeps

(* A decided transaction: the handler that prepared it, or the resolver    *)
(* for it, commits it, and the handler goes on to remove it.               *)
LEMMA Decides ==
    ASSUME IInv, NEW r \in Request, r \notin dropped, decide(r) \/ resolve(r) \/ resolved(r)
    PROVE  IInv' /\ CountStep
<1>. USE DEF serverVars, bufferVars, fixedVars
<1>. DEFINE t == tx[r]
            there == pc'[r]
<1>1. /\ pc[r] \in {"prepare", "resolve"} /\ t \in Transaction /\ op(r) = "commit"
      /\ Typed /\ AllAtCall /\ UNCHANGED <<tx, rpc>>
      /\ Goes(r, "remove") \/ Goes(r, "resolve")
    BY DEF decide, resolve, resolved, IInv, AllAtCall, AtCall, Typed
<1>2. /\ HandlersTyped' /\ AllAtCall' /\ OthersStay(r) /\ there \in {"remove", "resolve"}
      /\ answer'[r] = None /\ op(r)' = "commit"
    BY <1>1, Going DEF OpAt
<1>3. Committing(r)
    BY <1>1 DEF Committing
<1>4. /\ state[t] = "Preparing" /\ t \in transaction_table
      /\ status[t] \in {"started", "committed"}
      /\ pc[r] = "prepare" => status[t] = "started" /\ t \notin resolving
      /\ pc[r] = "resolve" => t \in resolving \/ status[t] = "committed"
  <2>1. ~(pc[r] = "uncount" \/ CommitOk(r))
    BY <1>1, FrontendAssumption DEF IInv, AtCall, CommitOk
  <2>. QED
    BY <1>1, <1>3, <2>1 DEF IInv, Ending, Listed, Life
<1>5. /\ UNCHANGED <<transaction_table, num_open_clients, bufferVars, known, dropped>>
      /\ mutex' \in [Transaction -> Request \cup {None}]
      /\ \A u \in Transaction \ {t} : mutex'[u] = mutex[u]
  <2>1. mutex' = mutex \/ mutex' = [mutex EXCEPT ![t] = None]
    BY DEF decide, resolve, resolved, Unlocks
  <2>2. UNCHANGED <<transaction_table, num_open_clients, bufferVars, known, dropped>>
    BY DEF decide, resolve, resolved
  <2>. QED
    BY <1>1, <2>1, <2>2 DEF Typed
<1>6. \/ /\ there = "remove"
         /\ state' = [state EXCEPT ![t] = "Committed"]
         /\ status' = [status EXCEPT ![t] = "committed"]
         /\ resolving' = resolving /\ t \notin resolving
      \/ /\ there = "remove" /\ UNCHANGED <<state, status, resolving>>
         /\ status[t] = "committed" \/ ReadOnly(t)
      \/ /\ there = "resolve" /\ UNCHANGED <<state, status>>
         /\ resolving' = resolving \cup {t}
  <2>1. ASSUME NEW p, Goes(r, p) PROVE there = p
    BY <1>1, <2>1 DEF Goes, Typed
  <2>2. CASE decide(r)
    BY <1>4, <2>1, <2>2 DEF decide, Becomes, commit_transaction
  <2>3. CASE resolve(r)
    BY <2>1, <2>3 DEF resolve
  <2>4. CASE resolved(r)
    BY <1>4, <2>1, <2>4 DEF resolved
  <2>. QED
    BY <2>2, <2>3, <2>4
<1>7. /\ state' \in [Transaction -> {None, "Running", "Preparing", "Aborted", "Committed"}]
      /\ status' \in [Transaction -> {"absent", "started", "aborted", "committed"}]
      /\ resolving' \subseteq Transaction
      /\ state'[t] \in {"Preparing", "Committed"}
      /\ \A u \in Transaction \ {t} : /\ state'[u] = state[u] /\ status'[u] = status[u]
                                      /\ u \in resolving' <=> u \in resolving
  <2>. HIDE DEF t, there
  <2>. QED
    BY <1>1, <1>4, <1>6, ZenonT(60) DEF Typed
<1>8. Touching(r)
  <2>1. Typed'
    BY <1>1, <1>2, <1>5, <1>7 DEF Typed, HandlersTyped
  <2>. QED
    BY <1>1, <1>2, <1>5, <1>7, <2>1, FrontendAssumption DEF Touching
<1>9. ASSUME NEW q \in Request \ {r}, tx[q] = t
      PROVE  ~Committing(q) /\ ~Aborting(q) /\ ~(pc[q] = "read" /\ q \notin dropped)
    BY <1>3, <1>4, <1>9 DEF IInv, OneCommits, Ending
<1>10. ASSUME NEW q \in Request, tx[q] = t
       PROVE  Ending(q)' /\ Listed(q)'
  <2>1. CASE q = r
    <3>1. ~Aborting(r)' /\ ~CommitOk(r)' /\ ~AbortOk(r)'
      BY <1>2, FrontendAssumption DEF Aborting, CommitOk, AbortOk
    <3>2. Listed(r)'
      BY <1>1, <1>2, <1>4, <1>5, <3>1 DEF Listed
    <3>3. Decided(r)' => there = "remove"
      BY <1>2, <3>1 DEF Decided
    <3>4. there = "resolve" => state'[t] = "Preparing" /\ t \in resolving'
      BY <1>4, <1>6
    <3>5. there = "remove" => status'[t] = "committed" \/ ReadOnly(t)
      BY <1>1, <1>6 DEF Typed
    <3>. QED
      BY <1>1, <1>2, <1>5, <1>7, <2>1, <3>1, <3>2, <3>3, <3>4, <3>5 DEF Ending, ReadOnly
  <2>2. CASE q # r
    <3>1. /\ pc'[q] = pc[q] /\ (Committing(q)' <=> Committing(q))
          /\ (Aborting(q)' <=> Aborting(q))
      BY <1>1, <1>2, <2>2, Staying
    <3>2. ~Committing(q)' /\ ~Aborting(q)' /\ ~(pc'[q] = "read" /\ q \notin dropped')
      BY <1>5, <1>9, <1>10, <2>2, <3>1
    <3>. QED
      BY <3>2 DEF Ending, Listed, Committing, Aborting
  <2>. QED
    BY <2>1, <2>2
<1>11. Life(t)'
    BY <1>1, <1>4, <1>5, <1>6, FrontendAssumption, SMTT(30) DEF IInv, Life, Buffers, Typed
<1>12. CountStep
    BY <1>1, <1>2, <1>5, CountKept
<1>. QED
    BY <1>8, <1>9, <1>10, <1>11, <1>12, TouchingKeeps

(* The transaction leaves the table.  A commit finds it there, as no other *)
(* handler commits it; the count still covers it.                          *)
LEMMA Removes ==
    ASSUME IInv, NEW r \in Request, r \notin dropped, remove(r)
    PROVE  IInv' /\ CountStep
<1>. USE DEF serverVars, bufferVars, fixedVars
<1>. DEFINE t == tx[r]
<1>1. /\ pc[r] = "remove" /\ t \in Transaction /\ op(r) \in {"abort", "commit"}
      /\ Typed /\ AllAtCall /\ UNCHANGED <<tx, rpc>>
      /\ transaction_table' = transaction_table \ {t}
      /\ UNCHANGED <<num_open_clients, mutex, state, bufferVars, status, resolving, known,
                     dropped>>
    BY DEF remove, IInv, AllAtCall, AtCall, Typed
<1>2. /\ op(r) = "commit" => Committing(r) /\ Decided(r)
      /\ op(r) = "abort" => Aborting(r)
    BY <1>1 DEF Committing, Decided, Aborting
<1>3. /\ op(r) = "commit" => state[t] \in {"Preparing", "Committed"}
      /\ op(r) = "abort" => state[t] = "Aborted"
    BY <1>2 DEF IInv, Ending
<1>4. /\ HandlersTyped' /\ AllAtCall' /\ OthersStay(r)
      /\ op(r) = "commit" =>
            pc'[r] = "uncount" /\ ~CommitOk(r)' /\ ~AbortOk(r)' /\ ~Aborting(r)'
      /\ op(r) = "abort" => pc'[r] \in {"lookup", "done"} /\ ~CommitOk(r)' /\ ~Committing(r)'
  <2>1. CASE op(r) = "commit"
    <3>1. Goes(r, "uncount")
      BY <2>1 DEF remove
    <3>2. /\ HandlersTyped' /\ AllAtCall' /\ OthersStay(r) /\ pc'[r] = "uncount"
          /\ answer'[r] = None
      BY <1>1, <2>1, <3>1, Going DEF OpAt
    <3>. QED
      BY <2>1, <3>2, FrontendAssumption DEF CommitOk, AbortOk, Aborting
  <2>2. CASE op(r) = "abort"
    <3>1. Returns(r, "ok")
      BY <2>2 DEF remove
    <3>2. /\ HandlersTyped' /\ AllAtCall' /\ OthersStay(r) /\ pc'[r] \in {"lookup", "done"}
          /\ ~CommitOk(r)'
      BY <1>1, <2>2, <3>1, Returning
    <3>. QED
      BY <2>2, <3>2 DEF Committing, Decided
  <2>. QED
    BY <1>1, <2>1, <2>2
<1>5. Touching(r)
  <2>1. Typed'
    BY <1>1, <1>4 DEF Typed, HandlersTyped
  <2>. QED
    BY <1>1, <1>3, <1>4, <2>1, FrontendAssumption DEF Touching
<1>6. ASSUME NEW q \in Request \ {r}, tx[q] = t
      PROVE  ~Committing(q)
  <2>1. CASE op(r) = "commit"
    BY <1>2, <1>6, <2>1 DEF IInv, OneCommits
  <2>2. CASE op(r) = "abort"
    BY <1>3, <1>6, <2>2 DEF IInv, Ending
  <2>. QED
    BY <1>1, <2>1, <2>2
<1>7. ASSUME NEW q \in Request, tx[q] = t
      PROVE  Ending(q)' /\ Listed(q)'
  <2>1. CASE q = r /\ op(r) = "commit"
    <3>1. status[t] = "committed" \/ ReadOnly(t)
      BY <1>2, <2>1 DEF IInv, Ending
    <3>. QED
      BY <1>1, <1>3, <1>4, <2>1, <3>1 DEF Ending, Listed, ReadOnly
  <2>2. CASE q = r /\ op(r) = "abort"
    <3>1. ~Decided(r)' /\ pc'[r] \in {"lookup", "done"} /\ ~Committing(r)'
      BY <1>4, <2>2 DEF Committing
    <3>. QED
      BY <1>1, <1>3, <2>2, <3>1 DEF Ending, Listed
  <2>3. CASE q # r
    <3>1. /\ pc'[q] = pc[q] /\ (Committing(q)' <=> Committing(q))
          /\ (Aborting(q)' <=> Aborting(q)) /\ (AbortOk(q)' <=> AbortOk(q))
          /\ (Decided(q)' <=> Decided(q))
      BY <1>1, <1>4, <2>3, Staying
    <3>2. ~Committing(q) /\ ~Decided(q)
      BY <1>6, <1>7, <2>3 DEF Committing
    <3>. QED
      BY <1>1, <1>7, <3>1, <3>2 DEF IInv, Ending, Listed
  <2>. QED
    BY <1>1, <2>1, <2>2, <2>3
<1>8. Life(t)'
    BY <1>1, <1>3, FrontendAssumption DEF IInv, Life, Buffers
<1>9. CountStep
  <2>1. CASE op(r) = "abort"
    BY <1>1, <1>4, <2>1, CountKept
  <2>2. CASE op(r) = "commit"
    <3>1. t \in transaction_table
      <4>1. ~CommitOk(r)
        BY <1>1, FrontendAssumption DEF IInv, AtCall, CommitOk
      <4>. QED
        BY <1>1, <1>2, <2>2, <4>1 DEF IInv, Listed
    <3>2. Counted' \subseteq Counted
      <4>. DEFINE At(there) == {q \in Request : pc[q] = there}
      <4>1. At("count")' = At("count") /\ At("uncount")' = At("uncount") \cup {r}
        BY <1>1, <1>4, <2>2 DEF OthersStay
      <4>2. \A q \in At("count") : tx[q] # t
        BY <1>1 DEF IInv, Alone
      <4>. QED
        BY <1>1, <3>1, <4>1, <4>2 DEF Counted
    <3>. QED
      BY <1>1, <3>2 DEF CountStep
  <2>. QED
    BY <1>1, <2>1, <2>2
<1>. QED
    BY <1>5, <1>6, <1>7, <1>8, <1>9, TouchingKeeps

(* A commit is counted down: the count covered its transaction, which no   *)
(* other handler counts down.                                              *)
LEMMA CountsDown ==
    ASSUME IInv, NEW r \in Request, r \notin dropped, uncount(r)
    PROVE  IInv' /\ CountStep
<1>. USE DEF serverVars, bufferVars, fixedVars
<1>. DEFINE t == tx[r]
<1>1. /\ pc[r] = "uncount" /\ t \in Transaction /\ op(r) = "commit"
      /\ Typed /\ AllAtCall /\ UNCHANGED <<tx, rpc>> /\ Returns(r, "ok")
      /\ num_open_clients' = num_open_clients - 1
      /\ UNCHANGED <<transaction_table, mutex, state, bufferVars, status, resolving, known,
                     dropped>>
    BY DEF uncount, IInv, AllAtCall, AtCall, Typed
<1>2. /\ HandlersTyped' /\ AllAtCall' /\ OthersStay(r) /\ pc'[r] \in {"lookup", "done"}
      /\ ~AbortOk(r)'
    BY <1>1, Returning
<1>3. /\ Committing(r) /\ state[t] \in {"Preparing", "Committed"}
      /\ status[t] = "committed" \/ ReadOnly(t)
      /\ t \notin transaction_table
    BY <1>1 DEF IInv, Ending, Listed, Committing, Decided
<1>4. ASSUME NEW q \in Request \ {r}, tx[q] = t
      PROVE  ~Committing(q)
    BY <1>3, <1>4 DEF IInv, OneCommits
<1>5. t \in Counted /\ Counted' = Counted \ {t}
  <2>. DEFINE At(there) == {q \in Request : pc[q] = there}
  <2>1. At("count")' = At("count") /\ At("uncount")' = At("uncount") \ {r}
    BY <1>1, <1>2 DEF OthersStay
  <2>2. \A q \in At("count") : tx[q] # t
    BY <1>1 DEF IInv, Alone
  <2>3. \A q \in At("uncount") \ {r} : tx[q] # t
    BY <1>4 DEF Committing, Decided
  <2>4. r \in At("uncount")
    BY <1>1
  <2>5. Counted = (transaction_table \cup {tx[q] : q \in At("uncount")})
                     \ {tx[q] : q \in At("count")}
    BY DEF Counted
  <2>6. Counted' = (transaction_table \cup {tx[q] : q \in At("uncount") \ {r}})
                      \ {tx[q] : q \in At("count")}
    BY <1>1, <2>1 DEF Counted
  <2>. HIDE DEF At
  <2>. QED
    BY <1>3, <2>2, <2>3, <2>4, <2>5, <2>6
<1>6. CountStep
    BY <1>1, <1>5 DEF CountStep
<1>7. Touching(r)
  <2>1. Typed'
    BY <1>1, <1>2 DEF Typed, HandlersTyped
  <2>. QED
    BY <1>1, <1>2, <1>3, <2>1, FrontendAssumption DEF Touching
<1>8. ASSUME NEW q \in Request, tx[q] = t
      PROVE  Ending(q)' /\ Listed(q)'
  <2>1. CASE q = r
    <3>1. ~Aborting(r)' /\ (Committing(r)' => CommitOk(r)')
      BY <1>2 DEF Aborting, Committing, Decided
    <3>. QED
      BY <1>1, <1>2, <1>3, <2>1, <3>1 DEF Ending, Listed, ReadOnly
  <2>2. CASE q # r
    <3>1. /\ pc'[q] = pc[q] /\ (Committing(q)' <=> Committing(q))
          /\ (Aborting(q)' <=> Aborting(q)) /\ (AbortOk(q)' <=> AbortOk(q))
          /\ (Decided(q)' <=> Decided(q))
      BY <1>1, <1>2, <2>2, Staying
    <3>2. ~Committing(q) /\ ~Decided(q)
      BY <1>4, <1>8, <2>2 DEF Committing
    <3>. QED
      BY <1>1, <1>8, <3>1, <3>2 DEF IInv, Ending, Listed
  <2>. QED
    BY <2>1, <2>2
<1>9. Life(t)'
    BY <1>1, <1>3, FrontendAssumption DEF IInv, Life, Buffers
<1>. QED
    BY <1>4, <1>6, <1>7, <1>8, <1>9, TouchingKeeps

---------------------------------------------------------------------------
(* The requests.  A finite set can be listed, so the calls of a            *)
(* read-modify-write are a sequence.                                       *)
LEMMA KeysListed == KeyList \in [1..Cardinality(Key) -> Key] /\ Cardinality(Key) \in Nat
<1>1. Cardinality(Key) \in Nat /\ ExistsBijection(1..Cardinality(Key), Key)
    BY FS_CardinalityType, FrontendAssumption
<1>2. KeyList \in Bijection(1..Cardinality(Key), Key)
    BY <1>1 DEF ExistsBijection, KeyList
<1>. QED
    BY <1>1, <1>2 DEF Bijection, Injection

(* What a request begins and ends with                                     *)
LEMMA CallsBegin ==
    ASSUME NEW name \in Rpcs, NEW k \in Key
    PROVE  /\ CallsOf(name, k) \in Seq(CallRecord) /\ CallsOf(name, k) # << >>
           /\ Starts(name) => Head(CallsOf(name, k)).op = "start"
           /\ LET last == CallsOf(name, k)[Len(CallsOf(name, k))].op
              IN  /\ name \in {"commit", "read_modify_write"} => last = "commit"
                  /\ name = "abort" => last = "abort"
<1>1. CASE name # "read_modify_write"
  <2>1. PICK key0 \in Key \cup {None} : CallsOf(name, k) = <<Call(name, key0)>>
    BY <1>1, FrontendAssumption DEF CallsOf
  <2>2. Call(name, key0) \in CallRecord /\ Call(name, key0).op = name
    BY <1>1, FrontendAssumption DEF Call, CallRecord
  <2>. QED
    BY <1>1, <2>1, <2>2, SMTT(30) DEF Starts
<1>2. CASE name = "read_modify_write"
  <2>. DEFINE keys == KeyList
              gets == [i \in 1..Len(keys) |-> Call("get", keys[i])]
              puts == [i \in 1..Len(keys) |-> Call("put", keys[i])]
  <2>1. keys \in Seq(Key) /\ Len(keys) \in Nat /\ \A i \in 1..Len(keys) : keys[i] \in Key
    BY KeysListed, SMTT(30)
  <2>. HIDE DEF keys
  <2>2. gets \in Seq(CallRecord) /\ puts \in Seq(CallRecord)
    <3>1. \A i \in 1..Len(keys) : /\ Call("get", keys[i]) \in CallRecord
                                  /\ Call("put", keys[i]) \in CallRecord
      BY <2>1 DEF Call, CallRecord
    <3>2. \A n \in Nat : \A f \in [1..n -> CallRecord] : f \in Seq(CallRecord)
      BY SMTT(30)
    <3>. QED
      BY <2>1, <3>1, <3>2
  <2>. HIDE DEF gets, puts
  <2>3. <<Call("start", None)>> \in Seq(CallRecord) /\ <<Call("commit", None)>> \in Seq(CallRecord)
    BY SMTT(30) DEF Call, CallRecord
  <2>4. CallsOf(name, k) = <<Call("start", None)>> \o gets \o puts \o <<Call("commit", None)>>
    BY <1>2 DEF CallsOf, read_modify_write, gets, puts, keys
  <2>. DEFINE c == CallsOf(name, k)
  <2>5. c \in Seq(CallRecord) /\ Len(c) = Len(gets) + Len(puts) + 2
    BY <2>2, <2>3, <2>4, SMTT(30)
  <2>6. Head(c) = Call("start", None) /\ c[Len(c)] = Call("commit", None)
    BY <2>2, <2>3, <2>4, SMTT(30)
  <2>. QED
    BY <1>2, <2>2, <2>5, <2>6, SMTT(30) DEF Call
<1>. QED
    BY <1>1, <1>2

---------------------------------------------------------------------------
(* A request arrives, with a new transaction or one its client was told.   *)
LEMMA Arrives ==
    ASSUME IInv, NEW r \in Request, arrive(r)
    PROVE  IInv' /\ CountStep
<1>. USE DEF serverVars, bufferVars
<1>1. PICK name \in Rpcs, k \in Key :
          /\ rpc' = [rpc EXCEPT ![r] = name]
          /\ calls' = [calls EXCEPT ![r] = CallsOf(name, k)]
          /\ IF Starts(name)
             THEN /\ Fresh # {} /\ tx' = [tx EXCEPT ![r] = CHOOSE t \in Fresh : TRUE]
                  /\ pc' = [pc EXCEPT ![r] = "start"]
             ELSE /\ \E t \in known : tx' = [tx EXCEPT ![r] = t]
                  /\ pc' = [pc EXCEPT ![r] = "lookup"]
    BY DEF arrive
<1>2. /\ Typed /\ pc[r] = "idle" /\ tx[r] = None /\ answer[r] = None
      /\ UNCHANGED <<transaction_table, num_open_clients, mutex, state, bufferVars, status,
                     resolving, answer, known, dropped>>
    BY DEF arrive, IInv, AtCall
<1>3. PICK t \in Transaction :
          /\ tx' = [tx EXCEPT ![r] = t]
          /\ \/ /\ Starts(name) /\ pc' = [pc EXCEPT ![r] = "start"]
                /\ \A q \in Request : tx[q] # t
             \/ /\ ~Starts(name) /\ pc' = [pc EXCEPT ![r] = "lookup"]
                /\ t \in known
  <2>1. CASE Starts(name)
    <3>1. (CHOOSE t \in Fresh : TRUE) \in Fresh
      BY <1>1, <2>1
    <3>2. Fresh \subseteq Transaction /\ \A u \in Fresh : \A q \in Request : tx[q] # u
      BY <1>2 DEF Fresh, Range, Typed
    <3>. QED
      BY <1>1, <2>1, <3>1, <3>2
  <2>2. CASE ~Starts(name)
    BY <1>1, <1>2, <2>2 DEF Typed
  <2>. QED
    BY <2>1, <2>2
<1>4. /\ state[t] = None <=> pc'[r] = "start"
      /\ pc'[r] \in {"start", "lookup"} /\ (pc'[r] = "start" <=> Starts(name))
      /\ pc'[r] = "start" => t \notin known /\ \A q \in Request : tx[q] # t
    BY <1>2, <1>3, SMTT(30) DEF IInv, Life, Typed
<1>5. ASSUME NEW q \in Request \ {r}
      PROVE  /\ pc'[q] = pc[q] /\ tx'[q] = tx[q] /\ rpc'[q] = rpc[q] /\ calls'[q] = calls[q]
    BY <1>1, <1>2, <1>3 DEF Typed
<1>6. /\ pc'[r] \in {"start", "lookup"} /\ tx'[r] = t /\ rpc'[r] = name
      /\ calls'[r] = CallsOf(name, k) /\ answer'[r] = None
    BY <1>1, <1>2, <1>3, <1>4 DEF Typed
<1>7. Typed'
  <2>1. CallsOf(name, k) \in Seq(CallRecord)
    BY CallsBegin
  <2>2. /\ DOMAIN pc' = Request /\ rpc' \in [Request -> Rpcs \cup {None}]
        /\ calls' \in [Request -> Seq(CallRecord)]
        /\ tx' \in [Request -> Transaction \cup {None}]
    BY <1>1, <1>2, <1>3, <2>1 DEF Typed
  <2>. QED
    BY <1>2, <2>2 DEF Typed
<1>8. OthersStay(r)
    BY <1>2, <1>5 DEF OthersStay
<1>9. /\ ~Committing(r)' /\ ~Aborting(r)' /\ ~Decided(r)' /\ ~CommitOk(r)' /\ ~AbortOk(r)'
    BY <1>6, FrontendAssumption DEF Committing, Decided, Aborting, CommitOk, AbortOk
<1>10. ASSUME NEW q \in Request \ {r}
       PROVE  /\ (Committing(q)' <=> Committing(q)) /\ (Decided(q)' <=> Decided(q))
              /\ (Aborting(q)' <=> Aborting(q)) /\ (AbortOk(q)' <=> AbortOk(q))
              /\ (CommitOk(q)' <=> CommitOk(q))
    BY <1>2, <1>5 DEF Committing, Decided, Aborting, CommitOk, AbortOk, Commits, op
<1>11. ASSUME NEW q \in Request
       PROVE  AtCall(q)'
  <2>1. CASE q = r
    <3>1. /\ CallsOf(name, k) # << >>
          /\ Starts(name) => Head(CallsOf(name, k)).op = "start"
          /\ name \in {"commit", "read_modify_write"} =>
                CallsOf(name, k)[Len(CallsOf(name, k))].op = "commit"
          /\ name = "abort" => CallsOf(name, k)[Len(CallsOf(name, k))].op = "abort"
      BY CallsBegin
    <3>2. tx'[r] # None
      BY <1>6, FrontendAssumption
    <3>. QED
      BY <1>4, <1>6, <2>1, <3>1, <3>2 DEF AtCall, Commits, LastOp, op
  <2>2. CASE q # r
    BY <1>2, <1>5, <2>2, ZenonT(60) DEF IInv, AtCall, Commits, LastOp, op
  <2>. QED
    BY <2>1, <2>2
<1>12. ASSUME NEW q \in Request
       PROVE  Alone(q)'
  <2>1. CASE q = r
    BY <1>2, <1>4, <1>5, <1>6, <2>1 DEF Alone
  <2>2. CASE q # r
    <3>1. pc[q] \in {"start", "insert", "count"} => tx[q] # t
      <4>1. CASE pc'[r] = "start"
        BY <1>4, <4>1
      <4>2. CASE pc'[r] = "lookup"
        BY <1>3, <1>4, <4>2 DEF IInv, Alone
      <4>. QED
        BY <1>4, <4>1, <4>2
    <3>2. /\ Alone(q) /\ pc'[q] = pc[q] /\ tx'[q] = tx[q]
          /\ \A p \in Request \ {q} : tx'[p] = tx[p] \/ tx'[p] = t
      BY <1>5, <1>6, <2>2 DEF IInv
    <3>. QED
      BY <1>2, <3>1, <3>2 DEF Alone
  <2>. QED
    BY <2>1, <2>2
<1>13. ASSUME NEW q \in Request
       PROVE  Ending(q)' /\ Listed(q)'
  <2>1. CASE q = r
    BY <1>4, <1>9, <2>1 DEF Ending, Listed
  <2>2. CASE q # r
    BY <1>2, <1>5, <1>10, <2>2, ZenonT(60) DEF IInv, Ending, Listed, ReadOnly
  <2>. QED
    BY <2>1, <2>2
<1>14. OneCommits'
    BY <1>5, <1>9, <1>10 DEF IInv, OneCommits
<1>15. ASSUME NEW u \in Transaction
       PROVE  Life(u)'
  <2>1. Life(u) /\ Buffers(u)' = Buffers(u)
    BY <1>2 DEF IInv, Buffers
  <2>2. ASSUME NEW q \in Request, tx[q] = u
        PROVE  q # r /\ pc'[q] = pc[q] /\ tx'[q] = u
    BY <1>2, <1>5, <2>2, FrontendAssumption
  <2>. QED
    BY <1>2, <2>1, <2>2 DEF Life
<1>16. CountStep
  <2>. DEFINE At(there) == {q \in Request : pc[q] = there}
  <2>1. /\ At("count")' = At("count") /\ At("uncount")' = At("uncount")
        /\ r \notin At("count") \cup At("uncount")
    BY <1>2, <1>5, <1>6
  <2>2. Counted' = Counted
    BY <1>2, <1>5, <2>1, SMTT(30) DEF Counted
  <2>. QED
    BY <1>2, <2>2 DEF CountStep
<1>. QED
    BY <1>7, <1>11, <1>12, <1>13, <1>14, <1>15, <1>16 DEF IInv

---------------------------------------------------------------------------
(* The invariant holds initially, when there are no requests.              *)
LEMMA InitIInv == Init => IInv
<1>. SUFFICES ASSUME Init PROVE IInv
    OBVIOUS
<1>. USE DEF Init
<1>1. Typed
  <2>1. << >> \in Seq(CallRecord)
    BY SMTT(30)
  <2>. QED
    BY <2>1 DEF Typed
<1>2. \A r \in Request : AtCall(r) /\ Alone(r)
    BY FrontendAssumption DEF AtCall, Alone
<1>3. \A r \in Request : /\ ~Committing(r) /\ ~Decided(r) /\ ~Aborting(r)
                         /\ ~CommitOk(r) /\ ~AbortOk(r)
    BY FrontendAssumption DEF Committing, Decided, Aborting, CommitOk, AbortOk
<1>4. (\A r \in Request : Ending(r) /\ Listed(r)) /\ OneCommits
    BY <1>3 DEF Ending, Listed, OneCommits
<1>5. \A t \in Transaction : Life(t)
    BY FrontendAssumption DEF Life
<1>. QED
    BY <1>1, <1>2, <1>4, <1>5 DEF IInv

(* Every step preserves the invariant, and moves the count with it.        *)
LEMMA NextIInv == IInv /\ [Next]_vars => IInv' /\ CountStep
<1>. SUFFICES ASSUME IInv, [Next]_vars PROVE IInv' /\ CountStep
    OBVIOUS
<1>1. CASE UNCHANGED vars
  <2>. USE <1>1 DEF vars, serverVars, bufferVars, handlerVars, fixedVars
  <2>1. Typed' /\ OneCommits' /\ CountStep
    BY SMTT(30) DEF IInv, Typed, OneCommits, CountStep, Counted, Committing, Decided,
                    CommitOk, Commits, op
  <2>2. ASSUME NEW r \in Request
        PROVE  AtCall(r)' /\ Alone(r)' /\ Ending(r)' /\ Listed(r)'
    BY DEF IInv, AtCall, Alone, Ending, Listed, Committing, Decided, Aborting, CommitOk, AbortOk,
           Commits, LastOp, op, ReadOnly
  <2>3. \A t \in Transaction : Life(t)'
    BY DEF IInv, Life, Buffers
  <2>. QED
    BY <2>1, <2>2, <2>3 DEF IInv
<1>2. ASSUME NEW r \in Request, arrive(r)
      PROVE  IInv' /\ CountStep
    BY <1>2, Arrives
<1>3. ASSUME NEW r \in Request, r \notin dropped, step(r)
      PROVE  IInv' /\ CountStep
  <2>1. CASE startRecord(r) \/ startInsert(r) \/ startCount(r)
    BY <1>3, <2>1, Starting
  <2>2. CASE \/ lookup(r) \/ refused(r) \/ get(r) \/ getReply(r) \/ put(r) \/ delete(r)
             \/ readKeyspace(r) \/ sampleClients(r)
             \/ commit(r) /\ ~check_still_running(tx[r])
             \/ /\ abort(r) /\ state[tx[r]] # "Aborted" /\ ~check_still_running(tx[r])
    BY <1>3, <2>2, LookingSteps, LookingKeeps
  <2>3. CASE \/ getFromNewLeader(r) \/ prepareFails(r)
             \/ abort(r) /\ check_still_running(tx[r])
    BY <1>3, <2>3, BecomesAborted
  <2>4. CASE abort(r) /\ state[tx[r]] = "Aborted"
    BY <1>3, <2>4, AbortedAlready
  <2>5. CASE record_abort(r)
    BY <1>3, <2>5, RecordAbort
  <2>6. CASE commit(r) /\ check_still_running(tx[r])
    BY <1>3, <2>6, CommitBegins
  <2>7. CASE decide(r) \/ resolve(r) \/ resolved(r)
    BY <1>3, <2>7, Decides
  <2>8. CASE remove(r)
    BY <1>3, <2>8, Removes
  <2>9. CASE uncount(r)
    BY <1>3, <2>9, CountsDown
  <2>. QED
    BY <1>3, <2>1, <2>2, <2>3, <2>4, <2>5, <2>6, <2>7, <2>8, <2>9, ZenonT(60) DEF step
<1>4. ASSUME NEW t \in Transaction, resolverCommits(t)
      PROVE  IInv' /\ CountStep
    BY <1>4, ResolverCommits
<1>5. ASSUME NEW r \in Request, drop(r)
      PROVE  IInv' /\ CountStep
    BY <1>5, Drops
<1>. QED
    BY <1>1, <1>2, <1>3, <1>4, <1>5 DEF Next, handlerStep, Quiet

(* The invariant holds in every reachable state.                           *)
LEMMA Invariance == Spec => []IInv
    BY InitIInv, NextIInv, PTL DEF Spec

---------------------------------------------------------------------------

(* A transaction ends in one way, for any number of requests and dropped   *)
(* handlers: the mutex and the state of the Transaction object make up for *)
(* a commit record that is written without a condition.                    *)
THEOREM OneOutcomeHolds == Spec => []OneOutcome
<1>1. IInv => OneOutcome
  <2>. SUFFICES ASSUME IInv, NEW t \in Transaction
                PROVE  /\ CommitAnswered(t) => /\ ~AbortAnswered(t)
                                               /\ status[t] = "committed" \/ ReadOnly(t)
                                               /\ status[t] # "aborted"
                       /\ AbortAnswered(t) => status[t] # "committed" /\ t \notin resolving
                       /\ CommitAnswered(t) \/ AbortAnswered(t) => t \notin transaction_table
                       /\ ~Answered(t, Rpcs, "panic")
    BY DEF OneOutcome
  <2>1. CommitAnswered(t) => /\ state[t] \in {"Preparing", "Committed"}
                             /\ status[t] = "committed" \/ ReadOnly(t)
                             /\ t \notin transaction_table
    BY DEF CommitAnswered, Answered, IInv, Ending, Listed, Committing, Decided, CommitOk, Commits
  <2>2. AbortAnswered(t) => state[t] = "Aborted" /\ t \notin transaction_table
    BY DEF AbortAnswered, Answered, IInv, Ending, Listed, Aborting, AbortOk
  <2>3. ~Answered(t, Rpcs, "panic")
    BY FrontendAssumption DEF Answered, IInv, Typed
  <2>. QED
    BY <2>1, <2>2, <2>3 DEF IInv, Life
<1>. QED
    BY <1>1, Invariance, PTL

(* No put or delete is accepted once the transaction has been sent to its  *)
(* ranges to prepare, for any number of handlers.                          *)
THEOREM NothingAfterPrepareHolds == Spec => []NothingAfterPrepare
<1>1. IInv => NothingAfterPrepare
    BY DEF IInv, Life, NothingAfterPrepare
<1>. QED
    BY <1>1, Invariance, PTL

---------------------------------------------------------------------------
(* The count of open clients                                               *)

Covered == num_open_clients \in Nat /\ num_open_clients >= Cardinality(Counted)

(* There are finitely many transactions to cover.                          *)
LEMMA CountedFinite == ASSUME Typed PROVE IsFiniteSet(Counted) /\ Cardinality(Counted) \in Nat
<1>1. IsFiniteSet(Transaction \cup {None})
    BY FS_AddElement, FrontendAssumption
<1>2. Counted \in SUBSET (Transaction \cup {None})
    BY SMTT(30) DEF Counted, Typed
<1>. QED
    BY <1>1, <1>2, FS_Subset, FS_CardinalityType

(* However a step changes the count, it still covers what it has to.       *)
LEMMA CountStepCovers ==
    ASSUME Typed, Covered, CountStep
    PROVE  Covered'
<1>1. IsFiniteSet(Counted) /\ Cardinality(Counted) \in Nat
    BY CountedFinite
<1>2. num_open_clients \in Nat /\ num_open_clients >= Cardinality(Counted)
    BY DEF Covered
<1>3. CASE num_open_clients' = num_open_clients /\ Counted' \subseteq Counted
  <2>1. Cardinality(Counted') <= Cardinality(Counted) /\ Cardinality(Counted') \in Nat
    BY <1>1, <1>3, FS_Subset, FS_CardinalityType
  <2>. QED
    BY <1>1, <1>2, <1>3, <2>1, SMTT(30) DEF Covered
<1>4. ASSUME num_open_clients' = num_open_clients + 1, NEW t, Counted' \subseteq Counted \cup {t}
      PROVE  Covered'
  <2>1. /\ IsFiniteSet(Counted \cup {t})
        /\ Cardinality(Counted \cup {t}) \in {Cardinality(Counted), Cardinality(Counted) + 1}
    BY <1>1, FS_AddElement
  <2>2. /\ Cardinality(Counted') <= Cardinality(Counted \cup {t})
        /\ Cardinality(Counted') \in Nat
    BY <1>4, <2>1, FS_Subset, FS_CardinalityType
  <2>. QED
    BY <1>1, <1>2, <1>4, <2>1, <2>2, SMTT(30) DEF Covered
<1>5. ASSUME num_open_clients' = num_open_clients - 1, NEW t \in Counted,
             Counted' = Counted \ {t}
      PROVE  Covered'
  <2>1. IsFiniteSet(Counted \ {t}) /\ Cardinality(Counted \ {t}) = Cardinality(Counted) - 1
    BY <1>1, FS_RemoveElement
  <2>2. Cardinality(Counted \ {t}) \in Nat
    BY <2>1, FS_CardinalityType
  <2>. QED
    BY <1>1, <1>2, <1>5, <2>1, <2>2, SMTT(30) DEF Covered
<1>. QED
    BY <1>3, <1>4, <1>5 DEF CountStep

(* The count covers them in every reachable state.                         *)
LEMMA CoveredHolds == Spec => []Covered
<1>1. Init => Covered
  <2>. SUFFICES ASSUME Init PROVE Covered
    OBVIOUS
  <2>1. Counted = {} /\ num_open_clients = 0
    BY DEF Counted, Init
  <2>. QED
    BY <2>1, FS_EmptySet, SMTT(30) DEF Covered
<1>2. IInv /\ Covered /\ [Next]_vars => Covered'
  <2>. SUFFICES ASSUME IInv, Covered, [Next]_vars PROVE Covered'
    OBVIOUS
  <2>1. CountStep /\ Typed
    BY NextIInv DEF IInv
  <2>. QED
    BY <2>1, CountStepCovers
<1>. QED
    BY <1>1, <1>2, Invariance, PTL DEF Spec

(* The count of open clients stays a natural number that covers the table: *)
(* it is decremented by one handler of a transaction at most.              *)
THEOREM ClientsCountedHolds == Spec => []ClientsCounted
<1>1. IInv /\ Covered => ClientsCounted
  <2>. SUFFICES ASSUME IInv, Covered PROVE ClientsCounted
    OBVIOUS
  <2>. DEFINE open == transaction_table \ {tx[r] : r \in {q \in Request : pc[q] = "count"}}
  <2>1. open \subseteq Counted
    BY DEF Counted
  <2>2. IsFiniteSet(Counted) /\ Cardinality(Counted) \in Nat
    BY CountedFinite DEF IInv
  <2>3. Cardinality(open) <= Cardinality(Counted) /\ Cardinality(open) \in Nat
    BY <2>1, <2>2, FS_Subset, FS_CardinalityType
  <2>. QED
    BY <2>2, <2>3, SMTT(30) DEF Covered, ClientsCounted
<1>. QED
    BY <1>1, Invariance, CoveredHolds, PTL

---------------------------------------------------------------------------
(* The range client *)

(* The call has come out of the oracle with a range.                       *)
HasRange(c) == pc[c] \in {"pool", "create", "send", "waiting"}

Calls ==
    /\ DOMAIN pc = ClientCall /\ DOMAIN request = ClientCall /\ DOMAIN info = ClientCall
    /\ DOMAIN range = ClientCall /\ DOMAIN client = ClientCall /\ DOMAIN conn = ClientCall
    /\ DOMAIN answer = ClientCall
    /\ \A c \in ClientCall : pc[c] \in {"fast", "info", "fetch", "insert", "find"} \/ HasRange(c) =>
          request[c] \in Requests

(* Rows are what their creation asked for, acknowledged or not.            *)
Directory ==
    /\ \A ks \in DOMAIN keyspaces : \E r \in Creation :
          r.keyspace = ks /\ keyspaces[ks] = RC!constructFromParts(r)
    /\ \A ks \in DOMAIN acknowledged :
          /\ acknowledged[ks] \in Creation
          /\ ks \in DOMAIN keyspaces /\ keyspaces[ks] = RC!constructFromParts(acknowledged[ks])

(* A cached info is a keyspace's, but perhaps another's of the same        *)
(* letters.                                                                *)
InfoCache ==
    \A s \in DOMAIN keyspace_to_keyspace_info : \E ks \in DOMAIN keyspaces :
       RC!keyspaceCacheKey(ks) = s /\ keyspace_to_keyspace_info[s] = RC!getKeyspaceInfo(ks)

(* A cached range is found only under the digits of a key.                 *)
KeyCache == \A s \in DOMAIN key_to_full_range_id : \E k \in Key : Hex[k] = s

Routed(c) ==
    \/ RC!Clash(c)
    \/ /\ RC!Keyspace(c) \in DOMAIN keyspaces
       /\ RC!hits(keyspaces[RC!Keyspace(c)], RC!AskedKey(c)) # {}
       /\ range[c] = RC!find(keyspaces[RC!Keyspace(c)], RC!AskedKey(c))

Resolving(c) ==
    /\ pc[c] = "insert" => /\ RC!Keyspace(c) \in DOMAIN keyspaces
                           /\ info[c] = RC!getKeyspaceInfo(RC!Keyspace(c))
    /\ pc[c] = "find" => RC!keyspaceCacheKey(RC!Keyspace(c)) \in DOMAIN keyspace_to_keyspace_info
    /\ HasRange(c) => Routed(c)
    /\ ~HasRange(c) => range[c] = None

(* Only a call that waits has a connection and may have an answer.         *)
Answering(c) ==
    /\ conn[c] # "none" => pc[c] = "waiting"
    /\ answer[c] # None => pc[c] = "waiting"
    /\ answer[c] # None /\ answer[c].status = "KeyIsOutOfRange" => RC!Clash(c)

Pooled(c) == client[c] # None => client[c] = range_clients

ClientIInv ==
    /\ Calls /\ Directory /\ InfoCache /\ KeyCache
    /\ \A c \in ClientCall : Resolving(c) /\ Answering(c) /\ Pooled(c)

---------------------------------------------------------------------------
(* The readings of a row                                                   *)

(* A nonempty set of positions has a least one.                            *)
LEMMA Least ==
    ASSUME NEW S \in SUBSET Nat, S # {}
    PROVE  \E i \in S : \A j \in S : i <= j
<1>1. PICK i \in S : \A j \in S : ~(<<j, i>> \in OpToRel(<, Nat))
    BY NatLessThanWellFounded, WFMin
<1>2. \A j \in S : ~(j < i)
    BY <1>1 DEF OpToRel
<1>3. \A j \in S : i \in Nat /\ j \in Nat
    OBVIOUS
<1>4. \A j \in S : i <= j
    BY <1>2, <1>3, SMTT(30)
<1>. QED  BY <1>4

(* The first range that has a key is one that has it.                      *)
LEMMA FindHits ==
    ASSUME NEW row, NEW k, RC!hits(row, k) # {}
    PROVE  \E i \in RC!hits(row, k) : RC!find(row, k) = RC!FullRangeId(row, i)
<1>1. RC!hits(row, k) \in SUBSET Nat
    BY SMTT(30) DEF RC!hits
<1>2. PICK i \in RC!hits(row, k) : \A j \in RC!hits(row, k) : i <= j
    BY <1>1, Least
<1>3. (CHOOSE n \in RC!hits(row, k) : \A j \in RC!hits(row, k) : n <= j) \in RC!hits(row, k)
    BY <1>2
<1>. QED  BY <1>3 DEF RC!find

(* A key that the oracle finds in a range is in the range for the warden   *)
(* and the range server too: they only drop bounds.                        *)
LEMMA WardenAccepts ==
    ASSUME NEW r, NEW k, RC!includes(RC!fromProto(r), k)
    PROVE  RC!includes(RC!fromEmptyAsUnbounded(r), k)
BY DEF RC!includes, RC!fromProto, RC!fromEmptyAsUnbounded, RC!KeyRange

(* The info of a keyspace and its row are searched with the same result.   *)
LEMMA SameSearch ==
    ASSUME NEW r, NEW k
    PROVE  LET row == RC!constructFromParts(r)
           IN  /\ RC!hits(RC!intoKeyspaceInfo(row), k) = RC!hits(row, k)
               /\ RC!find(RC!intoKeyspaceInfo(row), k) = RC!find(row, k)
<1>. DEFINE row == RC!constructFromParts(r)
<1>1. /\ RC!intoKeyspaceInfo(row).keyspace_id = row.keyspace_id
      /\ RC!intoKeyspaceInfo(row).base_key_ranges = row.base_key_ranges
    BY DEF RC!intoKeyspaceInfo, RC!constructFromParts
<1>. HIDE DEF row
<1>2. RC!hits(RC!intoKeyspaceInfo(row), k) = RC!hits(row, k)
    BY <1>1 DEF RC!hits
<1>3. \A i : RC!FullRangeId(RC!intoKeyspaceInfo(row), i) = RC!FullRangeId(row, i)
    BY <1>1 DEF RC!FullRangeId
<1>4. RC!find(RC!intoKeyspaceInfo(row), k) = RC!find(row, k)
    BY <1>2, <1>3 DEF RC!find
<1>. QED  BY <1>2, <1>4 DEF row

---------------------------------------------------------------------------
(* What a step leaves alone of a call                                      *)

Same(d) ==
    /\ pc'[d] = pc[d] /\ request'[d] = request[d] /\ info'[d] = info[d]
    /\ range'[d] = range[d] /\ client'[d] = client[d] /\ answer'[d] = answer[d]
    /\ conn'[d] # "none" => conn[d] # "none"

Grows ==
    /\ \A ks \in DOMAIN keyspaces : ks \in DOMAIN keyspaces' /\ keyspaces'[ks] = keyspaces[ks]
    /\ DOMAIN keyspace_to_keyspace_info \subseteq DOMAIN keyspace_to_keyspace_info'
    /\ range_clients # None => range_clients' = range_clients

(* A clash stays one.                                                      *)
LEMMA ClashStays ==
    ASSUME NEW d, RC!Clash(d), Grows, request'[d] = request[d]
    PROVE  RC!Clash(d)'
BY DEF RC!Clash, Grows, RC!Keyspace, RC!AskedKey, RC!keyspaceCacheKey, RC!keyCacheKey

(* While rows, cached infos and the pooled client are only added, a call   *)
(* that is left alone keeps its part of the invariant.                     *)
LEMMA OtherCalls ==
    ASSUME NEW d \in ClientCall, Resolving(d), Answering(d), Pooled(d), Same(d), Grows
    PROVE  (Resolving(d) /\ Answering(d) /\ Pooled(d))'
<1>. USE DEF Same
<1>1. RC!Clash(d) => RC!Clash(d)'
    BY ClashStays
<1>2. RC!Keyspace(d)' = RC!Keyspace(d) /\ RC!AskedKey(d)' = RC!AskedKey(d)
    BY DEF RC!Keyspace, RC!AskedKey
<1>3. RC!Keyspace(d) \in DOMAIN keyspaces =>
         /\ RC!Keyspace(d) \in DOMAIN keyspaces'
         /\ keyspaces'[RC!Keyspace(d)] = keyspaces[RC!Keyspace(d)]
    BY DEF Grows
<1>4. Routed(d) => Routed(d)'
    BY <1>1, <1>2, <1>3 DEF Routed, RC!hits, RC!find
<1>5. pc[d] = "insert" => /\ RC!Keyspace(d)' \in DOMAIN keyspaces'
                          /\ info'[d] = RC!getKeyspaceInfo(RC!Keyspace(d))'
    BY <1>2, <1>3 DEF Resolving, RC!getKeyspaceInfo
<1>6. pc[d] = "find" =>
         RC!keyspaceCacheKey(RC!Keyspace(d))' \in DOMAIN keyspace_to_keyspace_info'
    BY <1>2 DEF Resolving, Grows, RC!keyspaceCacheKey
<1>7. Resolving(d)'
    BY <1>4, <1>5, <1>6 DEF Resolving, HasRange
<1>8. Answering(d)'
    BY <1>1 DEF Answering
<1>9. Pooled(d)'
    BY DEF Pooled, Grows
<1>. QED  BY <1>7, <1>8, <1>9

---------------------------------------------------------------------------
(* The steps                                                               *)

(* Initially nothing has been called, created or cached.                   *)
THEOREM ClientInitIInv == RC!Init => ClientIInv
<1>. SUFFICES ASSUME RC!Init
              PROVE  ClientIInv
    OBVIOUS
<1>1. Calls
    BY DEF RC!Init, Calls, HasRange
<1>2. Directory /\ InfoCache /\ KeyCache
    BY SMTT(30) DEF RC!Init, RC!UniverseInit, Directory, InfoCache, KeyCache
<1>3. \A c \in ClientCall : Resolving(c) /\ Answering(c) /\ Pooled(c)
    BY DEF RC!Init, Resolving, Answering, Pooled, HasRange
<1>. QED  BY <1>1, <1>2, <1>3 DEF ClientIInv

(* Every step keeps the maps' domains and a call's request.                *)
LEMMA NextCalls ==
    ASSUME Calls, RC!Next
    PROVE  Calls'
<1>. USE DEF Calls, HasRange
<1>1. CASE RC!create \/ RC!accept \/ RC!listenDefault \/ RC!Idle
    BY <1>1 DEF RC!create, RC!accept, RC!listenDefault, RC!Idle, RC!vars, RC!serverVars, RC!callVars
<1>2. CASE RC!cancel \/ RC!crash
    BY <1>2 DEF RC!cancel, RC!crash, RC!callVars
<1>3. ASSUME NEW c \in ClientCall, NEW r \in Requests, RC!start(c, r)
      PROVE  Calls'
    BY <1>3 DEF RC!start, RC!goto, RC!serverVars
<1>4. ASSUME NEW c \in ClientCall, RC!resolve(c)
      PROVE  Calls'
  <2>1. CASE RC!resolveFast(c) \/ RC!resolveInfo(c)
      BY <1>4, <2>1 DEF RC!resolveFast, RC!resolveInfo, RC!goto, RC!serverVars
  <2>2. CASE RC!resolveFetch(c)
      BY <1>4, <2>2 DEF RC!resolveFetch, RC!goto, RC!end, RC!serverVars
  <2>3. CASE RC!resolveInsert(c)
      BY <1>4, <2>3 DEF RC!resolveInsert, RC!goto, RC!serverVars
  <2>4. CASE RC!resolveFind(c)
      BY <1>4, <2>4 DEF RC!resolveFind, RC!goto, RC!end, RC!serverVars
  <2>. QED  BY <1>4, <2>1, <2>2, <2>3, <2>4 DEF RC!resolve
<1>5. ASSUME NEW c \in ClientCall, RC!poolRead(c) \/ RC!poolCreate(c)
      PROVE  Calls'
    BY <1>5 DEF RC!poolRead, RC!poolCreate, RC!use, RC!goto, RC!serverVars
<1>6. ASSUME NEW c \in ClientCall, RC!send(c)
      PROVE  Calls'
    BY <1>6 DEF RC!send, RC!goto, RC!goconn, RC!end
<1>7. ASSUME NEW c \in ClientCall, RC!handleConnection(c) \/ RC!dispatch(c)
      PROVE  Calls'
    BY <1>7 DEF RC!handleConnection, RC!dispatch, RC!goconn, RC!callVars
<1>8. ASSUME NEW c \in ClientCall, RC!handle(c)
      PROVE  Calls'
    BY <1>8 DEF RC!handle, RC!get, RC!prepare, RC!abort, RC!commit, RC!sendResponse, RC!goconn,
                RC!callVars
<1>9. ASSUME NEW c \in ClientCall, RC!receive(c)
      PROVE  Calls'
  <2>1. PICK there \in {"panicked", "ok", "error"} : RC!end(c, there)
      BY <1>9 DEF RC!receive, RC!handleRangeserverErr
  <2>. QED  BY <1>9, <2>1 DEF RC!receive, RC!end, RC!goto, RC!goconn
<1>. QED
    BY <1>1, <1>2, <1>3, <1>4, <1>5, <1>6, <1>7, <1>8, <1>9 DEF RC!Next, RC!callStep

(* Rows come from creations and stay as they are.                          *)
LEMMA NextDirectory ==
    ASSUME Directory, RC!Next
    PROVE  /\ Directory'
           /\ \A ks \in DOMAIN keyspaces :
                 ks \in DOMAIN keyspaces' /\ keyspaces'[ks] = keyspaces[ks]
<1>1. CASE UNCHANGED RC!universeVars
    BY <1>1 DEF Directory, RC!universeVars
<1>2. ASSUME NEW r \in Creation, NEW acked \in BOOLEAN, RC!createKeyspace(r, acked)
      PROVE  /\ Directory'
             /\ \A ks \in DOMAIN keyspaces :
                   ks \in DOMAIN keyspaces' /\ keyspaces'[ks] = keyspaces[ks]
  <2>1. /\ DOMAIN keyspaces' = DOMAIN keyspaces \cup {r.keyspace}
        /\ keyspaces'[r.keyspace] = RC!constructFromParts(r)
        /\ r.keyspace \notin DOMAIN keyspaces
        /\ \A ks \in DOMAIN keyspaces : keyspaces'[ks] = keyspaces[ks]
      BY <1>2 DEF RC!createKeyspace, RC!insert
  <2>2. \A ks \in DOMAIN acknowledged' :
           \/ ks \in DOMAIN acknowledged /\ acknowledged'[ks] = acknowledged[ks]
           \/ ks = r.keyspace /\ acknowledged'[ks] = r
      BY <1>2 DEF RC!createKeyspace, RC!insert
  <2>. QED  BY <2>1, <2>2, SMTT(30) DEF Directory
<1>3. RC!create \/ UNCHANGED RC!universeVars
    BY DEF RC!Next, RC!callStep, RC!resolve, RC!start, RC!resolveFast, RC!resolveInfo,
           RC!resolveFetch, RC!resolveInsert, RC!resolveFind, RC!poolRead, RC!poolCreate, RC!send,
           RC!handleConnection, RC!dispatch, RC!handle, RC!receive, RC!accept, RC!listenDefault,
           RC!cancel, RC!crash, RC!Idle, RC!vars
<1>. QED  BY <1>1, <1>2, <1>3 DEF RC!create

(* The caches hold infos of keyspaces and are searched by key digits.      *)
LEMMA NextCaches ==
    ASSUME RC!ClientAssumption,
           ClientIInv, RC!Next
    PROVE  /\ InfoCache' /\ KeyCache'
           /\ DOMAIN keyspace_to_keyspace_info \subseteq DOMAIN keyspace_to_keyspace_info'
<1>. USE DEF ClientIInv
<1>1. \A ks \in DOMAIN keyspaces :
         /\ ks \in DOMAIN keyspaces' /\ keyspaces'[ks] = keyspaces[ks]
         /\ RC!getKeyspaceInfo(ks)' = RC!getKeyspaceInfo(ks)
    BY NextDirectory DEF RC!getKeyspaceInfo
<1>2. ASSUME UNCHANGED keyspace_to_keyspace_info
      PROVE  InfoCache'
    BY <1>1, <1>2 DEF InfoCache, RC!keyspaceCacheKey
<1>3. ASSUME UNCHANGED key_to_full_range_id
      PROVE  KeyCache'
    BY <1>3 DEF KeyCache
<1>4. ASSUME NEW c \in ClientCall, RC!resolveInsert(c)
      PROVE  /\ InfoCache' /\ KeyCache'
             /\ DOMAIN keyspace_to_keyspace_info \subseteq DOMAIN keyspace_to_keyspace_info'
  <2>1. KeyCache'
      BY <1>3, <1>4 DEF RC!resolveInsert
  <2>2. /\ RC!Keyspace(c) \in DOMAIN keyspaces /\ info[c] = RC!getKeyspaceInfo(RC!Keyspace(c))
      BY <1>4 DEF RC!resolveInsert, Resolving
  <2>3. /\ DOMAIN keyspace_to_keyspace_info' =
              DOMAIN keyspace_to_keyspace_info \cup {RC!keyspaceCacheKey(RC!Keyspace(c))}
        /\ \A s \in DOMAIN keyspace_to_keyspace_info' :
              keyspace_to_keyspace_info'[s] = IF s = RC!keyspaceCacheKey(RC!Keyspace(c))
                                              THEN info[c] ELSE keyspace_to_keyspace_info[s]
      BY <1>4 DEF RC!resolveInsert, RC!insert
  <2>4. InfoCache'
    <3>1. ASSUME NEW s \in DOMAIN keyspace_to_keyspace_info',
                 s # RC!keyspaceCacheKey(RC!Keyspace(c))
          PROVE  \E ks \in DOMAIN keyspaces :
                    /\ RC!keyspaceCacheKey(ks) = s
                    /\ keyspace_to_keyspace_info'[s] = RC!getKeyspaceInfo(ks)
        BY <2>3, <3>1 DEF InfoCache
    <3>2. \A s \in DOMAIN keyspace_to_keyspace_info' : \E ks \in DOMAIN keyspaces :
             /\ RC!keyspaceCacheKey(ks) = s
             /\ keyspace_to_keyspace_info'[s] = RC!getKeyspaceInfo(ks)
        BY <2>2, <2>3, <3>1
    <3>. QED  BY <1>1, <3>2 DEF InfoCache, RC!keyspaceCacheKey
  <2>. QED  BY <2>1, <2>3, <2>4
<1>5. ASSUME NEW c \in ClientCall, RC!resolveFind(c)
      PROVE  KeyCache' /\ UNCHANGED keyspace_to_keyspace_info
  <2>1. request[c] \in Requests
      BY <1>5 DEF RC!resolveFind, Calls
  <2>2. RC!AskedKey(c) \in Key
      BY <2>1 DEF RC!ClientAssumption, RC!AskedKey
  <2>3. \A s \in DOMAIN key_to_full_range_id' :
           s \in DOMAIN key_to_full_range_id \/ s = Hex[RC!AskedKey(c)]
      BY <1>5 DEF RC!resolveFind, RC!insert
  <2>. QED  BY <1>5, <2>2, <2>3 DEF KeyCache, RC!resolveFind
<1>6. \/ UNCHANGED RC!oracleVars
      \/ \E c \in ClientCall : RC!resolveInsert(c) \/ RC!resolveFind(c)
    BY DEF RC!Next, RC!callStep, RC!resolve, RC!create, RC!start, RC!resolveFast, RC!resolveInfo,
           RC!resolveFetch, RC!poolRead, RC!poolCreate, RC!send, RC!handleConnection, RC!dispatch,
           RC!handle, RC!receive, RC!accept, RC!listenDefault, RC!cancel, RC!crash, RC!Idle,
           RC!vars
<1>7. CASE UNCHANGED RC!oracleVars
    BY <1>2, <1>3, <1>7 DEF RC!oracleVars
<1>. QED  BY <1>2, <1>4, <1>5, <1>6, <1>7

(* Nothing that a call may rely on is taken back.                          *)
LEMMA NextGrows ==
    ASSUME RC!ClientAssumption,
           ClientIInv, RC!Next
    PROVE  Grows
<1>1. range_clients # None => range_clients' = range_clients
    BY DEF RC!Next, RC!callStep, RC!resolve, RC!create, RC!start, RC!resolveFast, RC!resolveInfo,
           RC!resolveFetch, RC!resolveInsert, RC!resolveFind, RC!poolRead, RC!poolCreate, RC!send,
           RC!handleConnection, RC!dispatch, RC!handle, RC!receive, RC!accept, RC!listenDefault,
           RC!cancel, RC!crash, RC!Idle, RC!vars
<1>. QED  BY <1>1, NextDirectory, NextCaches DEF Grows, ClientIInv

(* The call that takes a step in the oracle                                *)
LEMMA ResolveStep ==
    ASSUME ClientIInv, NEW c \in ClientCall, RC!resolve(c), Grows
    PROVE  (Resolving(c) /\ Answering(c) /\ Pooled(c))'
<1>. USE DEF ClientIInv, Calls
<1>1. Resolving(c) /\ Answering(c) /\ Pooled(c)
    OBVIOUS
<1>2. pc[c] # "waiting" /\ conn[c] = "none" /\ answer[c] = None
    BY <1>1 DEF RC!resolve, RC!resolveFast, RC!resolveInfo, RC!resolveFetch, RC!resolveInsert,
                RC!resolveFind, Answering
<1>3. conn' = conn /\ answer' = answer
    BY DEF RC!resolve, RC!resolveFast, RC!resolveInfo, RC!resolveFetch, RC!resolveInsert,
           RC!resolveFind, RC!serverVars
<1>4. Answering(c)'
    BY <1>2, <1>3 DEF Answering
<1>5. range_clients' = range_clients /\ (client'[c] = client[c] \/ client'[c] = None)
    BY DEF RC!resolve, RC!resolveFast, RC!resolveInfo, RC!resolveFetch, RC!resolveInsert,
           RC!resolveFind, RC!end
<1>6. Pooled(c)'
    BY <1>1, <1>5 DEF Pooled
<1>7. request[c] \in Requests
    BY DEF RC!resolve, RC!resolveFast, RC!resolveInfo, RC!resolveFetch, RC!resolveInsert,
           RC!resolveFind
<1>8. Resolving(c)'
  <2>1. CASE RC!resolveFast(c)
    <3>1. CASE RC!keyCacheKey(RC!Keyspace(c), RC!AskedKey(c)) \in DOMAIN key_to_full_range_id
      <4>1. RC!Clash(c)
          BY <3>1 DEF KeyCache, RC!Clash
      <4>2. request'[c] = request[c] /\ pc'[c] = "pool"
          BY <2>1, <3>1 DEF RC!resolveFast, RC!goto
      <4>. QED  BY <4>1, <4>2, ClashStays DEF Resolving, HasRange, Routed
    <3>2. CASE RC!keyCacheKey(RC!Keyspace(c), RC!AskedKey(c)) \notin DOMAIN key_to_full_range_id
      <4>1. pc'[c] = "info" /\ range'[c] = None
          BY <1>1, <2>1, <3>2 DEF RC!resolveFast, RC!goto, Resolving, HasRange
      <4>. QED  BY <4>1 DEF Resolving, HasRange
    <3>. QED  BY <3>1, <3>2
  <2>2. CASE RC!resolveInfo(c)
    <3>1. /\ range'[c] = None /\ request'[c] = request[c]
          /\ keyspace_to_keyspace_info' = keyspace_to_keyspace_info
          /\ \/ pc'[c] = "fetch"
             \/ /\ pc'[c] = "find"
                /\ RC!keyspaceCacheKey(RC!Keyspace(c)) \in DOMAIN keyspace_to_keyspace_info
        BY <1>1, <2>2 DEF RC!resolveInfo, RC!goto, Resolving, HasRange, RC!oracleVars
    <3>. QED  BY <3>1 DEF Resolving, HasRange, RC!Keyspace, RC!keyspaceCacheKey
  <2>3. CASE RC!resolveFetch(c)
    <3>1. range'[c] = None /\ keyspaces' = keyspaces
        BY <1>1, <2>3 DEF RC!resolveFetch, RC!end, Resolving, HasRange, RC!universeVars
    <3>2. \/ pc'[c] = "panicked"
          \/ /\ pc'[c] = "insert" /\ request'[c] = request[c]
             /\ RC!Keyspace(c) \in DOMAIN keyspaces /\ info'[c] = RC!getKeyspaceInfo(RC!Keyspace(c))
        BY <2>3 DEF RC!resolveFetch, RC!goto, RC!end
    <3>. QED  BY <3>1, <3>2 DEF Resolving, HasRange, RC!Keyspace, RC!getKeyspaceInfo
  <2>4. CASE RC!resolveInsert(c)
    <3>1. /\ range'[c] = None /\ pc'[c] = "find" /\ request'[c] = request[c]
          /\ RC!keyspaceCacheKey(RC!Keyspace(c)) \in DOMAIN keyspace_to_keyspace_info'
        BY <1>1, <2>4 DEF RC!resolveInsert, RC!goto, Resolving, HasRange, RC!insert
    <3>. QED  BY <3>1 DEF Resolving, HasRange, RC!Keyspace, RC!keyspaceCacheKey
  <2>5. CASE RC!resolveFind(c)
    <3>. DEFINE ks == RC!Keyspace(c)
                row == keyspace_to_keyspace_info[RC!keyspaceCacheKey(ks)]
    <3>1. CASE RC!find(row, RC!AskedKey(c)) = None
      <4>1. pc'[c] = "noRange" /\ range'[c] = None
          BY <2>5, <3>1 DEF RC!resolveFind, RC!end, RC!goto
      <4>. QED  BY <4>1 DEF Resolving, HasRange
    <3>2. CASE RC!find(row, RC!AskedKey(c)) # None
      <4>1. /\ pc'[c] = "pool" /\ request'[c] = request[c] /\ keyspaces' = keyspaces
            /\ range'[c] = RC!find(row, RC!AskedKey(c))
          BY <2>5, <3>2 DEF RC!resolveFind, RC!goto, RC!universeVars
      <4>2. PICK other \in DOMAIN keyspaces : RC!keyspaceCacheKey(other) = RC!keyspaceCacheKey(ks)
                                            /\ row = RC!getKeyspaceInfo(other)
          BY <1>1, <2>5 DEF RC!resolveFind, Resolving, InfoCache
      <4>3. CASE other # ks
        <5>1. RC!Clash(c)
            BY <4>2, <4>3 DEF RC!Clash
        <5>. QED  BY <4>1, <5>1, ClashStays DEF Resolving, HasRange, Routed
      <4>4. CASE other = ks
        <5>1. PICK r \in Creation : keyspaces[ks] = RC!constructFromParts(r)
            BY <4>2, <4>4 DEF Directory
        <5>2. /\ row = RC!intoKeyspaceInfo(RC!constructFromParts(r))
              /\ ks \in DOMAIN keyspaces
            BY <4>2, <4>4, <5>1 DEF RC!getKeyspaceInfo
        <5>3. /\ RC!hits(row, RC!AskedKey(c)) = RC!hits(keyspaces[ks], RC!AskedKey(c))
              /\ RC!find(row, RC!AskedKey(c)) = RC!find(keyspaces[ks], RC!AskedKey(c))
            BY <5>1, <5>2, SameSearch
        <5>4. RC!hits(row, RC!AskedKey(c)) # {}
            BY <3>2 DEF RC!find
        <5>5. RC!Keyspace(c)' = ks /\ RC!AskedKey(c)' = RC!AskedKey(c)
            BY <4>1 DEF RC!Keyspace, RC!AskedKey
        <5>6. Routed(c)'
            BY <4>1, <5>2, <5>3, <5>4, <5>5, ZenonT(60) DEF Routed, RC!hits, RC!find
        <5>. QED  BY <4>1, <5>6 DEF Resolving, HasRange
      <4>. QED  BY <4>3, <4>4
    <3>. QED  BY <3>1, <3>2
  <2>. QED  BY <2>1, <2>2, <2>3, <2>4, <2>5 DEF RC!resolve
<1>. QED  BY <1>4, <1>6, <1>8

(* A range that was found for a key accepts the key.                       *)
LEMMA RoutedIsInRange ==
    ASSUME NEW c \in ClientCall, Routed(c), ~RC!Clash(c), Directory
    PROVE  ~RC!OutOfRange(RC!getRequest(c)) /\ ~RC!OutOfRange(RC!prepareRequest(c))
<1>. DEFINE ks == RC!Keyspace(c)
            k == RC!AskedKey(c)
<1>1. PICK i \in RC!hits(keyspaces[ks], k) : range[c] = RC!FullRangeId(keyspaces[ks], i)
    BY FindHits DEF Routed
<1>2. PICK r \in Creation : r.keyspace = ks /\ keyspaces[ks] = RC!constructFromParts(r)
    BY DEF Routed, Directory
<1>3. keyspaces[ks].keyspace_id = ks
    BY <1>2, SMTT(30) DEF RC!constructFromParts
<1>4. range[c].keyspace_id = ks /\ range[c].range_id = i
    BY <1>1, <1>3, SMTT(30) DEF RC!FullRangeId
<1>5. RC!includes(RC!fromEmptyAsUnbounded(keyspaces[ks].base_key_ranges[i]), k)
    BY <1>1, WardenAccepts DEF RC!hits
<1>6. /\ RC!getRequest(c).keys = {k} /\ RC!getRequest(c).range_id = range[c]
      /\ RC!prepareRequest(c).keys = {k} /\ RC!prepareRequest(c).range_id = range[c]
    BY DEF RC!getRequest, RC!prepareRequest
<1>. QED  BY <1>4, <1>5, <1>6 DEF RC!OutOfRange

(* A handler answers KeyIsOutOfRange only to a get or a prepare whose key  *)
(* is out of the range.                                                    *)
LEMMA Answer ==
    ASSUME NEW c \in ClientCall, Calls, RC!handle(c)
    PROVE  answer'[c].status = "KeyIsOutOfRange" =>
              RC!OutOfRange(RC!getRequest(c)) \/ RC!OutOfRange(RC!prepareRequest(c))
<1>1. \A e : RC!toFlatbufStatus(e) = "KeyIsOutOfRange" => e = "KeyIsOutOfRange"
    BY DEF RC!toFlatbufStatus
<1>2. ASSUME NEW m, NEW type, NEW e \in RC!Outcomes(m), RC!sendResponse(c, type, e)
      PROVE  answer'[c].status = "KeyIsOutOfRange" => RC!OutOfRange(m)
  <2>1. answer'[c].status = RC!toFlatbufStatus(e)
      BY <1>2 DEF RC!sendResponse, Calls
  <2>2. e = "KeyIsOutOfRange" => RC!OutOfRange(m)
      BY <1>2 DEF RC!Outcomes, RC!OtherErrors
  <2>. QED  BY <1>1, <2>1, <2>2
<1>3. ~RC!OutOfRange(RC!abortRequest(c)) /\ ~RC!OutOfRange(RC!commitRequest(c))
  <2>1. RC!abortRequest(c).keys = {} /\ RC!commitRequest(c).keys = {}
      BY DEF RC!abortRequest, RC!commitRequest
  <2>. QED  BY <2>1 DEF RC!OutOfRange
<1>4. CASE RC!get(c, RC!getRequest(c))
    BY <1>2, <1>4 DEF RC!get
<1>5. CASE RC!prepare(c, RC!prepareRequest(c))
    BY <1>2, <1>5 DEF RC!prepare
<1>6. CASE RC!abort(c, RC!abortRequest(c))
    BY <1>2, <1>3, <1>6 DEF RC!abort
<1>7. CASE RC!commit(c, RC!commitRequest(c))
    BY <1>2, <1>3, <1>7 DEF RC!commit
<1>. QED  BY <1>4, <1>5, <1>6, <1>7 DEF RC!handle

(* The call that takes a step outside the oracle                           *)
LEMMA SendStep ==
    ASSUME ClientIInv, NEW c \in ClientCall, Grows,
           \/ \E r \in Requests : RC!start(c, r)
           \/ RC!poolRead(c) \/ RC!poolCreate(c) \/ RC!send(c) \/ RC!receive(c)
    PROVE  (Resolving(c) /\ Answering(c) /\ Pooled(c))'
<1>. USE DEF ClientIInv, Calls
<1>1. Resolving(c) /\ Answering(c) /\ Pooled(c)
    OBVIOUS
<1>2. ASSUME NEW r \in Requests, RC!start(c, r)
      PROVE  (Resolving(c) /\ Answering(c) /\ Pooled(c))'
  <2>1. /\ pc[c] = "idle" /\ pc'[c] = "fast" /\ range'[c] = range[c] /\ client'[c] = client[c]
        /\ conn'[c] = conn[c] /\ answer'[c] = answer[c] /\ range_clients' = range_clients
      BY <1>2 DEF RC!start, RC!goto, RC!serverVars
  <2>. QED  BY <1>1, <2>1 DEF Resolving, Answering, Pooled, HasRange
<1>3. ASSUME HasRange(c), HasRange(c)', request'[c] = request[c], range'[c] = range[c]
      PROVE  Resolving(c)'
  <2>1. Routed(c)'
    <3>1. Routed(c)
        BY <1>1, <1>3 DEF Resolving
    <3>2. RC!Keyspace(c)' = RC!Keyspace(c) /\ RC!AskedKey(c)' = RC!AskedKey(c)
        BY <1>3 DEF RC!Keyspace, RC!AskedKey
    <3>3. RC!Clash(c) => RC!Clash(c)'
        BY <1>3, ClashStays
    <3>. QED  BY <1>3, <3>1, <3>2, <3>3 DEF Routed, Grows, RC!hits, RC!find
  <2>. QED  BY <1>3, <2>1 DEF Resolving, HasRange
<1>4. CASE RC!poolRead(c) \/ RC!poolCreate(c)
  <2>1. /\ pc[c] \in {"pool", "create"} /\ pc'[c] \in {"create", "send"}
        /\ request'[c] = request[c] /\ range'[c] = range[c]
        /\ conn'[c] = conn[c] /\ answer'[c] = answer[c]
        /\ client'[c] \in {client[c], range_clients'}
      BY <1>4 DEF RC!poolRead, RC!poolCreate, RC!use, RC!goto, RC!serverVars
  <2>2. Resolving(c)'
      BY <1>3, <2>1 DEF HasRange
  <2>3. Answering(c)'
      BY <1>1, <2>1 DEF Answering
  <2>4. Pooled(c)'
      BY <1>1, <2>1 DEF Pooled, Grows
  <2>. QED  BY <2>2, <2>3, <2>4
<1>5. ASSUME NEW there \in {"panicked", "ok", "error"}, RC!end(c, there),
             conn'[c] = "none", answer'[c] = None
      PROVE  (Resolving(c) /\ Answering(c) /\ Pooled(c))'
  <2>1. pc'[c] = there /\ range'[c] = None /\ client'[c] = None
      BY <1>5 DEF RC!end, RC!goto
  <2>. QED  BY <1>5, <2>1 DEF Resolving, Answering, Pooled, HasRange
<1>6. CASE RC!send(c)
  <2>1. conn[c] = "none" /\ answer[c] = None /\ answer' = answer
      BY <1>1, <1>6 DEF RC!send, Answering
  <2>2. CASE phase = "down"
      BY <1>5, <1>6, <2>1, <2>2 DEF RC!send
  <2>3. CASE phase # "down"
    <3>1. /\ pc[c] = "send" /\ pc'[c] = "waiting" /\ request'[c] = request[c]
          /\ range'[c] = range[c] /\ client'[c] = client[c] /\ range_clients' = range_clients
        BY <1>6, <2>3 DEF RC!send, RC!goto
    <3>2. Resolving(c)'
        BY <1>3, <3>1 DEF HasRange
    <3>3. Answering(c)' /\ Pooled(c)'
        BY <1>1, <2>1, <3>1 DEF Answering, Pooled
    <3>. QED  BY <3>2, <3>3
  <2>. QED  BY <2>2, <2>3
<1>7. CASE RC!receive(c)
  <2>1. PICK there \in {"panicked", "ok", "error"} : RC!end(c, there)
      BY <1>7 DEF RC!receive, RC!handleRangeserverErr
  <2>2. conn'[c] = "none" /\ answer'[c] = None
      BY <1>7 DEF RC!receive, RC!goconn
  <2>. QED  BY <1>5, <2>1, <2>2
<1>. QED  BY <1>2, <1>4, <1>6, <1>7

(* The server's part of a call                                             *)
LEMMA ServeStep ==
    ASSUME RC!ClientAssumption,
           ClientIInv, NEW c \in ClientCall, Grows, RC!handleConnection(c) \/ RC!dispatch(c) \/ RC!handle(c)
    PROVE  (Resolving(c) /\ Answering(c) /\ Pooled(c))'
<1>. USE DEF ClientIInv
<1>1. Resolving(c) /\ Answering(c) /\ Pooled(c)
    OBVIOUS
<1>2. conn[c] # "none" /\ pc[c] = "waiting"
    BY <1>1 DEF RC!handleConnection, RC!dispatch, RC!handle, Answering
<1>3. CASE RC!handleConnection(c) \/ RC!dispatch(c)
  <2>1. Same(c)
      BY <1>2, <1>3 DEF RC!handleConnection, RC!dispatch, RC!callVars, Same
  <2>. QED  BY <1>1, <2>1, OtherCalls
<1>4. CASE RC!handle(c)
  <2>1. UNCHANGED <<RC!universeVars, RC!oracleVars, range_clients, RC!callVars>>
      BY <1>4 DEF RC!handle
  <2>2. Resolving(c)' /\ Pooled(c)'
    <3>1. /\ RC!Keyspace(c)' = RC!Keyspace(c) /\ RC!AskedKey(c)' = RC!AskedKey(c)
          /\ RC!Clash(c)' = RC!Clash(c)
        BY <2>1 DEF RC!Keyspace, RC!AskedKey, RC!Clash, RC!keyspaceCacheKey, RC!keyCacheKey,
                    RC!callVars, RC!universeVars
    <3>2. Routed(c) => Routed(c)'
        BY <2>1, <3>1 DEF Routed, RC!hits, RC!find, RC!callVars, RC!universeVars
    <3>3. pc'[c] = "waiting" /\ Routed(c)
        BY <1>1, <1>2, <2>1 DEF RC!callVars, Resolving, HasRange
    <3>. QED  BY <1>1, <2>1, <3>2, <3>3 DEF Resolving, HasRange, Pooled, RC!callVars
  <2>3. answer'[c].status = "KeyIsOutOfRange" => RC!Clash(c)
    <3>1. Routed(c)
        BY <1>1, <1>2 DEF Resolving, HasRange
    <3>. QED  BY <1>4, <3>1, Answer, RoutedIsInRange
  <2>4. RC!Clash(c) => RC!Clash(c)'
      BY <2>1, ClashStays DEF RC!callVars
  <2>. QED  BY <1>2, <2>1, <2>2, <2>3, <2>4 DEF Answering, RC!callVars
<1>. QED  BY <1>3, <1>4

(* A step of one call leaves the others alone.                             *)
LEMMA OtherCallsStay ==
    ASSUME Calls, NEW c \in ClientCall, NEW d \in ClientCall, d # c,
           (\E r \in Requests : RC!start(c, r)) \/ RC!callStep(c)
    PROVE  Same(d)
<1>. USE DEF Calls, Same
<1>1. CASE \E r \in Requests : RC!start(c, r)
    BY <1>1 DEF RC!start, RC!goto, RC!serverVars
<1>2. CASE RC!resolveFast(c) \/ RC!resolveInfo(c) \/ RC!resolveInsert(c)
    BY <1>2 DEF RC!resolveFast, RC!resolveInfo, RC!resolveInsert, RC!goto, RC!serverVars
<1>3. CASE RC!resolveFetch(c)
    BY <1>3 DEF RC!resolveFetch, RC!goto, RC!end, RC!serverVars
<1>4. CASE RC!resolveFind(c)
    BY <1>4 DEF RC!resolveFind, RC!goto, RC!end, RC!serverVars
<1>5. CASE RC!poolRead(c)
    BY <1>5 DEF RC!poolRead, RC!use, RC!goto, RC!serverVars
<1>6. CASE RC!poolCreate(c)
    BY <1>6 DEF RC!poolCreate, RC!use, RC!goto, RC!serverVars
<1>7. CASE RC!send(c)
    BY <1>7 DEF RC!send, RC!goto, RC!goconn, RC!end, RC!serverVars
<1>8. CASE RC!receive(c)
    BY <1>8 DEF RC!receive, RC!goto, RC!goconn, RC!end, RC!serverVars
<1>9. CASE RC!handleConnection(c) \/ RC!dispatch(c)
    BY <1>9 DEF RC!handleConnection, RC!dispatch, RC!goconn, RC!callVars
<1>10. CASE RC!handle(c)
    BY <1>10 DEF RC!handle, RC!get, RC!prepare, RC!abort, RC!commit, RC!sendResponse, RC!goconn,
                 RC!callVars
<1>. QED  BY <1>1, <1>2, <1>3, <1>4, <1>5, <1>6, <1>7, <1>8, <1>9, <1>10 DEF RC!callStep, RC!resolve

(* A step of the range client keeps its invariant.                         *)
THEOREM ClientNextIInv ==
    ASSUME RC!ClientAssumption
    PROVE  ClientIInv /\ [RC!Next]_RC!vars => ClientIInv'
<1>. SUFFICES ASSUME ClientIInv, [RC!Next]_RC!vars
              PROVE  ClientIInv'
    OBVIOUS
<1>1. CASE UNCHANGED RC!vars
  <2>1. \A d \in ClientCall : Same(d)
      BY <1>1 DEF RC!vars, RC!callVars, RC!serverVars, Same
  <2>2. Grows
      BY <1>1 DEF RC!vars, RC!universeVars, RC!oracleVars, Grows
  <2>3. \A d \in ClientCall : (Resolving(d) /\ Answering(d) /\ Pooled(d))'
      BY <2>1, <2>2, OtherCalls DEF ClientIInv
  <2>4. (Calls /\ Directory /\ InfoCache /\ KeyCache)'
      BY <1>1 DEF ClientIInv, RC!vars, RC!callVars, RC!serverVars, RC!universeVars, RC!oracleVars,
                  Calls, HasRange, Directory, InfoCache, KeyCache, RC!getKeyspaceInfo
  <2>. QED  BY <2>3, <2>4 DEF ClientIInv
<1>2. CASE RC!Next
  <2>1. Grows
      BY <1>2, NextGrows
  <2>2. (Calls /\ Directory /\ InfoCache /\ KeyCache)'
      BY <1>2, NextCalls, NextDirectory, NextCaches DEF ClientIInv
  <2>3. ASSUME NEW c \in ClientCall, NEW d \in ClientCall, d # c,
               (\E r \in Requests : RC!start(c, r)) \/ RC!callStep(c)
        PROVE  Same(d)
      BY <2>3, OtherCallsStay DEF ClientIInv
  <2>4. ASSUME NEW c \in ClientCall, (\E r \in Requests : RC!start(c, r)) \/ RC!callStep(c)
        PROVE  (Resolving(c) /\ Answering(c) /\ Pooled(c))'
      BY <2>1, <2>4, ResolveStep, SendStep, ServeStep DEF RC!callStep
  <2>5. CASE RC!create \/ RC!accept \/ RC!listenDefault \/ RC!cancel \/ RC!crash \/ RC!Idle
    <3>1. ASSUME NEW d \in ClientCall
          PROVE  Same(d)
        BY <2>5 DEF RC!create, RC!accept, RC!listenDefault, RC!cancel, RC!crash, RC!Idle, RC!vars,
                    RC!serverVars, RC!callVars, Same
    <3>. QED  BY <2>1, <2>2, <3>1, OtherCalls DEF ClientIInv
  <2>6. ASSUME NEW c \in ClientCall, (\E r \in Requests : RC!start(c, r)) \/ RC!callStep(c)
        PROVE  \A d \in ClientCall : (Resolving(d) /\ Answering(d) /\ Pooled(d))'
    <3>1. ASSUME NEW d \in ClientCall, d # c
          PROVE  (Resolving(d) /\ Answering(d) /\ Pooled(d))'
        BY <2>1, <2>3, <2>6, <3>1, OtherCalls DEF ClientIInv
    <3>. QED  BY <2>4, <2>6, <3>1
  <2>. QED  BY <1>2, <2>2, <2>5, <2>6 DEF RC!Next, ClientIInv
<1>. QED  BY <1>1, <1>2

(* The invariant holds in every reachable state.                           *)
THEOREM ClientInvariance ==
    ASSUME RC!ClientAssumption
    PROVE  RC!Spec => []ClientIInv
BY ClientInitIInv, ClientNextIInv, PTL DEF RC!Spec

---------------------------------------------------------------------------

(* Whatever other keyspaces, creations, calls and crashes there are, a     *)
(* request whose cache strings do not clash is sent to the first range     *)
(* that its keyspace's creator laid out around the key.                    *)
THEOREM RoutedAsCreatedHolds ==
    ASSUME RC!ClientAssumption
    PROVE  RC!Spec => []RC!RoutedAsCreated
<1>1. ClientIInv => RC!RoutedAsCreated
  <2>. SUFFICES ASSUME ClientIInv, NEW c \in ClientCall, range[c] # None, ~RC!Clash(c),
                       RC!Keyspace(c) \in DOMAIN acknowledged
                PROVE  range[c] = RC!find(RC!constructFromParts(acknowledged[RC!Keyspace(c)]), RC!AskedKey(c))
      BY DEF RC!RoutedAsCreated
  <2>1. Routed(c)
      BY DEF ClientIInv, Resolving
  <2>2. keyspaces[RC!Keyspace(c)] = RC!constructFromParts(acknowledged[RC!Keyspace(c)])
      BY DEF ClientIInv, Directory
  <2>. QED  BY <2>1, <2>2 DEF Routed
<1>. QED  BY <1>1, ClientInvariance, PTL

(* The range a get or a prepare is sent to accepts its key.                *)
THEOREM NeverOutOfRangeHolds ==
    ASSUME RC!ClientAssumption
    PROVE  RC!Spec => []RC!NeverOutOfRange
<1>1. ClientIInv => RC!NeverOutOfRange
    BY DEF ClientIInv, Answering, RC!NeverOutOfRange
<1>. QED  BY <1>1, ClientInvariance, PTL

(* The pool never holds a second client, so all calls share one.           *)
THEOREM OneClientHolds ==
    ASSUME RC!ClientAssumption
    PROVE  RC!Spec => []RC!OneClient
<1>1. ClientIInv => RC!OneClient
    BY DEF ClientIInv, Pooled, RC!OneClient
<1>. QED  BY <1>1, ClientInvariance, PTL

(* A region's cloud survives being written to a row and read back, so the  *)
(* keyspace is listed for its region.                                      *)
THEOREM ListedInItsRegionHolds ==
    ASSUME RC!ClientAssumption, RC!CloudAssumption
    PROVE  RC!Spec => []RC!ListedInItsRegion
<1>1. ASSUME NEW r \in Creation, r.cloud \notin {RC!Other(name) : name \in PublicCloud}
      PROVE  RC!intoKeyspaceInfo(RC!constructFromParts(r)).cloud = r.cloud
  <2>1. RC!intoKeyspaceInfo(RC!constructFromParts(r)).cloud = RC!cloudFromRow(RC!cloudToRow(r.cloud))
      BY DEF RC!intoKeyspaceInfo, RC!constructFromParts
  <2>2. CASE r.cloud = None
      BY <2>1, <2>2 DEF RC!cloudFromRow, RC!cloudToRow
  <2>3. CASE r.cloud # None
    <3>1. r.cloud.name # None /\ RC!cloudToRow(r.cloud) = r.cloud.name
        BY <2>3 DEF RC!CloudAssumption, RC!cloudToRow
    <3>2. r.cloud = RC!Other(r.cloud.name) => r.cloud.name \notin PublicCloud
        BY <1>1
    <3>3. \/ r.cloud.name \in PublicCloud /\ r.cloud = RC!Public(r.cloud.name)
          \/ r.cloud.name \notin PublicCloud /\ r.cloud = RC!Other(r.cloud.name)
        BY <2>3, <3>2 DEF RC!CloudAssumption
    <3>. QED  BY <2>1, <3>1, <3>3 DEF RC!cloudFromRow
  <2>. QED  BY <2>2, <2>3
<1>2. ClientIInv => RC!ListedInItsRegion
  <2>. SUFFICES ASSUME ClientIInv, NEW ks \in DOMAIN acknowledged,
                       acknowledged[ks].cloud \notin {RC!Other(name) : name \in PublicCloud}
                PROVE  ks \in RC!listKeyspaces(acknowledged[ks].cloud)
      BY DEF RC!ListedInItsRegion
  <2>1. /\ acknowledged[ks] \in Creation /\ ks \in DOMAIN keyspaces
        /\ keyspaces[ks] = RC!constructFromParts(acknowledged[ks])
      BY DEF ClientIInv, Directory
  <2>2. RC!getKeyspaceInfo(ks).cloud = acknowledged[ks].cloud
      BY <1>1, <2>1 DEF RC!getKeyspaceInfo
  <2>. QED  BY <2>1, <2>2 DEF RC!listKeyspaces
<1>. QED  BY <1>2, ClientInvariance, PTL
=============================================================================
