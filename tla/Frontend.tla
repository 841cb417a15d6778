------------------------------ MODULE Frontend ------------------------------
(***************************************************************************)
(* The frontend (frontend/src/frontend.rs): the handlers of client         *)
(* requests, the table of transactions they share, and the coordinator's   *)
(* Transaction object behind its mutex (coordinator/src/transaction.rs).   *)
(* Handlers of one transaction may run at the same time: a client may      *)
(* retry a commit, or abort while a commit runs.  CommitProtocol has what  *)
(* the Transaction object does with ranges; here its calls have an outcome *)
(* only.  There is one keyspace.                                           *)
(*                                                                         *)
(* A step is the code between two awaits that another handler can observe. *)
(* A handler may end at any of them: its future is dropped when the client *)
(* goes away, and an unwrap of a failed call panics.  Its mutex is freed,  *)
(* and nothing else is undone.                                             *)
(***************************************************************************)
EXTENDS Naturals, Sequences, FiniteSets, Functions, TLC, TxStateStore

CONSTANTS Transaction, Key, None,
          Rpcs,           \* requests that clients make
          MaxRequests,    \* bound on the number of requests
          MaxDrops,       \* bound on the handlers that end early
          MAX_SAMPLES

Request == 1..MaxRequests    \* numbered as they arrive

ASSUME FrontendAssumption ==
    /\ IsFiniteSet(Transaction) /\ IsFiniteSet(Key)
    /\ MaxRequests \in Nat
    /\ Rpcs \subseteq {"start", "get", "put", "delete", "abort", "commit", "read_modify_write"}
    /\ None \notin Transaction /\ None \notin Request /\ None \notin Rpcs
    /\ None \notin {"Running", "Preparing", "Aborted", "Committed", "ok", "err", "panic"}

VARIABLES
    \* shared by the handlers
    transaction_table, num_open_clients, history,
    \* Transaction objects
    mutex,                  \* the handler that holds it, or None
    state, writeset, deleteset,
    prepared,               \* what was sent to the ranges to prepare, or None
    \* transaction state store, resolver
    status, resolving,
    \* handlers
    pc, rpc, calls, tx, answer,
    known,                  \* transactions whose id a client was told
    dropped                 \* handlers that ended early

serverVars == <<transaction_table, num_open_clients, history>>
bufferVars == <<writeset, deleteset, prepared>>
handlerVars == <<pc, calls, answer>>
fixedVars == <<rpc, dropped>>
vars == <<serverVars, mutex, state, bufferVars, status, resolving, handlerVars, tx, known,
          fixedVars>>

Init ==
    /\ transaction_table = {}
    /\ num_open_clients = 0
    /\ history = << >>
    /\ mutex = [t \in Transaction |-> None]
    /\ state = [t \in Transaction |-> None]
    /\ writeset = [t \in Transaction |-> << >>]
    /\ deleteset = [t \in Transaction |-> {}]
    /\ prepared = [t \in Transaction |-> None]
    /\ status = [t \in Transaction |-> "absent"]
    /\ resolving = {}
    /\ pc = [r \in Request |-> "idle"]
    /\ rpc = [r \in Request |-> None]
    /\ calls = [r \in Request |-> << >>]
    /\ tx = [r \in Request |-> None]
    /\ answer = [r \in Request |-> None]
    /\ known = {}
    /\ dropped = {}

---------------------------------------------------------------------------
(* Requests.  A read-modify-write makes the calls of a whole transaction   *)
(* and stops at the first error.                                           *)

Call(op, k) == [op |-> op, key |-> k]

read_modify_write(keys) ==
    <<Call("start", None)>> \o [i \in 1..Len(keys) |-> Call("get", keys[i])]
                            \o [i \in 1..Len(keys) |-> Call("put", keys[i])]
                            \o <<Call("commit", None)>>

(* Which order the client lists the keys in makes no difference.           *)
KeyList == CHOOSE keys \in Bijection(1..Cardinality(Key), Key) : TRUE

CallsOf(name, k) ==
    CASE name = "read_modify_write"           -> read_modify_write(KeyList)
      [] name \in {"get", "put", "delete"}     -> <<Call(name, k)>>
      [] name \in {"start", "abort", "commit"} -> <<Call(name, None)>>

Starts(name) == name \in {"start", "read_modify_write"}

(* Ids are random, and which one is drawn makes no difference.             *)
Fresh == Transaction \ Range(tx)

arrive(r) ==
    /\ pc[r] = "idle" /\ \A q \in 1..(r - 1) : pc[q] # "idle"
    /\ \E name \in Rpcs, k \in Key :
          /\ rpc' = [rpc EXCEPT ![r] = name]
          /\ calls' = [calls EXCEPT ![r] = CallsOf(name, k)]
          /\ IF Starts(name)
             THEN /\ Fresh # {} /\ tx' = [tx EXCEPT ![r] = CHOOSE t \in Fresh : TRUE]
                  /\ pc' = [pc EXCEPT ![r] = "start"]
             ELSE /\ \E t \in known : tx' = [tx EXCEPT ![r] = t]
                  /\ pc' = [pc EXCEPT ![r] = "lookup"]
    /\ UNCHANGED <<serverVars, mutex, state, bufferVars, status, resolving, answer, known,
                   dropped>>

op(r) == Head(calls[r]).op
key(r) == Head(calls[r]).key

Goes(r, there) == pc' = [pc EXCEPT ![r] = there] /\ UNCHANGED <<calls, answer>>

(* The call returns: the handler answers, or goes on to its next call.     *)
Returns(r, result) ==
    IF result = "ok" /\ Len(calls[r]) > 1
    THEN /\ pc' = [pc EXCEPT ![r] = "lookup"]
         /\ calls' = [calls EXCEPT ![r] = Tail(@)]
         /\ UNCHANGED answer
    ELSE /\ pc' = [pc EXCEPT ![r] = "done"]
         /\ answer' = [answer EXCEPT ![r] = result]
         /\ UNCHANGED calls

---------------------------------------------------------------------------
(* start_transaction *)

startRecord(r) ==
    /\ pc[r] = "start"
    /\ status' = [status EXCEPT ![tx[r]] = start_transaction(@)]
    /\ state' = [state EXCEPT ![tx[r]] = "Running"]
    /\ Goes(r, "insert")
    /\ UNCHANGED <<serverVars, mutex, bufferVars, resolving, tx, known, fixedVars>>

startInsert(r) ==
    /\ pc[r] = "insert"
    /\ transaction_table' = transaction_table \cup {tx[r]}
    /\ Goes(r, "count")
    /\ UNCHANGED <<num_open_clients, history, mutex, state, bufferVars, status, resolving,
                   tx, known, fixedVars>>

startCount(r) ==
    /\ pc[r] = "count"
    /\ num_open_clients' = num_open_clients + 1
    /\ known' = IF rpc[r] = "start" THEN known \cup {tx[r]} ELSE known
    /\ Returns(r, "ok")
    /\ UNCHANGED <<transaction_table, history, mutex, state, bufferVars, status, resolving,
                   tx, fixedVars>>

---------------------------------------------------------------------------
(* The other handlers find their transaction in the table and lock it.     *)

lookup(r) ==
    /\ pc[r] = "lookup"
    /\ IF tx[r] \in transaction_table THEN Goes(r, "lock") ELSE Returns(r, "err")
    /\ UNCHANGED <<serverVars, mutex, state, bufferVars, status, resolving, tx, known,
                   fixedVars>>

CanLock(r) == mutex[tx[r]] = None
Locks(r) == mutex' = [mutex EXCEPT ![tx[r]] = r]
Unlocks(r) == mutex' = [mutex EXCEPT ![tx[r]] = None]
Becomes(r, s) == state' = [state EXCEPT ![tx[r]] = s]

(* Faulty variant: a transaction that is preparing passes for running.     *)
notEnded(t) == state[t] \in {"Running", "Preparing"}

check_still_running(t) == state[t] = "Running"

(* The transaction is no longer running, or the request names a keyspace   *)
(* that does not exist.                                                    *)
refused(r) ==
    /\ pc[r] = "lock" /\ op(r) \in {"get", "put", "delete"} /\ CanLock(r)
    /\ Returns(r, "err")
    /\ UNCHANGED <<serverVars, mutex, state, bufferVars, status, resolving, tx, known,
                   fixedVars>>

Accessing(r, name) ==
    /\ pc[r] = "lock" /\ op(r) = name /\ CanLock(r)
    /\ check_still_running(tx[r])

Buffered(t, k) == k \in DOMAIN writeset[t] \cup deleteset[t]

(* Transaction::put and Transaction::del: a key is in one of the two sets. *)
(* A value is the request that put it.                                     *)
bufferPut(r) ==
    /\ writeset' = [writeset EXCEPT ![tx[r]] = (key(r) :> r) @@ @]
    /\ deleteset' = [deleteset EXCEPT ![tx[r]] = @ \ {key(r)}]

bufferDel(r) ==
    /\ writeset' = [writeset EXCEPT ![tx[r]] = Restrict(@, DOMAIN @ \ {key(r)})]
    /\ deleteset' = [deleteset EXCEPT ![tx[r]] = @ \cup {key(r)}]

(* Faulty variant: the check of the state is left out.                     *)
putUnchecked(r) ==
    /\ pc[r] = "lock" /\ op(r) = "put" /\ CanLock(r)
    /\ bufferPut(r)
    /\ Returns(r, "ok")
    /\ UNCHANGED <<serverVars, mutex, state, prepared, status, resolving, tx, known,
                   fixedVars>>

put(r) ==
    /\ Accessing(r, "put")
    /\ bufferPut(r)
    /\ Returns(r, "ok")
    /\ UNCHANGED <<serverVars, mutex, state, prepared, status, resolving, tx, known,
                   fixedVars>>

delete(r) ==
    /\ Accessing(r, "delete")
    /\ bufferDel(r)
    /\ Returns(r, "ok")
    /\ UNCHANGED <<serverVars, mutex, state, prepared, status, resolving, tx, known,
                   fixedVars>>

(* What the transaction has written it reads back; the range is asked for  *)
(* anything else, with the mutex held.                                     *)
get(r) ==
    /\ Accessing(r, "get")
    /\ IF Buffered(tx[r], key(r))
       THEN Returns(r, "ok") /\ UNCHANGED mutex
       ELSE Goes(r, "read") /\ Locks(r)
    /\ UNCHANGED <<serverVars, state, bufferVars, status, resolving, tx, known, fixedVars>>

getReply(r) ==
    /\ pc[r] = "read"
    /\ Unlocks(r) /\ Returns(r, "ok")
    /\ UNCHANGED <<serverVars, state, bufferVars, status, resolving, tx, known, fixedVars>>

(* The range has no leader, or another one than at an earlier get.         *)
getFromNewLeader(r) ==
    /\ pc[r] = "read"
    /\ Becomes(r, "Aborted") /\ Goes(r, "record_abort")
    /\ UNCHANGED <<serverVars, mutex, bufferVars, status, resolving, tx, known, fixedVars>>

---------------------------------------------------------------------------
(* abort *)

abort(r) ==
    /\ pc[r] = "lock" /\ op(r) = "abort" /\ CanLock(r)
    /\ \/ /\ state[tx[r]] = "Aborted"
          /\ Goes(r, "remove") /\ UNCHANGED <<mutex, state>>
       \/ /\ check_still_running(tx[r])
          /\ Becomes(r, "Aborted") /\ Locks(r) /\ Goes(r, "record_abort")
       \/ /\ state[tx[r]] # "Aborted" /\ ~check_still_running(tx[r])
          /\ Returns(r, "err") /\ UNCHANGED <<mutex, state>>
    /\ UNCHANGED <<serverVars, bufferVars, status, resolving, tx, known, fixedVars>>

(* A get or a commit that had to abort fails; an abort goes on.            *)
record_abort(r) ==
    LET outcome == abortOutcome(status[tx[r]])
    IN  /\ pc[r] = "record_abort"
        /\ status' = [status EXCEPT ![tx[r]] = abort_transaction(@)]
        /\ Unlocks(r)
        /\ CASE outcome = "TransactionIsCommitted" -> Returns(r, "panic")
             [] outcome = "TransactionIsAborted"   ->
                   IF op(r) = "abort" THEN Goes(r, "remove") ELSE Returns(r, "err")
        /\ UNCHANGED <<serverVars, state, bufferVars, resolving, tx, known, fixedVars>>

---------------------------------------------------------------------------
(* commit.  It locks the transaction once to read its keyspace and again   *)
(* to commit it.                                                           *)

(* Faulty variant: the first lock is kept.                                 *)
readKeyspaceLocked(r) ==
    /\ pc[r] = "lock" /\ op(r) = "commit" /\ CanLock(r)
    /\ Locks(r) /\ Goes(r, "sample")
    /\ UNCHANGED <<serverVars, state, bufferVars, status, resolving, tx, known, fixedVars>>

readKeyspace(r) ==
    /\ pc[r] = "lock" /\ op(r) = "commit" /\ CanLock(r)
    /\ Goes(r, "sample")
    /\ UNCHANGED <<serverVars, mutex, state, bufferVars, status, resolving, tx, known,
                   fixedVars>>

(* The commit is given the largest sample, which CommitProtocol calls its  *)
(* load.                                                                   *)
sampleClients(r) ==
    LET samples == Append(history, num_open_clients)
    IN  /\ pc[r] = "sample"
        /\ history' = IF Len(samples) > MAX_SAMPLES THEN Tail(samples) ELSE samples
        /\ Goes(r, "relock")
        /\ UNCHANGED <<transaction_table, num_open_clients, mutex, state, bufferVars, status,
                       resolving, tx, known, fixedVars>>

Buffers(t) == [puts |-> writeset[t], deletes |-> deleteset[t]]

(* Faulty variant: a commit that fails goes on as one that succeeds.       *)
commitIgnoringErrors(r) ==
    /\ pc[r] = "relock" /\ CanLock(r)
    /\ IF check_still_running(tx[r])
       THEN /\ Becomes(r, "Preparing") /\ Locks(r) /\ Goes(r, "prepare")
            /\ prepared' = [prepared EXCEPT ![tx[r]] = Buffers(tx[r])]
       ELSE Goes(r, "remove") /\ UNCHANGED <<mutex, state, prepared>>
    /\ UNCHANGED <<serverVars, writeset, deleteset, status, resolving, tx, known, fixedVars>>

commit(r) ==
    /\ pc[r] = "relock" /\ CanLock(r)
    /\ IF check_still_running(tx[r])
       THEN /\ Becomes(r, "Preparing") /\ Locks(r) /\ Goes(r, "prepare")
            /\ prepared' = [prepared EXCEPT ![tx[r]] = Buffers(tx[r])]
       ELSE Returns(r, "err") /\ UNCHANGED <<mutex, state, prepared>>
    /\ UNCHANGED <<serverVars, writeset, deleteset, status, resolving, tx, known, fixedVars>>

(* The task of some prepare has panicked.                                  *)
prepareFails(r) ==
    /\ pc[r] = "prepare"
    /\ Becomes(r, "Aborted") /\ Goes(r, "record_abort")
    /\ UNCHANGED <<serverVars, mutex, bufferVars, status, resolving, tx, known, fixedVars>>

(* All have prepared, without dependencies or under the Traditional        *)
(* strategy.                                                               *)
decide(r) ==
    /\ pc[r] = "prepare"
    /\ status' = [status EXCEPT ![tx[r]] = commit_transaction(@)]
    /\ Becomes(r, "Committed") /\ Unlocks(r) /\ Goes(r, "remove")
    /\ UNCHANGED <<serverVars, bufferVars, resolving, tx, known, fixedVars>>

ReadOnly(t) == prepared[t].puts = << >>

(* All have prepared, with dependencies: the state stays Preparing.  The   *)
(* resolver answers at once when there is nothing to commit.               *)
resolve(r) ==
    /\ pc[r] = "prepare"
    /\ IF ReadOnly(tx[r])
       THEN Unlocks(r) /\ Goes(r, "remove") /\ UNCHANGED resolving
       ELSE Goes(r, "resolve") /\ resolving' = resolving \cup {tx[r]} /\ UNCHANGED mutex
    /\ UNCHANGED <<serverVars, state, bufferVars, status, tx, known, fixedVars>>

(* The resolver commits the transaction, whoever still waits for it.       *)
resolverCommits(t) ==
    /\ t \in resolving
    /\ status' = batch_commit_transactions(status, {t})
    /\ resolving' = resolving \ {t}
    /\ UNCHANGED <<serverVars, mutex, state, bufferVars, handlerVars, tx, known, fixedVars>>

resolved(r) ==
    /\ pc[r] = "resolve" /\ tx[r] \notin resolving
    /\ Unlocks(r) /\ Goes(r, "remove")
    /\ UNCHANGED <<serverVars, state, bufferVars, status, resolving, tx, known, fixedVars>>

---------------------------------------------------------------------------
(* The end of abort and commit.  Only a commit is counted down.            *)

remove(r) ==
    /\ pc[r] = "remove"
    /\ transaction_table' = transaction_table \ {tx[r]}
    /\ IF op(r) = "commit" THEN Goes(r, "uncount") ELSE Returns(r, "ok")
    /\ UNCHANGED <<num_open_clients, history, mutex, state, bufferVars, status, resolving,
                   tx, known, fixedVars>>

uncount(r) ==
    /\ pc[r] = "uncount"
    /\ num_open_clients' = num_open_clients - 1
    /\ Returns(r, "ok")
    /\ UNCHANGED <<transaction_table, history, mutex, state, bufferVars, status, resolving,
                   tx, known, fixedVars>>

---------------------------------------------------------------------------

Active(r) == pc[r] \notin {"idle", "done"} /\ r \notin dropped

drop(r) ==
    /\ Cardinality(dropped) < MaxDrops /\ Active(r)
    /\ dropped' = dropped \cup {r}
    /\ mutex' = [t \in Transaction |-> IF mutex[t] = r THEN None ELSE mutex[t]]
    /\ UNCHANGED <<serverVars, state, bufferVars, status, resolving, handlerVars, tx, known,
                   rpc>>

step(r) ==
    \/ startRecord(r)
    \/ startInsert(r)
    \/ startCount(r)
    \/ lookup(r)
    \/ refused(r)
    \/ get(r)
    \/ getReply(r)
    \/ getFromNewLeader(r)
    \/ put(r)
    \/ delete(r)
    \/ abort(r)
    \/ record_abort(r)
    \/ readKeyspace(r)
    \/ sampleClients(r)
    \/ commit(r)
    \/ prepareFails(r)
    \/ decide(r)
    \/ resolve(r)
    \/ resolved(r)
    \/ remove(r)
    \/ uncount(r)

handlerStep(r) == r \notin dropped /\ step(r)

Quiet == (\A r \in Request : ~Active(r)) /\ UNCHANGED vars

Next ==
    \/ \E r \in Request : arrive(r)
    \/ \E r \in Request : handlerStep(r)
    \/ \E t \in Transaction : resolverCommits(t)
    \/ \E r \in Request : drop(r)
    \/ Quiet

Spec == Init /\ [][Next]_vars

(* Handlers are tokio tasks, and the calls they make are answered; clients *)
(* need not make requests.  No behaviour repeats a state.                  *)
FairSpec ==
    /\ Spec
    /\ WF_vars(\/ \E r \in Request : handlerStep(r)
               \/ \E t \in Transaction : resolverCommits(t))

---------------------------------------------------------------------------

Answered(t, names, result) ==
    \E r \in Request : tx[r] = t /\ rpc[r] \in names /\ answer[r] = result

CommitAnswered(t) == Answered(t, {"commit", "read_modify_write"}, "ok")
AbortAnswered(t) == Answered(t, {"abort"}, "ok")

(* A transaction ends in one way, however many handlers tried to end it:   *)
(* clients are never told both that it committed and that it aborted, what *)
(* they are told never contradicts the state store, no abort finds it      *)
(* committed (the panic in record_abort), and it has left the table.       *)
OneOutcome ==
    \A t \in Transaction :
       /\ CommitAnswered(t) => /\ ~AbortAnswered(t)
                               /\ status[t] = "committed" \/ ReadOnly(t)
                               /\ status[t] # "aborted"
       /\ AbortAnswered(t) => status[t] # "committed" /\ t \notin resolving
       /\ CommitAnswered(t) \/ AbortAnswered(t) => t \notin transaction_table
       /\ ~Answered(t, Rpcs, "panic")

(* No put or delete is accepted once the transaction's writes have been    *)
(* sent to the ranges to prepare: what clients were told is written is     *)
(* what commits.                                                           *)
NothingAfterPrepare ==
    \A t \in Transaction : prepared[t] # None => prepared[t] = Buffers(t)

(* The count of open clients, an unsigned integer, never goes below zero,  *)
(* and covers every transaction in the table whose start has been counted, *)
(* although any number of handlers may commit one.                         *)
ClientsCounted ==
    LET uncounted == {tx[r] : r \in {q \in Request : pc[q] = "count"}}
    IN  num_open_clients >= Cardinality(transaction_table \ uncounted)

(* Every request is answered or dropped: handlers that wait for a          *)
(* transaction's mutex get it.                                             *)
EveryRequestAnswered == []<>(\A r \in Request : ~Active(r))
=============================================================================
