------------------------- MODULE PrefetchingBuffer -------------------------
(***************************************************************************)
(* The prefetching buffer of a range (rangeserver/src/                     *)
(* prefetching_buffer.rs) with the three parts of the range manager that   *)
(* use it: prefetch, the end of commit, and get, which trusts the buffer   *)
(* before storage.                                                         *)
(*                                                                         *)
(* A value is the number of the commit that put it; None is no value.      *)
(* key_transactions is the inverse of transaction_keys and is not kept.    *)
(* The receiver kept for a key is never read itself, so a clone of it      *)
(* returns from changed() as soon as anything was ever sent: a channel is  *)
(* the last value sent, or "unsent".                                       *)
(*                                                                         *)
(* commit holds the state of the range for reading only, so commits        *)
(* overlap: each is between storage and the buffer for a while, and they   *)
(* may tell the buffer in another order than they told storage.  The one   *)
(* call of process_transaction_complete, in abort, is commented out: it is *)
(* modelled as an operation the buffer offers, not as one the range uses.  *)
(***************************************************************************)
EXTENDS Naturals, FiniteSets

CONSTANTS Transaction, Key, None,
          MaxCommits,       \* bound on the commits that reach storage
          FetchMayFail,     \* a read from storage may return an error
          StorageDeletes    \* storage accepts a batch of deletes (Cassandra's does not)

ASSUME BoundAssumption == MaxCommits \in Nat /\ None \notin Nat

VARIABLES
    storage,                \* committed value per key
    prefetch_store,
    key_state,
    transaction_keys,
    channel,                \* key_state_sender and key_state_watcher
    fetch_sequence_number,
    call,                   \* the prefetch call of each transaction
    committing,             \* changes that are in storage and not in the buffer yet
    commits,                \* number of commits so far
    failed,                 \* history: keys whose fetch has failed
    raced,                  \* history: keys changed behind the buffer's back
    panicked                \* an unwrap failed

bufferVars == <<prefetch_store, key_state, transaction_keys, channel, fetch_sequence_number>>
vars == <<storage, bufferVars, call, committing, commits, failed, raced, panicked>>

Value == 1..MaxCommits
Absent == [is |-> "Absent", n |-> 0]
Fetched == [is |-> "Fetched", n |-> 0]
Loading(n) == [is |-> "Loading", n |-> n]
Requested(n) == [is |-> "Requested", n |-> n]

Idle == [at |-> "idle", key |-> None, n |-> 0, value |-> None]

Init ==
    /\ storage = [k \in Key |-> None]
    /\ prefetch_store = [k \in Key |-> None]
    /\ key_state = [k \in Key |-> Absent]
    /\ transaction_keys = [t \in Transaction |-> {}]
    /\ channel = [k \in Key |-> "none"]
    /\ fetch_sequence_number = 0
    /\ call = [t \in Transaction |-> Idle]
    /\ committing = {}
    /\ commits = 0
    /\ failed = {}
    /\ raced = {}
    /\ panicked = FALSE

CallAt(t, k, at) == call[t].at = at /\ call[t].key = k
CallBegins(t, k, at, n) ==
    call' = [call EXCEPT ![t] = [at |-> at, key |-> k, n |-> n, value |-> None]]
CallGoes(t, there) == call' = [call EXCEPT ![t].at = there]
CallReturns(t) == call' = [call EXCEPT ![t] = Idle]

---------------------------------------------------------------------------
(* process_prefetch_request *)

(* change_keystate_to_loading: the channel is created once per key.        *)
ChangeToLoading(k, n) ==
    /\ key_state' = [key_state EXCEPT ![k] = Loading(n)]
    /\ channel' = [channel EXCEPT ![k] = IF @ = "none" THEN "unsent" ELSE @]

(* The state of the key once the request is noted, and its number          *)
noted(k) ==
    IF key_state[k] = Absent THEN Requested(fetch_sequence_number + 1) ELSE key_state[k]

request(t, k) ==
    /\ call[t].at = "idle" /\ k \notin transaction_keys[t]
    /\ transaction_keys' = [transaction_keys EXCEPT ![t] = @ \cup {k}]
    /\ fetch_sequence_number' = fetch_sequence_number + (IF key_state[k] = Absent THEN 1 ELSE 0)
    /\ UNCHANGED <<storage, prefetch_store, committing, commits, failed, raced, panicked>>

requestFetched(t, k) ==
    /\ request(t, k)
    /\ noted(k).is = "Fetched"
    /\ UNCHANGED <<key_state, channel, call>>

requestLoading(t, k) ==
    /\ request(t, k)
    /\ noted(k).is = "Loading"
    /\ CallBegins(t, k, "wait", noted(k).n)
    /\ UNCHANGED <<key_state, channel>>

requestNew(t, k) ==
    /\ request(t, k)
    /\ noted(k).is = "Requested"
    /\ ChangeToLoading(k, noted(k).n)
    /\ CallBegins(t, k, "fetch", noted(k).n)

(* Something was sent on the key's channel.                                *)
wake(t, k) ==
    /\ CallAt(t, k, "wait")
    /\ \/ channel[k] = "Fetched" /\ CallReturns(t)
       \/ channel[k] = "Requested" /\ CallGoes(t, "retry")
    /\ UNCHANGED <<storage, bufferVars, committing, commits, failed, raced, panicked>>

(* The fetch it waited for failed: fetch again, under the number it knows. *)
retry(t, k) ==
    /\ CallAt(t, k, "retry")
    /\ ChangeToLoading(k, call[t].n)
    /\ IF key_state[k] = Absent
       THEN panicked' = TRUE /\ CallGoes(t, "panicked")
       ELSE CallGoes(t, "fetch") /\ UNCHANGED panicked
    /\ UNCHANGED <<storage, prefetch_store, transaction_keys, fetch_sequence_number,
                   committing, commits, failed, raced>>

---------------------------------------------------------------------------
(* prefetch, after a request that found the key not loaded                 *)

prefetch_get(t, k) ==
    /\ CallAt(t, k, "fetch")
    /\ \/ call' = [call EXCEPT ![t].at = "read", ![t].value = storage[k]]
       \/ FetchMayFail /\ CallGoes(t, "failed")
    /\ UNCHANGED <<storage, bufferVars, committing, commits, failed, raced, panicked>>

(* Faulty variant: the value is taken whatever became of the key.          *)
fetch_complete_always(t, k) ==
    /\ CallAt(t, k, "read")
    /\ key_state' = [key_state EXCEPT ![k] = Fetched]
    /\ channel' = [channel EXCEPT ![k] = "Fetched"]
    /\ prefetch_store' = [prefetch_store EXCEPT ![k] =
                             IF call[t].value # None THEN call[t].value ELSE @]
    /\ CallReturns(t)
    /\ UNCHANGED <<storage, transaction_keys, fetch_sequence_number, committing, commits,
                   failed, raced, panicked>>

fetch_complete(t, k) ==
    /\ CallAt(t, k, "read")
    /\ IF key_state[k] = Loading(call[t].n)
       THEN /\ key_state' = [key_state EXCEPT ![k] = Fetched]
            /\ channel' = [channel EXCEPT ![k] = "Fetched"]
            /\ prefetch_store' = [prefetch_store EXCEPT ![k] =
                                     IF call[t].value # None THEN call[t].value ELSE @]
       ELSE UNCHANGED <<key_state, channel, prefetch_store>>
    /\ CallReturns(t)
    /\ UNCHANGED <<storage, transaction_keys, fetch_sequence_number, committing, commits,
                   failed, raced, panicked>>

(* Faulty variant: nobody is told.                                         *)
fetch_failed_silently(t, k) ==
    /\ CallAt(t, k, "failed")
    /\ key_state' = IF key_state[k] = Loading(call[t].n)
                    THEN [key_state EXCEPT ![k] = Requested(call[t].n)]
                    ELSE key_state
    /\ failed' = failed \cup {k}
    /\ CallReturns(t)
    /\ UNCHANGED <<storage, prefetch_store, channel, transaction_keys,
                   fetch_sequence_number, committing, commits, raced, panicked>>

fetch_failed(t, k) ==
    /\ CallAt(t, k, "failed")
    /\ IF key_state[k] = Loading(call[t].n)
       THEN /\ key_state' = [key_state EXCEPT ![k] = Requested(call[t].n)]
            /\ channel' = [channel EXCEPT ![k] = "Requested"]
       ELSE UNCHANGED <<key_state, channel>>
    /\ failed' = failed \cup {k}
    /\ CallReturns(t)
    /\ UNCHANGED <<storage, prefetch_store, transaction_keys, fetch_sequence_number,
                   committing, commits, raced, panicked>>

---------------------------------------------------------------------------
(* process_transaction_complete, with evict_key.  A transaction is over    *)
(* when its prefetches have returned.                                      *)

(* Faulty variant: keys that others have requested go too.                 *)
evictedForAll(t) == transaction_keys[t]

evicted(t) == {k \in transaction_keys[t] :
                  \A u \in Transaction \ {t} : k \notin transaction_keys[u]}

process_transaction_complete(t) ==
    /\ call[t].at = "idle" /\ transaction_keys[t] # {}
    /\ prefetch_store' = [k \in Key |-> IF k \in evicted(t) THEN None ELSE prefetch_store[k]]
    /\ key_state' = [k \in Key |-> IF k \in evicted(t) THEN Absent ELSE key_state[k]]
    /\ transaction_keys' = [transaction_keys EXCEPT ![t] = {}]
    /\ CallGoes(t, "over")
    /\ UNCHANGED <<storage, channel, fetch_sequence_number, committing, commits, failed,
                   raced, panicked>>

---------------------------------------------------------------------------
(* The end of commit in the range manager: storage first, then the buffer. *)

Change == [n : 1..MaxCommits, key : Key, value : Value \cup {None}]

(* Some fetch has read a value that storage has lost.                      *)
Overtaken(k) == \E t \in Transaction : CallAt(t, k, "read") /\ call[t].value # storage[k]

(* An older change of the key has still to reach the buffer.               *)
OutOfOrder(c) == \E d \in committing : d.key = c.key /\ d.n < c.n

batch_upsert(k, isPut) ==
    LET n == commits + 1
        value == IF isPut THEN n ELSE None
    IN  /\ commits < MaxCommits
        /\ isPut \/ StorageDeletes
        /\ commits' = n
        /\ storage' = [storage EXCEPT ![k] = value]
        /\ committing' = committing \cup {[n |-> n, key |-> k, value |-> value]}
        /\ UNCHANGED <<bufferVars, call, failed, raced, panicked>>

upsert(c) ==
    /\ c.value # None
    /\ prefetch_store' = [prefetch_store EXCEPT ![c.key] = c.value]
    /\ raced' = IF Overtaken(c.key) \/ OutOfOrder(c) THEN raced \cup {c.key} ELSE raced
    /\ committing' = committing \ {c}
    /\ UNCHANGED <<storage, key_state, transaction_keys, channel, fetch_sequence_number,
                   call, commits, failed, panicked>>

(* A key no transaction has requested is not looked at.                    *)
delete(c) ==
    /\ c.value = None
    /\ IF key_state[c.key] = Absent
       THEN UNCHANGED <<prefetch_store, key_state, channel>>
       ELSE /\ prefetch_store' = [prefetch_store EXCEPT ![c.key] = None]
            /\ IF key_state[c.key].is = "Loading"
               THEN /\ key_state' = [key_state EXCEPT ![c.key] = Fetched]
                    /\ channel' = [channel EXCEPT ![c.key] = "Fetched"]
               ELSE UNCHANGED <<key_state, channel>>
    /\ raced' = IF \/ key_state[c.key] = Absent
                   \/ c.key \in failed /\ Overtaken(c.key)
                   \/ OutOfOrder(c)
                THEN raced \cup {c.key} ELSE raced
    /\ committing' = committing \ {c}
    /\ UNCHANGED <<storage, transaction_keys, fetch_sequence_number, call, commits, failed,
                   panicked>>

---------------------------------------------------------------------------

prefetchStep(t, k) ==
    \/ wake(t, k)
    \/ retry(t, k)
    \/ prefetch_get(t, k)
    \/ fetch_complete(t, k)
    \/ fetch_failed(t, k)

Done == (\A t \in Transaction : call[t].at \in {"idle", "over"}) /\ UNCHANGED vars

Next ==
    \/ \E t \in Transaction, k \in Key :
          \/ requestFetched(t, k) \/ requestLoading(t, k) \/ requestNew(t, k)
          \/ prefetchStep(t, k)
    \/ \E t \in Transaction : process_transaction_complete(t)
    \/ \E k \in Key, isPut \in BOOLEAN : batch_upsert(k, isPut)
    \/ \E c \in committing : upsert(c) \/ delete(c)
    \/ Done

Spec == Init /\ [][Next]_vars

(* A prefetch is a task of the range server: while one can go on, one does. *)
FairSpec == Spec /\ WF_vars(\E t \in Transaction, k \in Key : prefetchStep(t, k))

---------------------------------------------------------------------------

KeyState == {Absent, Fetched} \cup [is : {"Loading", "Requested"}, n : Nat \ {0}]

Call == [at : {"idle", "wait", "retry", "fetch", "read", "failed", "over", "panicked"},
         key : Key \cup {None}, n : Nat, value : Value \cup {None}]

TypeOK ==
    /\ storage \in [Key -> Value \cup {None}]
    /\ prefetch_store \in [Key -> Value \cup {None}]
    /\ key_state \in [Key -> KeyState]
    /\ transaction_keys \in [Transaction -> SUBSET Key]
    /\ channel \in [Key -> {"none", "unsent", "Fetched", "Requested"}]
    /\ fetch_sequence_number \in Nat
    /\ call \in [Transaction -> Call]
    /\ committing \subseteq Change
    /\ commits \in 0..MaxCommits
    /\ failed \subseteq Key /\ raced \subseteq Key
    /\ panicked \in BOOLEAN

(* change_keystate_to_loading is only called for a key that has a state:   *)
(* nobody evicts a key that a waiting transaction has requested.           *)
NoPanic == ~panicked

(* What get returns for a key                                              *)
visible(k) == IF prefetch_store[k] # None THEN prefetch_store[k] ELSE storage[k]

(* get returns what is committed, for a key no commit is busy with, unless *)
(* the buffer was told of two commits of the key out of order, of a put    *)
(* (or, once a fetch had failed, a delete) while a fetch still held an     *)
(* older value, or of a delete of a key that nobody had requested.         *)
FreshUnlessRaced ==
    \A k \in Key \ raced : (\A c \in committing : c.key # k) => visible(k) = storage[k]

(* While no fetch of a key has failed, one transaction fetches it: the     *)
(* others wait for its answer.                                             *)
Fetching(t, k, n) == call[t].key = k /\ call[t].n = n /\ call[t].at \in {"fetch", "read", "failed"}

OneFetchPerKey ==
    \A k \in Key \ failed : \A t, u \in Transaction : \A n \in 1..fetch_sequence_number :
       Fetching(t, k, n) /\ Fetching(u, k, n) => t = u

(* Every prefetch returns.                                                 *)
EveryPrefetchReturns ==
    \A t \in Transaction : [](call[t].at # "idle" => <>(call[t].at \in {"idle", "over"}))
=============================================================================
