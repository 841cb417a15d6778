---------------------------- MODULE RangeLoading ----------------------------
(***************************************************************************)
(* How a range comes to be loaded: the table of range managers of a range  *)
(* server (rangeserver/src/server.rs), the load and unload of a manager    *)
(* (range_manager/impl.rs) and the row by which servers take the range     *)
(* over from each other (storage/cassandra.rs).  One range, several        *)
(* servers.                                                                *)
(*                                                                         *)
(* A load is asked for by an update of the warden or by any request of a   *)
(* client; each is a task.  A manager is named after the task that made    *)
(* it.  A task may hold the lock of the table while it loads or waits.     *)
(***************************************************************************)
EXTENDS Integers, FiniteSets, Sequences

CONSTANTS Server,
          Task,
          ServerOf,       \* the server a task runs at
          None,
          NumEpochs,      \* num_epochs_per_lease
          MaxUpdates,     \* bound on changes of a server's assignment
          MaxFailures     \* bound on failing database calls

ASSUME LoadingAssumption ==
    /\ ServerOf \in [Task -> Server]
    /\ None \notin Task
    /\ NumEpochs \in Nat \ {0}
    /\ MaxUpdates \in Nat /\ MaxFailures \in Nat

VARIABLES
    assigned,       \* servers whose handler holds the range in assigned_ranges
    updates,        \* server -> LoadRange and UnloadRange messages not yet received
    unloading,      \* server -> manager the update loop is about to unload, or None
    loaded_ranges,  \* server -> the manager in its table, or None
    state,          \* manager -> NotLoaded, Loading, Loaded or Unloaded
    outcome,        \* manager -> what its load has broadcast: "none", "ok" or "err"
    range_info,     \* manager -> leader_sequence_number and epoch_lease
    row,            \* the row of range_leases
    pc,             \* task -> where it is
    rm,             \* task -> the manager it loads or waits for, or None
    held,           \* task -> its lock on the table: "none", "read" or "write"
    stray,          \* history: managers whose conditional update had no effect unnoticed
    sent, failures

serverVars == <<assigned, updates, unloading, sent>>
managerVars == <<state, outcome, range_info>>
taskVars == <<pc, rm, held>>
vars == <<serverVars, loaded_ranges, managerVars, row, taskVars, stray, failures>>

NoLease == [leader_sequence_number |-> 0, epoch_lease |-> <<0, 0>>]

(* The row as insert_new_ranges of the warden writes it                    *)
Init ==
    /\ assigned = {}
    /\ updates = [s \in Server |-> << >>]
    /\ unloading = [s \in Server |-> None]
    /\ loaded_ranges = [s \in Server |-> None]
    /\ state = [m \in Task |-> "NotLoaded"]
    /\ outcome = [m \in Task |-> "none"]
    /\ range_info = [m \in Task |-> NoLease]
    /\ row = NoLease
    /\ pc = [t \in Task |-> "idle"]
    /\ rm = [t \in Task |-> None]
    /\ held = [t \in Task |-> "none"]
    /\ stray = {}
    /\ sent = 0
    /\ failures = 0

CanRead(s) == \A t \in Task : ServerOf[t] = s => held[t] # "write"
CanWrite(s) == \A t \in Task : ServerOf[t] = s => held[t] = "none"

goto(t, label) == pc' = [pc EXCEPT ![t] = label]

(* The task leaves maybe_load_and_get_range_inner, which gives up the lock *)
leave(t, label) == goto(t, label) /\ held' = [held EXCEPT ![t] = "none"]

---------------------------------------------------------------------------
(* The warden handler and the update loop                                  *)

process_warden_update(s) ==
    /\ sent < MaxUpdates
    /\ sent' = sent + 1
    /\ IF s \in assigned
       THEN /\ updates' = [updates EXCEPT ![s] = Append(@, "UnloadRange")]
            /\ assigned' = assigned \ {s}
       ELSE /\ updates' = [updates EXCEPT ![s] = Append(@, "LoadRange")]
            /\ assigned' = assigned \cup {s}
    /\ UNCHANGED <<unloading, loaded_ranges, managerVars, row, taskVars, stray, failures>>

(* A task of its own loads the range; an unload is done by the loop.       *)
warden_update_loop(s) ==
    /\ unloading[s] = None
    /\ updates[s] # << >>
    /\ updates' = [updates EXCEPT ![s] = Tail(@)]
    /\ \/ /\ Head(updates[s]) = "LoadRange"
          /\ \E t \in Task : ServerOf[t] = s /\ pc[t] = "idle" /\ goto(t, "fast")
          /\ UNCHANGED <<unloading, loaded_ranges>>
       \/ /\ Head(updates[s]) = "UnloadRange"
          /\ CanWrite(s)
          /\ unloading' = [unloading EXCEPT ![s] = loaded_ranges[s]]
          /\ loaded_ranges' = [loaded_ranges EXCEPT ![s] = None]
          /\ UNCHANGED pc
    /\ UNCHANGED <<assigned, managerVars, row, rm, held, stray, sent, failures>>

unload(s) ==
    /\ unloading[s] # None
    /\ state' = [state EXCEPT ![unloading[s]] = "Unloaded"]
    /\ unloading' = [unloading EXCEPT ![s] = None]
    /\ UNCHANGED <<assigned, updates, sent, loaded_ranges, outcome, range_info, row, taskVars,
                   stray, failures>>

---------------------------------------------------------------------------
(* maybe_load_and_get_range                                                *)

(* A client's get, prepare, commit or abort                                *)
request(t) ==
    /\ pc[t] = "idle"
    /\ goto(t, "fast")
    /\ UNCHANGED <<serverVars, loaded_ranges, managerVars, row, rm, held, stray, failures>>

fastPath(t) ==
    LET m == loaded_ranges[ServerOf[t]] IN
    /\ pc[t] = "fast"
    /\ CanRead(ServerOf[t])
    /\ IF m = None
       THEN goto(t, "check") /\ UNCHANGED <<rm, held>>
       ELSE /\ goto(t, "load")
            /\ rm' = [rm EXCEPT ![t] = m]
            /\ held' = [held EXCEPT ![t] = "read"]
    /\ UNCHANGED <<serverVars, loaded_ranges, managerVars, row, stray, failures>>

is_assigned(t) ==
    /\ pc[t] = "check"
    /\ goto(t, IF ServerOf[t] \in assigned THEN "insert" ELSE "error")
    /\ UNCHANGED <<serverVars, loaded_ranges, managerVars, row, rm, held, stray, failures>>

(* A manager that was inserted meanwhile is loaded under the write lock;   *)
(* a new one after the lock is given up.                                   *)
insert(t) ==
    LET m == loaded_ranges[ServerOf[t]] IN
    /\ pc[t] = "insert"
    /\ CanWrite(ServerOf[t])
    /\ goto(t, "load")
    /\ rm' = [rm EXCEPT ![t] = IF m = None THEN t ELSE m]
    /\ held' = [held EXCEPT ![t] = IF m = None THEN "none" ELSE "write"]
    /\ loaded_ranges' = [loaded_ranges EXCEPT ![ServerOf[t]] = IF m = None THEN t ELSE m]
    /\ UNCHANGED <<serverVars, managerVars, row, stray, failures>>

(* An error takes the manager out of the table unless it is unloaded.      *)
removeFailed(t) ==
    LET s == ServerOf[t] IN
    /\ pc[t] = "error"
    /\ CanWrite(s)
    /\ loaded_ranges' = [loaded_ranges EXCEPT ![s] =
           IF @ # None /\ state[@] # "Unloaded" THEN None ELSE @]
    /\ goto(t, "failed")
    /\ UNCHANGED <<serverVars, managerVars, row, rm, held, stray, failures>>

---------------------------------------------------------------------------
(* RangeManager::load                                                      *)

load(t) ==
    LET m == rm[t] IN
    /\ pc[t] = "load"
    /\ \/ state[m] = "Loaded" /\ leave(t, "done") /\ UNCHANGED state
       \/ state[m] = "Unloaded" /\ leave(t, "error") /\ UNCHANGED state
       \/ state[m] = "Loading" /\ goto(t, "wait") /\ UNCHANGED <<held, state>>
       \/ /\ state[m] = "NotLoaded"
          /\ state' = [state EXCEPT ![m] = "Loading"]
          /\ goto(t, "lookup")
          /\ UNCHANGED held
    /\ UNCHANGED <<serverVars, loaded_ranges, outcome, range_info, row, rm, stray, failures>>

(* The sender of the channel is in the state of the manager and in the     *)
(* task that loads, so that the channel is open until that task has sent.  *)
wait(t) ==
    /\ pc[t] = "wait"
    /\ outcome[rm[t]] # "none"
    /\ leave(t, IF outcome[rm[t]] = "ok" THEN "done" ELSE "error")
    /\ UNCHANGED <<serverVars, loaded_ranges, managerVars, row, rm, stray, failures>>

(* take_ownership_and_load_range: read, conditional update, read again     *)
lookup(t) ==
    /\ pc[t] = "lookup"
    /\ range_info' = [range_info EXCEPT ![rm[t]].leader_sequence_number =
                          row.leader_sequence_number + 1]
    /\ goto(t, "acquire")
    /\ UNCHANGED <<serverVars, loaded_ranges, state, outcome, row, rm, held, stray, failures>>

acquire(t) ==
    LET number == range_info[rm[t]].leader_sequence_number IN
    /\ pc[t] = "acquire"
    /\ IF row.leader_sequence_number = number - 1
       THEN /\ row' = [row EXCEPT !.leader_sequence_number = number]
            /\ UNCHANGED stray
       ELSE /\ stray' = stray \cup {rm[t]}
            /\ UNCHANGED row
    /\ goto(t, "reread")
    /\ UNCHANGED <<serverVars, loaded_ranges, managerVars, rm, held, failures>>

(* The manager whose update had no effect is noticed when the number read  *)
(* is not the one it wanted; when another manager has written that number  *)
(* it goes on.                                                             *)
reread(t) ==
    LET m == rm[t] IN
    /\ pc[t] = "reread"
    /\ IF row.leader_sequence_number # range_info[m].leader_sequence_number
       THEN goto(t, "abandon") /\ stray' = stray \ {m} /\ UNCHANGED range_info
       ELSE /\ range_info' = [range_info EXCEPT ![m].epoch_lease = row.epoch_lease]
            /\ goto(t, "renew")
            /\ UNCHANGED stray
    /\ UNCHANGED <<serverVars, loaded_ranges, state, outcome, row, rm, held, failures>>

(* The lease after the one that was read, which is not before epoch 1      *)
NextLease(lease) == <<lease[2] + 1, lease[2] + 1 + NumEpochs>>

renew_epoch_lease(t) ==
    LET info == range_info[rm[t]] IN
    /\ pc[t] = "renew"
    /\ row' = IF row.leader_sequence_number = info.leader_sequence_number
              THEN [row EXCEPT !.epoch_lease = NextLease(info.epoch_lease)]
              ELSE row
    /\ goto(t, "confirm")
    /\ UNCHANGED <<serverVars, loaded_ranges, managerVars, rm, held, stray, failures>>

(* Faulty variant: the result of the renewal is not looked at              *)
confirmBlindly(t) ==
    LET m == rm[t] IN
    /\ pc[t] = "confirm"
    /\ range_info' = [range_info EXCEPT ![m].epoch_lease = NextLease(@)]
    /\ goto(t, "finish")
    /\ UNCHANGED <<serverVars, loaded_ranges, state, outcome, row, rm, held, stray, failures>>

(* The read after the renewal, and wal.sync                                *)
confirm(t) ==
    LET m == rm[t] IN
    /\ pc[t] = "confirm"
    /\ IF row.leader_sequence_number # range_info[m].leader_sequence_number
       THEN goto(t, "abandon") /\ UNCHANGED range_info
       ELSE /\ range_info' = [range_info EXCEPT ![m].epoch_lease = NextLease(@)]
            /\ goto(t, "finish")
    /\ UNCHANGED <<serverVars, loaded_ranges, state, outcome, row, rm, held, stray, failures>>

(* A call of load_inner fails.  (An update that took effect and whose      *)
(* answer is lost is the effect of the update followed by this.)           *)
callFails(t) ==
    /\ pc[t] \in {"lookup", "acquire", "reread", "renew", "confirm"}
    /\ failures < MaxFailures
    /\ failures' = failures + 1
    /\ goto(t, "abandon")
    /\ stray' = IF pc[t] = "reread" THEN stray \ {rm[t]} ELSE stray
    /\ UNCHANGED <<serverVars, loaded_ranges, managerVars, row, rm, held>>

(* The end of a load overwrites the state, also when the manager has been  *)
(* unloaded meanwhile.                                                     *)
loadOk(t) ==
    /\ pc[t] = "finish"
    /\ state' = [state EXCEPT ![rm[t]] = "Loaded"]
    /\ outcome' = [outcome EXCEPT ![rm[t]] = "ok"]
    /\ leave(t, "done")
    /\ UNCHANGED <<serverVars, loaded_ranges, range_info, row, rm, stray, failures>>

(* Faulty variant: an error is not broadcast                               *)
loadErrSilently(t) ==
    /\ pc[t] = "abandon"
    /\ state' = [state EXCEPT ![rm[t]] = "Unloaded"]
    /\ leave(t, "error")
    /\ UNCHANGED <<serverVars, loaded_ranges, outcome, range_info, row, rm, stray, failures>>

(* Sending the error panics when nobody waits for it; the task ends there. *)
loadErr(t) ==
    /\ pc[t] = "abandon"
    /\ state' = [state EXCEPT ![rm[t]] = "Unloaded"]
    /\ outcome' = [outcome EXCEPT ![rm[t]] = "err"]
    /\ leave(t, IF \E u \in Task : pc[u] = "wait" /\ rm[u] = rm[t] THEN "error" ELSE "failed")
    /\ UNCHANGED <<serverVars, loaded_ranges, range_info, row, rm, stray, failures>>

---------------------------------------------------------------------------
Step(t) ==
    \/ fastPath(t) \/ is_assigned(t) \/ insert(t) \/ removeFailed(t)
    \/ load(t) \/ wait(t)
    \/ lookup(t) \/ acquire(t) \/ reread(t) \/ renew_epoch_lease(t) \/ confirm(t)
    \/ loadOk(t) \/ loadErr(t)

Next ==
    \/ \E s \in Server : process_warden_update(s) \/ warden_update_loop(s) \/ unload(s)
    \/ \E t \in Task : request(t) \/ callFails(t) \/ Step(t)

Spec == Init /\ [][Next]_vars

(* The runtime polls a task that can go on.  Every task has a last step,   *)
(* so that this is fair to each of them.                                   *)
FairSpec == Spec /\ WF_vars(\E t \in Task : Step(t))

---------------------------------------------------------------------------
RangeInfo == [leader_sequence_number : Nat, epoch_lease : Nat \X Nat]

Label == {"idle", "fast", "check", "insert", "error", "failed", "load", "wait", "lookup",
          "acquire", "reread", "renew", "confirm", "finish", "abandon", "done"}

TypeOK ==
    /\ assigned \subseteq Server
    /\ updates \in [Server -> Seq({"LoadRange", "UnloadRange"})]
    /\ unloading \in [Server -> Task \cup {None}]
    /\ loaded_ranges \in [Server -> Task \cup {None}]
    /\ state \in [Task -> {"NotLoaded", "Loading", "Loaded", "Unloaded"}]
    /\ outcome \in [Task -> {"none", "ok", "err"}]
    /\ range_info \in [Task -> RangeInfo]
    /\ row \in RangeInfo
    /\ pc \in [Task -> Label]
    /\ rm \in [Task -> Task \cup {None}]
    /\ held \in [Task -> {"none", "read", "write"}]
    /\ stray \subseteq Task
    /\ sent \in 0..MaxUpdates
    /\ failures \in 0..MaxFailures

Disjoint(a, b) == a[2] < b[1] \/ b[2] < a[1]

(* Two managers that have loaded the range, at one server or two, have     *)
(* different leader sequence numbers unless one took another's update for  *)
(* its own, and while none has done so their epoch leases do not overlap,  *)
(* however their reads and conditional updates of the row interleave       *)
(* (take_ownership_and_load_range, renew_epoch_lease).                     *)
LeadersAreExclusive ==
    \A m, n \in Task \ stray :
        (m # n /\ outcome[m] = "ok" /\ outcome[n] = "ok") =>
            /\ range_info[m].leader_sequence_number # range_info[n].leader_sequence_number
            /\ stray = {} => Disjoint(range_info[m].epoch_lease, range_info[n].epoch_lease)

(* No task stays in maybe_load_and_get_range for ever, although tasks wait *)
(* for the load of another while they hold the lock of the table.          *)
EveryLoadReturns == <>[](\A t \in Task : pc[t] \in {"idle", "done", "failed"})
=============================================================================
