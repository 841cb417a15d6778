------------------------------ MODULE MemTable ------------------------------
(***************************************************************************)
(* The epoch cache of a range (rangeserver/src/cache/memtabledb.rs): a     *)
(* ring of memtables, one of them mutable.  A write that does not fit      *)
(* turns the mutable table immutable and goes on in the next one, if that  *)
(* one is free; clear frees immutable tables; get walks the ring backwards *)
(* from the mutable table.  One writer, any number of readers behind a     *)
(* lock, so each call is one step.                                         *)
(*                                                                         *)
(* A write is known by its position in the history of writes that were     *)
(* accepted, which also stands for its value.  The writer's epochs never   *)
(* decrease: the cache keeps the epoch of the last write as its latest.    *)
(***************************************************************************)
EXTENDS Naturals, Sequences, FiniteSetsExt

CONSTANTS Key, None,
          NumWriteBuffers, WriteBufferSize,  \* the cache options
          KeyLen,                            \* bytes of a key
          ValueLens,                         \* bytes a value may have
          MaxEpoch, MaxWrites                \* bounds

ASSUME MemTableAssumption ==
    /\ NumWriteBuffers \in Nat \ {0}
    /\ {KeyLen, MaxEpoch} \subseteq Nat /\ ValueLens \subseteq Nat
    /\ None \notin Nat

VARIABLES
    memtables,         \* the ring, numbered from 0
    mut_memtable_idx,
    latest_epoch,      \* of the last write
    registered,        \* is a callback registered?
    told,              \* the epoch the last callback named
    written,           \* history: the accepted writes
    cleared            \* history: the highest epoch clear was called with

vars == <<memtables, mut_memtable_idx, latest_epoch, registered, told, written, cleared>>

Table == 0..(NumWriteBuffers - 1)
Epoch == 0..MaxEpoch

NewTable == [status |-> "FLUSHED", size_in_bytes |-> 0, latest_epoch |-> 0,
             oldest_epoch |-> 0, entries |-> {}]

Init ==
    /\ memtables = [i \in Table |-> IF i = 0 THEN [NewTable EXCEPT !.status = "MUTABLE"]
                                             ELSE NewTable]
    /\ mut_memtable_idx = 0
    /\ latest_epoch = 0
    /\ registered = FALSE
    /\ told = None
    /\ written = << >>
    /\ cleared = None

(* Bytes an entry counts for: key, value, the epoch and the deleted flag   *)
entrySize(valueLen) == KeyLen + valueLen + 9

(* The i-th table of the ring, walking backwards from the mutable one      *)
backwards(i) == (mut_memtable_idx + NumWriteBuffers - i) % NumWriteBuffers

---------------------------------------------------------------------------

insertInto(table, size, epoch) ==
    [table EXCEPT !.entries = @ \cup {Len(written) + 1},
                  !.size_in_bytes = @ + size,
                  !.latest_epoch = Max({@, epoch})]

(* The mutable table has room.                                             *)
upsertInPlace(size, epoch) ==
    /\ memtables[mut_memtable_idx].size_in_bytes + size <= WriteBufferSize
    /\ memtables' = [memtables EXCEPT ![mut_memtable_idx] = insertInto(@, size, epoch)]
    /\ UNCHANGED <<mut_memtable_idx, told>>

(* It has not: the next table takes over, if it is free.  The callback is  *)
(* called with the epoch of the table that has just become mutable.        *)
upsertSwitch(size, epoch) ==
    LET old_id == mut_memtable_idx
        new_id == (mut_memtable_idx + 1) % NumWriteBuffers
    IN  /\ memtables[old_id].size_in_bytes + size > WriteBufferSize
        /\ memtables[new_id].status = "FLUSHED"
        /\ mut_memtable_idx' = new_id
        /\ told' = IF registered THEN memtables[new_id].latest_epoch ELSE told
        /\ memtables' = [memtables EXCEPT
              ![old_id].status = "IMMUTABLE",
              ![new_id] = insertInto([@ EXCEPT !.status = "MUTABLE", !.oldest_epoch = epoch],
                                     size, epoch)]

(* Neither: the write is refused with CacheIsFull and changes nothing.     *)
CacheIsFull(size) ==
    /\ memtables[mut_memtable_idx].size_in_bytes + size > WriteBufferSize
    /\ memtables[(mut_memtable_idx + 1) % NumWriteBuffers].status # "FLUSHED"
    /\ UNCHANGED vars

upsertOrDelete(key, epoch, deleted, valueLen) ==
    \/ /\ \/ upsertInPlace(entrySize(valueLen), epoch)
          \/ upsertSwitch(entrySize(valueLen), epoch)
       /\ latest_epoch' = epoch
       /\ written' = Append(written, [key |-> key, epoch |-> epoch, deleted |-> deleted])
       /\ UNCHANGED <<registered, cleared>>
    \/ CacheIsFull(entrySize(valueLen))

upsert(key, epoch) == \E len \in ValueLens : upsertOrDelete(key, epoch, FALSE, len)
delete(key, epoch) == upsertOrDelete(key, epoch, TRUE, 0)

(* Faulty variant: a table is freed as soon as its oldest epoch is.        *)
clearFromOldest(epoch) ==
    /\ memtables' = [i \in Table |->
          IF memtables[i].status = "IMMUTABLE" /\ epoch >= memtables[i].oldest_epoch
          THEN [memtables[i] EXCEPT !.status = "FLUSHED", !.size_in_bytes = 0, !.entries = {}]
          ELSE memtables[i]]
    /\ cleared' = Max({epoch} \cup ({cleared} \ {None}))
    /\ UNCHANGED <<mut_memtable_idx, latest_epoch, registered, told, written>>

(* clear frees every immutable table whose entries all have epochs up to   *)
(* the one given; a freed table keeps its latest_epoch.                    *)
clear(epoch) ==
    /\ memtables' = [i \in Table |->
          IF memtables[i].status = "IMMUTABLE" /\ epoch >= memtables[i].latest_epoch
          THEN [memtables[i] EXCEPT !.status = "FLUSHED", !.size_in_bytes = 0, !.entries = {}]
          ELSE memtables[i]]
    /\ cleared' = Max({epoch} \cup ({cleared} \ {None}))
    /\ UNCHANGED <<mut_memtable_idx, latest_epoch, registered, told, written>>

registerGcCallback ==
    /\ ~registered
    /\ registered' = TRUE
    /\ UNCHANGED <<memtables, mut_memtable_idx, latest_epoch, told, written, cleared>>

---------------------------------------------------------------------------
(* get: a function of the state                                            *)

(* What lower_bound may find in a table: entries of the key with the       *)
(* highest epoch that is not above the given one.  The order of two        *)
(* entries that agree on key and epoch is the skip list's.                 *)
lowerBound(i, key, epoch) ==
    LET upTo == {w \in memtables[i].entries :
                    written[w].key = key /\ written[w].epoch <= epoch}
    IN  {w \in upTo : \A v \in upTo : written[v].epoch <= written[w].epoch}

(* The tables get looks into: it stops at the first free one and passes    *)
(* over those that begin above the epoch.                                  *)
walked(epoch) ==
    {i \in 0..(NumWriteBuffers - 1) :
        /\ \A j \in 0..i : memtables[backwards(j)].status # "FLUSHED"
        /\ memtables[backwards(i)].oldest_epoch <= epoch}

(* Faulty variant: the walk starts at the oldest table.                    *)
getFromOldest(key, epoch) ==
    LET at   == IF epoch = None THEN latest_epoch ELSE Min({epoch, latest_epoch})
        hits == {i \in walked(at) : lowerBound(backwards(i), key, at) # {}}
    IN  IF hits = {} THEN {None} ELSE lowerBound(backwards(Max(hits)), key, at)

(* The writes get may find.  Its caller is given a deleted entry like a    *)
(* missing one; here they are told apart.                                  *)
get(key, epoch) ==
    LET at   == IF epoch = None THEN latest_epoch ELSE Min({epoch, latest_epoch})
        hits == {i \in walked(at) : lowerBound(backwards(i), key, at) # {}}
    IN  IF hits = {} THEN {None} ELSE lowerBound(backwards(Min(hits)), key, at)

---------------------------------------------------------------------------

Next ==
    \/ /\ Len(written) < MaxWrites
       /\ \E key \in Key : \E epoch \in latest_epoch..MaxEpoch :
             upsert(key, epoch) \/ delete(key, epoch)
    \/ \E epoch \in Epoch : clear(epoch)
    \/ registerGcCallback

Spec == Init /\ [][Next]_vars

---------------------------------------------------------------------------

(* The reference: the last accepted write of the key up to an epoch        *)
Upto(key, epoch) ==
    {w \in 1..Len(written) : /\ written[w].key = key
                             /\ epoch = None \/ written[w].epoch <= epoch}
Newest(key, epoch) ==
    IF Upto(key, epoch) = {} THEN None ELSE Max(Upto(key, epoch))

(* Two writes of one key in one epoch leave their order to the skip list   *)
Ambiguous(key, epoch) ==
    LET w == Newest(key, epoch)
    IN  w # None /\ \E v \in Upto(key, epoch) : v # w /\ written[v].epoch = written[w].epoch

(* A read never goes back in time: whatever tables have been filled,       *)
(* rotated, cleared and reused, get returns the latest write up to the     *)
(* epoch asked for or nothing, never an earlier one.                       *)
NeverStale ==
    \A key \in Key, epoch \in Epoch \cup {None} :
       ~Ambiguous(key, epoch) => get(key, epoch) \subseteq {Newest(key, epoch), None}

(* A write newer than every epoch clear was called with is still found by  *)
(* the reads it is the answer to: freeing tables and wrapping around the   *)
(* ring lose nothing that was not given up.                                *)
KeptUntilCleared ==
    \A key \in Key, epoch \in Epoch \cup {None} :
       LET w == Newest(key, epoch)
       IN  /\ w # None /\ ~Ambiguous(key, epoch)
           /\ cleared = None \/ written[w].epoch > cleared
           => get(key, epoch) = {w}
=============================================================================
