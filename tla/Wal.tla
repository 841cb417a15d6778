-------------------------------- MODULE Wal --------------------------------
(***************************************************************************)
(* The write-ahead log of a range (rangeserver/src/wal/cassandra.rs): a    *)
(* buffer of entries in the range server, flushed in batches to a table of *)
(* numbered entries and one metadata row.  Several servers may believe     *)
(* they own the range, so several instances write the same table.          *)
(*                                                                         *)
(* A flush drains the buffer, takes the write lock of the instance's       *)
(* state, and then makes three calls to the database; every call may fail, *)
(* with or without having taken effect.  Flushes are started by the timer, *)
(* by a full buffer and by every handler of the range manager, so one may  *)
(* start whenever the buffer is not empty.                                 *)
(***************************************************************************)
EXTENDS Naturals, Sequences, Functions

CONSTANTS Server,         \* instances of the log
          MaxEntries,     \* bound on the entries appended
          None,
          MaxFailures,    \* bound on database errors
          MaxCrashes      \* bound on crashes of servers

(* Entries are numbered in the order in which they are appended; an entry  *)
(* is its own write_id.                                                    *)
Entry == 1..MaxEntries

(* The metadata row, and what a synced instance knows of it                *)
LogState == [first_offset : Nat \cup {None}, next_offset : Nat]

(* A flush that holds the state lock                                       *)
Flush == [entries : Seq(Entry), at : {"entries", "metadata", "verify"}, offset : Nat]

ASSUME WalAssumption ==
    /\ None \notin Nat \cup Server
    /\ None \notin LogState /\ None \notin Flush
    /\ {MaxEntries, MaxFailures, MaxCrashes} \subseteq Nat

VARIABLES
    log,            \* table rows: offset -> entry
    metadata,       \* the metadata row, or None
    state,          \* per server: NotSynced or [first_offset, next_offset]
    buffer,         \* per server: entries appended
    drained,        \* per server: batches drained, waiting for the state lock
    flushing,       \* per server: the batch whose flush holds the state lock, or None
    syncing,        \* per server: "no", "sync", or "init" when no metadata row was found
    loaded,         \* servers whose range manager has synced the log and loaded the range
    trimming,       \* per server: None or [offset, first_offset] of a trim under way
    status,         \* per entry: new, appended, acked, or lost in a crash
    owner,          \* history: server an entry was appended at
    synced,         \* history: servers that have synced
    trimmed,        \* history: all offsets below this one have been trimmed
    gone,           \* history: entries that were trimmed
    failures, crashes

dbVars == <<log, metadata>>
serverVars == <<state, buffer, drained, flushing, syncing, loaded, trimming>>
historyVars == <<status, owner, synced, trimmed, gone>>
vars == <<dbVars, serverVars, historyVars, failures, crashes>>

NotSynced == [first_offset |-> None, next_offset |-> None]

Init ==
    /\ log = << >>
    /\ metadata = None
    /\ state = [s \in Server |-> NotSynced]
    /\ buffer = [s \in Server |-> << >>]
    /\ drained = [s \in Server |-> {}]
    /\ flushing = [s \in Server |-> None]
    /\ syncing = [s \in Server |-> "no"]
    /\ loaded = {}
    /\ trimming = [s \in Server |-> None]
    /\ status = [e \in Entry |-> "new"]
    /\ owner = [e \in Entry |-> None]
    /\ synced = {}
    /\ trimmed = 0
    /\ gone = {}
    /\ failures = 0
    /\ crashes = 0

Locked(s) == flushing[s] # None \/ syncing[s] = "init"

(* A database call that fails                                              *)
Fails == failures < MaxFailures /\ failures' = failures + 1
Succeeds == UNCHANGED failures

---------------------------------------------------------------------------
(* sync: when the range is loaded, and at the end of a trim                *)

sync(s) ==
    /\ s \notin loaded \/ syncing[s] = "sync"
    /\ ~Locked(s)
    /\ \/ Succeeds /\ metadata # None
          /\ state' = [state EXCEPT ![s] = metadata]
          /\ syncing' = [syncing EXCEPT ![s] = "no"]
          /\ synced' = synced \cup {s} /\ loaded' = loaded \cup {s}
       \/ Succeeds /\ metadata = None
          /\ state' = [state EXCEPT ![s] = NotSynced]
          /\ syncing' = [syncing EXCEPT ![s] = "init"]
          /\ UNCHANGED <<synced, loaded>>
       \/ Fails
          /\ state' = [state EXCEPT ![s] = NotSynced]
          /\ syncing' = [syncing EXCEPT ![s] = "no"]
          /\ UNCHANGED <<synced, loaded>>
    /\ UNCHANGED <<dbVars, buffer, drained, flushing, trimming, status, owner, trimmed,
                   gone, crashes>>

NewLog == [first_offset |-> None, next_offset |-> 0]

(* The log does not exist: initialize it.                                  *)
syncInit(s) ==
    /\ syncing[s] = "init"
    /\ \/ Succeeds /\ metadata' = NewLog /\ state' = [state EXCEPT ![s] = NewLog]
          /\ synced' = synced \cup {s} /\ loaded' = loaded \cup {s}
       \/ Fails /\ metadata' \in {metadata, NewLog} /\ UNCHANGED <<state, synced, loaded>>
    /\ syncing' = [syncing EXCEPT ![s] = "no"]
    /\ UNCHANGED <<log, buffer, drained, flushing, trimming, status, owner, trimmed,
                   gone, crashes>>

---------------------------------------------------------------------------
(* append_entry, and the start of a flush                                  *)

append_entry(s, e) ==
    /\ s \in loaded
    /\ status[e] = "new" /\ \A d \in 1..(e - 1) : status[d] # "new"
    /\ buffer' = [buffer EXCEPT ![s] = Append(@, e)]
    /\ status' = [status EXCEPT ![e] = "appended"]
    /\ owner' = [owner EXCEPT ![e] = s]
    /\ UNCHANGED <<dbVars, state, drained, flushing, syncing, loaded, trimming, synced,
                   trimmed, gone, failures, crashes>>

drain(s) ==
    /\ buffer[s] # << >>
    /\ drained' = [drained EXCEPT ![s] = @ \cup {buffer[s]}]
    /\ buffer' = [buffer EXCEPT ![s] = << >>]
    /\ UNCHANGED <<dbVars, state, flushing, syncing, loaded, trimming, historyVars, failures,
                   crashes>>

---------------------------------------------------------------------------
(* flush_entries_to_database, under the write lock of the state            *)

(* Faulty variant: only the first caller of a batch is told.               *)
NotifyFirst(entries) ==
    status' = [e \in Entry |-> IF e = Head(entries) THEN "acked" ELSE status[e]]

(* Whatever the outcome, all waiting callers are told that it went well.   *)
Notify(entries) ==
    status' = [e \in Entry |-> IF e \in Range(entries) THEN "acked" ELSE status[e]]

(* Faulty variant: the last offset given out is given out again.           *)
overlappingOffsets(st, entries) ==
    [first_offset |-> IF st.first_offset = None THEN st.next_offset ELSE st.first_offset,
     next_offset  |-> st.next_offset + Len(entries) - 1]

(* Offsets are given out before anything is written.                       *)
afterOffsets(st, entries) ==
    [first_offset |-> IF st.first_offset = None THEN st.next_offset ELSE st.first_offset,
     next_offset  |-> st.next_offset + Len(entries)]

flushBegin(s, entries) ==
    /\ entries \in drained[s] /\ ~Locked(s)
    /\ drained' = [drained EXCEPT ![s] = @ \ {entries}]
    /\ IF state[s] = NotSynced
       THEN Notify(entries) /\ UNCHANGED <<state, flushing>>
       ELSE /\ state' = [state EXCEPT ![s] = afterOffsets(@, entries)]
            /\ flushing' = [flushing EXCEPT ![s] = [entries |-> entries, at |-> "entries",
                                                    offset |-> state[s].next_offset]]
            /\ UNCHANGED status
    /\ UNCHANGED <<dbVars, buffer, syncing, loaded, trimming, owner, synced, trimmed,
                   gone, failures, crashes>>

(* The table with the rows of a batch written                              *)
written(f) ==
    LET rows == f.offset..(f.offset + Len(f.entries) - 1)
    IN  [o \in DOMAIN log \cup rows |-> IF o \in rows THEN f.entries[o - f.offset + 1] ELSE log[o]]

FlushGoes(s, there) == flushing' = [flushing EXCEPT ![s].at = there] /\ UNCHANGED status
FlushEnds(s) == flushing' = [flushing EXCEPT ![s] = None] /\ Notify(flushing[s].entries)

writeEntries(s) ==
    /\ flushing[s] # None /\ flushing[s].at = "entries"
    /\ \/ Succeeds /\ log' = written(flushing[s]) /\ FlushGoes(s, "metadata")
       \/ Fails /\ log' \in {log, written(flushing[s])} /\ FlushEnds(s)
    /\ UNCHANGED <<metadata, state, buffer, drained, syncing, loaded, trimming, owner, synced,
                   trimmed, gone, crashes>>

(* Faulty variant: the update of the metadata row is not conditional.      *)
metadataOverwritten(f, after) == after

(* IF next_offset = the first offset of the batch                          *)
metadataAfter(f, after) ==
    IF metadata # None /\ metadata.next_offset = f.offset THEN after ELSE metadata

writeMetadata(s) ==
    /\ flushing[s] # None /\ flushing[s].at = "metadata"
    /\ LET after == metadataAfter(flushing[s], state[s])
       IN  \/ Succeeds /\ metadata' = after /\ FlushGoes(s, "verify")
           \/ Fails /\ metadata' \in {metadata, after} /\ FlushEnds(s)
    /\ UNCHANGED <<log, state, buffer, drained, syncing, loaded, trimming, owner, synced,
                   trimmed, gone, crashes>>

(* The first entry is read back, with its write_id.                        *)
Written(f) == f.offset \in DOMAIN log /\ log[f.offset] = f.entries[1]

verify(s) ==
    /\ flushing[s] # None /\ flushing[s].at = "verify"
    /\ \/ Succeeds /\ state' = IF Written(flushing[s]) THEN state
                               ELSE [state EXCEPT ![s] = NotSynced]
       \/ Fails /\ UNCHANGED state
    /\ FlushEnds(s)
    /\ UNCHANGED <<dbVars, buffer, drained, syncing, loaded, trimming, owner, synced, trimmed,
                   gone, crashes>>

---------------------------------------------------------------------------
(* trim_before_offset: an offset before the first does nothing.  That the   *)
(* offset is not beyond the end of the log is left to the caller, as in    *)
(* the code; the server has no caller yet.                                 *)

trimBegin(s, offset) ==
    /\ trimming[s] = None /\ ~Locked(s)
    /\ state[s] # NotSynced /\ state[s].first_offset # None
    /\ offset \in state[s].first_offset..state[s].next_offset
    /\ trimming' = [trimming EXCEPT ![s] = [offset |-> offset, first |-> state[s].first_offset]]
    /\ UNCHANGED <<dbVars, state, buffer, drained, flushing, syncing, loaded, historyVars,
                   failures, crashes>>

(* The conditional batch: UPDATE ... IF first_offset is still the one read  *)
trimApplies(t) == metadata # None /\ metadata.first_offset = t.first

TrimTable(t) ==
    /\ metadata' = [metadata EXCEPT !.first_offset = t.offset]
    /\ log' = [o \in {o \in DOMAIN log : o >= t.offset} |-> log[o]]
    /\ trimmed' = IF t.offset > trimmed THEN t.offset ELSE trimmed
    /\ gone' = gone \cup (Range(log) \ Range(log'))

TrimAnswered(t) ==
    IF trimApplies(t) THEN TrimTable(t) ELSE UNCHANGED <<dbVars, trimmed, gone>>

(* Whether it was applied is not known: the log is synced again, unless    *)
(* the call failed.                                                        *)
trimBatch(s) ==
    /\ trimming[s] # None
    /\ \/ Succeeds /\ syncing' = [syncing EXCEPT ![s] = "sync"]
          /\ TrimAnswered(trimming[s])
       \/ Fails /\ UNCHANGED syncing
          /\ (TrimAnswered(trimming[s]) \/ UNCHANGED <<dbVars, trimmed, gone>>)
    /\ trimming' = [trimming EXCEPT ![s] = None]
    /\ UNCHANGED <<state, buffer, drained, flushing, loaded, status, owner, synced, crashes>>

---------------------------------------------------------------------------
(* The server stops: what has not been answered never will be.             *)
crash(s) ==
    /\ crashes < MaxCrashes /\ crashes' = crashes + 1
    /\ status' = [e \in Entry |-> IF owner[e] = s /\ status[e] = "appended" THEN "lost"
                                  ELSE status[e]]
    /\ loaded' = loaded \ {s}
    /\ state' = [state EXCEPT ![s] = NotSynced]
    /\ buffer' = [buffer EXCEPT ![s] = << >>]
    /\ drained' = [drained EXCEPT ![s] = {}]
    /\ flushing' = [flushing EXCEPT ![s] = None]
    /\ syncing' = [syncing EXCEPT ![s] = "no"]
    /\ trimming' = [trimming EXCEPT ![s] = None]
    /\ UNCHANGED <<dbVars, owner, synced, trimmed, gone, failures>>

flushStep(s) ==
    \/ drain(s)
    \/ \E entries \in drained[s] : flushBegin(s, entries)
    \/ writeEntries(s)
    \/ writeMetadata(s)
    \/ verify(s)

Quiet == (\A e \in Entry : status[e] \in {"acked", "lost"}) /\ UNCHANGED vars

Next ==
    \/ Quiet
    \/ \E s \in Server :
       \/ sync(s)
       \/ syncInit(s)
       \/ \E e \in Entry : append_entry(s, e)
       \/ flushStep(s)
       \/ \E offset \in 0..MaxEntries : trimBegin(s, offset)
       \/ trimBatch(s)
       \/ crash(s)

Spec == Init /\ [][Next]_vars

(* The flush task runs every flush_interval, and database calls return.    *)
FairSpec ==
    Spec /\ \A s \in Server : WF_vars(flushStep(s)) /\ WF_vars(sync(s) \/ syncInit(s))

---------------------------------------------------------------------------

(* The log has no holes: whatever fails and whoever writes, an offset that *)
(* the metadata row covers and that was not trimmed holds an entry.        *)
NoHoles ==
    metadata # None /\ metadata.first_offset # None =>
       \A o \in metadata.first_offset..(metadata.next_offset - 1) :
          o >= trimmed => o \in DOMAIN log

(* What the range manager was told is in the database can be found there.  *)
Found(e) ==
    /\ metadata # None
    /\ \E o \in DOMAIN log : log[o] = e /\ o < metadata.next_offset

(* No database call has failed, and at most one server has synced.         *)
Alone == failures = 0 /\ \A s, t \in synced : s = t

(* A record the range manager was told is flushed is in the log, as long   *)
(* as no database call has failed and one server wrote.  (The result of a  *)
(* flush is not looked at: after a failed call the handlers that waited    *)
(* are answered as if their records were written.)                         *)
AckedUnlessFailed ==
    Alone => \A e \in Entry : status[e] = "acked" => Found(e) \/ e \in gone

(* Every append is answered, unless its server crashes.                    *)
EveryAppendAnswered == <>[](\A e \in Entry : status[e] # "appended")
=============================================================================
