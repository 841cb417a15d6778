----------------------------- MODULE WalProofs -----------------------------
(***************************************************************************)
(* Proofs about Wal: the log has no holes, and what one server was told is *)
(* flushed is in the log as long as no database call failed.               *)
(***************************************************************************)
EXTENDS Wal, TLAPS

USE WalAssumption, Zenon

---------------------------------------------------------------------------
(* The log has no holes.                                                   *)

Typed ==
    /\ DOMAIN log \subseteq Nat
    /\ metadata # None => metadata \in LogState
    /\ state \in [Server -> LogState \cup {NotSynced}]
    /\ buffer \in [Server -> Seq(Entry)]
    /\ drained \in [Server -> SUBSET Seq(Entry)]
    /\ flushing \in [Server -> Flush \cup {None}]
    /\ DOMAIN syncing = Server /\ DOMAIN trimming = Server
    /\ \A s \in Server : trimming[s] # None => trimming[s].offset \in Nat
    /\ trimmed \in Nat

(* A flush has the state lock: the state counts its entries.               *)
FlushLocks(s) ==
    flushing[s] # None =>
       /\ syncing[s] # "init" /\ state[s] # NotSynced
       /\ state[s].next_offset = flushing[s].offset + Len(flushing[s].entries)

(* All offsets in this interval hold an entry, or were trimmed.            *)
Filled(first, end) == \A o \in Nat : first <= o /\ o < end /\ trimmed <= o => o \in DOMAIN log

FlushFilled(s) ==
    flushing[s] # None /\ flushing[s].at = "metadata" =>
       Filled(flushing[s].offset, flushing[s].offset + Len(flushing[s].entries))

HoleInv ==
    /\ Typed
    /\ \A s \in Server : FlushLocks(s) /\ FlushFilled(s)
    /\ metadata # None => Filled(0, metadata.next_offset)

---------------------------------------------------------------------------
(* What was acknowledged is in the log.                                    *)

EntryTyped ==
    /\ \A o \in DOMAIN log : log[o] \in Entry
    /\ status \in [Entry -> {"new", "appended", "acked", "lost"}]
    /\ DOMAIN owner = Entry
    /\ \A s \in Server : << >> \notin drained[s]
    /\ \A s \in Server : flushing[s] # None => flushing[s].entries # << >>
    /\ synced \subseteq Server
    /\ failures \in Nat

(* A server that has not loaded the range has nothing under way.           *)
Unloaded(s) ==
    /\ state[s] = NotSynced /\ buffer[s] = << >> /\ drained[s] = {}
    /\ flushing[s] = None /\ trimming[s] = None

LoadInv ==
    /\ loaded \subseteq synced
    /\ \A s \in Server : s \notin loaded => Unloaded(s)
    /\ \A s \in Server : syncing[s] = "init" => s \notin synced
    /\ metadata = None => synced = {}
    /\ synced = {} => DOMAIN log = {} /\ \A e \in Entry : status[e] = "new"

(* The entries of a batch wait for their flush.                            *)
Waiting(s, entries) ==
    \A e \in Range(entries) : status[e] = "appended" /\ owner[e] = s

Disjoint(b, d) == Range(b) \cap Range(d) = {}

WaitingApart(s) ==
    /\ Waiting(s, buffer[s])
    /\ \A b \in drained[s] :
          /\ Waiting(s, b) /\ Disjoint(b, buffer[s])
          /\ \A d \in drained[s] : b # d => Disjoint(b, d)
    /\ flushing[s] # None =>
          /\ Waiting(s, flushing[s].entries) /\ Disjoint(flushing[s].entries, buffer[s])
          /\ \A b \in drained[s] : Disjoint(flushing[s].entries, b)

(* The rows of a flush are in the table.                                   *)
RowsWritten(f) ==
    \A i \in 1..Len(f.entries) :
       f.offset + i - 1 \in DOMAIN log /\ log[f.offset + i - 1] = f.entries[i]

(* What a loaded server knows of the log agrees with the metadata row.     *)
Agrees(s) ==
    /\ state[s] # NotSynced /\ metadata # None
    /\ flushing[s] = None => state[s].next_offset = metadata.next_offset
    /\ flushing[s] # None =>
          /\ flushing[s].at # "verify" => flushing[s].offset = metadata.next_offset
          /\ flushing[s].at = "verify" =>
                flushing[s].offset + Len(flushing[s].entries) = metadata.next_offset
          /\ flushing[s].at # "entries" => RowsWritten(flushing[s])
    /\ trimming[s] # None =>
          /\ trimming[s].offset <= metadata.next_offset
          /\ flushing[s] # None => trimming[s].offset <= flushing[s].offset

(* A row the metadata does not cover yet is of a flush that was cut short, *)
(* or of the one under way.                                                *)
Uncovered(o) ==
    \/ status[log[o]] = "lost"
    \/ \E s \in Server : /\ flushing[s] # None /\ flushing[s].at = "metadata"
                         /\ flushing[s].offset <= o
                         /\ o < flushing[s].offset + Len(flushing[s].entries)

Covered == \A o \in DOMAIN log : metadata # None /\ metadata.next_offset <= o => Uncovered(o)

AckedFound == \A e \in Entry : status[e] = "acked" => Found(e) \/ e \in gone

AckInv ==
    /\ HoleInv /\ EntryTyped /\ LoadInv
    /\ Alone =>
          /\ synced = {} => metadata = None
          /\ \A s \in loaded : Agrees(s) /\ WaitingApart(s)
          /\ Covered /\ AckedFound

---------------------------------------------------------------------------
(* The parts of a step                                                     *)

LEMMA FlushMoves ==
    ASSUME Typed, NEW s \in Server, flushing[s] # None, NEW there \in {"entries", "metadata", "verify"},
           flushing' = [flushing EXCEPT ![s].at = there]
    PROVE  /\ flushing' \in [Server -> Flush \cup {None}]
           /\ flushing'[s] \in Flush /\ flushing'[s] # None
           /\ flushing'[s].entries = flushing[s].entries
           /\ flushing'[s].offset = flushing[s].offset
           /\ flushing'[s].at = there
           /\ \A t \in Server \ {s} : flushing'[t] = flushing[t]
<1>1. flushing[s] \in Flush /\ flushing \in [Server -> Flush \cup {None}]
    BY DEF Typed
<1>. DEFINE f == [entries |-> flushing[s].entries, at |-> there, offset |-> flushing[s].offset]
<1>2. [flushing[s] EXCEPT !.at = there] = f
    BY SMTT(30), <1>1 DEF Flush
<1>3. f \in Flush
    BY <1>1 DEF Flush
<1>4. flushing' = [flushing EXCEPT ![s] = f]
    BY <1>2
<1>5. f # None
    BY <1>3
<1>6. f.entries = flushing[s].entries /\ f.offset = flushing[s].offset /\ f.at = there
    OBVIOUS
<1>. HIDE DEF f
<1>. QED
    BY <1>1, <1>3, <1>4, <1>5, <1>6

LEMMA StateTyped ==
    ASSUME Typed, NEW s \in Server
    PROVE  /\ state[s] # NotSynced <=> state[s] \in LogState
           /\ state[s] \in LogState => /\ state[s].next_offset \in Nat
                                       /\ state[s].first_offset \in Nat \cup {None}
           /\ flushing[s] # None => /\ flushing[s] \in Flush
                                    /\ flushing[s].offset \in Nat
                                    /\ flushing[s].entries \in Seq(Entry)
                                    /\ Len(flushing[s].entries) \in Nat
                                    /\ flushing[s].at \in {"entries", "metadata", "verify"}
           /\ metadata # None => metadata.next_offset \in Nat
<1>1. NotSynced \notin LogState
    BY DEF NotSynced, LogState
<1>2. state[s] \in LogState \cup {NotSynced} /\ flushing[s] \in Flush \cup {None}
      /\ (metadata # None => metadata \in LogState)
    BY DEF Typed
<1>3. \A st \in LogState : st.next_offset \in Nat /\ st.first_offset \in Nat \cup {None}
    BY DEF LogState
<1>4. \A f \in Flush : /\ f.offset \in Nat /\ f.entries \in Seq(Entry)
                       /\ f.at \in {"entries", "metadata", "verify"}
    BY DEF Flush
<1>. QED
    BY SMTT(30), <1>1, <1>2, <1>3, <1>4

(* A step that only grows the table and moves no flush                     *)
LEMMA TableGrows ==
    ASSUME HoleInv, Typed', DOMAIN log \subseteq DOMAIN log', trimmed' = trimmed,
           metadata' # None => /\ metadata # None
                               /\ metadata'.next_offset = metadata.next_offset,
           \A s \in Server : flushing'[s] = flushing[s] \/ flushing'[s] = None,
           \A s \in Server : flushing'[s] # None =>
              state'[s] = state[s] /\ syncing'[s] # "init"
    PROVE  HoleInv'
<1>1. ASSUME NEW s \in Server PROVE FlushLocks(s)' /\ FlushFilled(s)'
  <2>1. CASE flushing'[s] = None
    BY <2>1 DEF FlushLocks, FlushFilled
  <2>2. CASE flushing'[s] # None /\ flushing'[s] = flushing[s]
    <3>1. FlushLocks(s)'
      BY <2>2 DEF HoleInv, FlushLocks
    <3>2. FlushFilled(s)'
      BY <2>2 DEF HoleInv, FlushFilled, Filled
    <3>. QED
      BY <3>1, <3>2
  <2>. QED
    BY <2>1, <2>2
<1>2. metadata' # None => Filled(0, metadata.next_offset)'
    BY DEF HoleInv, Filled
<1>. QED
    BY <1>1, <1>2 DEF HoleInv

---------------------------------------------------------------------------
(* The steps                                                               *)

LEMMA SyncHole ==
    ASSUME HoleInv, NEW s \in Server, sync(s)
    PROVE  HoleInv'
<1>1. UNCHANGED <<dbVars, buffer, drained, flushing, trimming, trimmed>> /\ flushing[s] = None
    BY DEF sync, Locked
<1>2. /\ \E st \in LogState \cup {NotSynced} : state' = [state EXCEPT ![s] = st]
      /\ \E x : syncing' = [syncing EXCEPT ![s] = x]
    BY DEF sync, HoleInv, Typed
<1>3. Typed'
    BY SMTT(30), <1>1, <1>2 DEF HoleInv, Typed, dbVars
<1>4. \A t \in Server : flushing'[t] # None => state'[t] = state[t] /\ syncing'[t] # "init"
    BY <1>1, <1>2 DEF HoleInv, Typed, FlushLocks
<1>. QED
    BY <1>1, <1>3, <1>4, TableGrows DEF dbVars

LEMMA SyncInitHole ==
    ASSUME HoleInv, NEW s \in Server, syncInit(s)
    PROVE  HoleInv'
<1>1. /\ UNCHANGED <<log, buffer, drained, flushing, trimming, trimmed>>
      /\ syncing' = [syncing EXCEPT ![s] = "no"] /\ syncing[s] = "init"
      /\ metadata' \in {metadata, NewLog}
      /\ state' = state \/ state' = [state EXCEPT ![s] = NewLog]
    BY DEF syncInit
<1>2. flushing[s] = None
    BY <1>1 DEF HoleInv, FlushLocks
<1>3. NewLog \in LogState /\ NewLog.next_offset = 0
    BY DEF NewLog, LogState
<1>4. Typed'
  <2>1. state' \in [Server -> LogState \cup {NotSynced}]
    BY <1>1, <1>3 DEF HoleInv, Typed
  <2>2. metadata' # None => metadata' \in LogState
    BY <1>1, <1>3 DEF HoleInv, Typed
  <2>. QED
    BY <1>1, <2>1, <2>2 DEF HoleInv, Typed
<1>5. \A t \in Server : flushing'[t] # None => state'[t] = state[t] /\ syncing'[t] # "init"
    BY <1>1, <1>2 DEF HoleInv, Typed, FlushLocks
<1>6. CASE metadata' = metadata
    BY <1>1, <1>4, <1>5, <1>6, TableGrows
<1>7. CASE metadata' = NewLog
  <2>1. ASSUME NEW t \in Server PROVE FlushLocks(t)' /\ FlushFilled(t)'
    BY <1>1, <1>5 DEF HoleInv, FlushLocks, FlushFilled, Filled
  <2>2. Filled(0, metadata.next_offset)'
    BY SMTT(30), <1>3, <1>7 DEF Filled
  <2>. QED
    BY <1>4, <2>1, <2>2 DEF HoleInv
<1>. QED
    BY <1>1, <1>6, <1>7

LEMMA BufferHole ==
    ASSUME HoleInv, NEW s \in Server, (\E e \in Entry : append_entry(s, e)) \/ drain(s)
    PROVE  HoleInv'
<1>1. UNCHANGED <<dbVars, state, flushing, syncing, trimming, trimmed>>
    BY DEF append_entry, drain, historyVars
<1>2. buffer \in [Server -> Seq(Entry)] /\ drained \in [Server -> SUBSET Seq(Entry)]
    BY DEF HoleInv, Typed
<1>3. buffer' \in [Server -> Seq(Entry)] /\ drained' \in [Server -> SUBSET Seq(Entry)]
  <2>1. CASE \E e \in Entry : append_entry(s, e)
    <3>1. PICK e \in Entry : buffer' = [buffer EXCEPT ![s] = Append(buffer[s], e)] /\ drained' = drained
      BY <2>1 DEF append_entry
    <3>2. Append(buffer[s], e) \in Seq(Entry)
      BY SMTT(30), <1>2
    <3>. QED
      BY <1>2, <3>1, <3>2
  <2>2. CASE drain(s)
    <3>1. /\ drained' = [drained EXCEPT ![s] = drained[s] \cup {buffer[s]}]
          /\ buffer' = [buffer EXCEPT ![s] = << >>]
      BY <2>2 DEF drain
    <3>2. << >> \in Seq(Entry) /\ buffer[s] \in Seq(Entry) /\ drained[s] \in SUBSET Seq(Entry)
      BY SMTT(30), <1>2
    <3>. QED
      BY <1>2, <3>1, <3>2
  <2>. QED
    BY <2>1, <2>2
<1>4. Typed'
    BY <1>1, <1>3 DEF HoleInv, Typed, dbVars
<1>. QED
    BY <1>1, <1>4, TableGrows DEF dbVars, HoleInv, FlushLocks

LEMMA FlushBeginHole ==
    ASSUME HoleInv, NEW s \in Server, NEW entries \in drained[s], flushBegin(s, entries)
    PROVE  HoleInv'
<1>1. /\ UNCHANGED <<dbVars, buffer, syncing, trimming, trimmed>>
      /\ flushing[s] = None /\ syncing[s] # "init" /\ Typed
    BY DEF flushBegin, Locked, HoleInv
<1>2. /\ drained' \in [Server -> SUBSET Seq(Entry)]
      /\ entries \in Seq(Entry) /\ Len(entries) \in Nat
  <2>1. drained \in [Server -> SUBSET Seq(Entry)] /\ drained' = [drained EXCEPT ![s] = drained[s] \ {entries}]
    BY <1>1 DEF Typed, flushBegin
  <2>2. drained[s] \ {entries} \in SUBSET Seq(Entry) /\ entries \in Seq(Entry)
    BY <2>1
  <2>. QED
    BY SMTT(30), <2>1, <2>2
<1>3. CASE state[s] = NotSynced
  <2>1. UNCHANGED <<state, flushing>>
    BY <1>3 DEF flushBegin
  <2>2. Typed'
    BY <1>1, <1>2, <2>1 DEF Typed, dbVars
  <2>. QED
    BY <1>1, <2>1, <2>2, TableGrows DEF dbVars, HoleInv, FlushLocks
<1>4. CASE state[s] # NotSynced
  <2>. DEFINE st == afterOffsets(state[s], entries)
              f == [entries |-> entries, at |-> "entries", offset |-> state[s].next_offset]
  <2>1. state' = [state EXCEPT ![s] = st] /\ flushing' = [flushing EXCEPT ![s] = f]
    BY <1>4 DEF flushBegin
  <2>2. state[s] \in LogState /\ state[s].next_offset \in Nat /\ state[s].first_offset \in Nat \cup {None}
    BY <1>1, <1>4, StateTyped
  <2>3. /\ st \in LogState /\ st # NotSynced
        /\ st.next_offset = state[s].next_offset + Len(entries)
    BY SMTT(30), <1>2, <2>2 DEF afterOffsets, LogState, NotSynced
  <2>4. f \in Flush /\ f.at = "entries" /\ f.offset = state[s].next_offset /\ f.entries = entries
    BY <1>2, <2>2 DEF Flush
  <2>. HIDE DEF st, f
  <2>5. /\ state' \in [Server -> LogState \cup {NotSynced}]
        /\ flushing' \in [Server -> Flush \cup {None}]
        /\ state'[s] = st /\ flushing'[s] = f
        /\ \A t \in Server \ {s} : state'[t] = state[t] /\ flushing'[t] = flushing[t]
    BY <1>1, <2>1, <2>3, <2>4 DEF Typed
  <2>6. Typed'
    BY <1>1, <1>2, <2>5 DEF Typed, dbVars
  <2>7. FlushLocks(s)' /\ FlushFilled(s)'
    BY <1>1, <2>3, <2>4, <2>5 DEF FlushLocks, FlushFilled
  <2>8. ASSUME NEW t \in Server, t # s PROVE FlushLocks(t)' /\ FlushFilled(t)'
    <3>1. flushing'[t] = flushing[t] /\ state'[t] = state[t] /\ syncing'[t] = syncing[t]
      BY <1>1, <2>5, <2>8
    <3>. QED
      BY <1>1, <3>1 DEF HoleInv, FlushLocks, FlushFilled, Filled, dbVars
  <2>9. metadata' # None => Filled(0, metadata.next_offset)'
    BY <1>1 DEF HoleInv, Filled, dbVars
  <2>. QED
    BY <2>6, <2>7, <2>8, <2>9 DEF HoleInv
<1>. QED
    BY <1>3, <1>4

LEMMA EndsTyped ==
    ASSUME Typed, NEW s \in Server, FlushEnds(s)
    PROVE  /\ flushing' \in [Server -> Flush \cup {None}] /\ flushing'[s] = None
           /\ \A t \in Server \ {s} : flushing'[t] = flushing[t]
BY DEF Typed, FlushEnds

(* What writing the rows of a batch makes of the table                     *)
LEMMA RowsOfBatch ==
    ASSUME Typed, NEW s \in Server, flushing[s] # None
    PROVE  LET f   == flushing[s]
               new == written(f)
           IN  /\ DOMAIN new \subseteq Nat /\ DOMAIN log \subseteq DOMAIN new
               /\ \A i \in 1..Len(f.entries) :
                     f.offset + i - 1 \in DOMAIN new /\ new[f.offset + i - 1] = f.entries[i]
               /\ \A o \in Nat : f.offset <= o /\ o < f.offset + Len(f.entries) =>
                     o \in DOMAIN new /\ new[o] = f.entries[o - f.offset + 1]
               /\ \A o \in DOMAIN new : \/ o \in DOMAIN log /\ new[o] = log[o]
                                        \/ f.offset <= o /\ o < f.offset + Len(f.entries)
<1>. DEFINE f == flushing[s]
            new == written(f)
            n == Len(f.entries)
            rows == f.offset..(f.offset + n - 1)
<1>1. f.offset \in Nat /\ n \in Nat
    BY StateTyped
<1>2. /\ DOMAIN new = DOMAIN log \cup rows
      /\ \A o \in DOMAIN new : new[o] = IF o \in rows THEN f.entries[o - f.offset + 1] ELSE log[o]
    BY DEF written
<1>3. DOMAIN log \subseteq Nat
    BY DEF Typed
<1>. HIDE DEF new, f
<1>4. \A o \in Nat : o \in rows <=> f.offset <= o /\ o < f.offset + n
    BY SMTT(30), <1>1
<1>5. rows \subseteq Nat
    BY SMTT(30), <1>1
<1>6. \A i \in 1..n : f.offset + i - 1 \in rows /\ (f.offset + i - 1) - f.offset + 1 = i
    BY SMTT(30), <1>1
<1>. HIDE DEF rows, n
<1>7. DOMAIN new \subseteq Nat /\ DOMAIN log \subseteq DOMAIN new
    BY <1>2, <1>3, <1>5
<1>8. \A o \in DOMAIN new : \/ o \in DOMAIN log /\ new[o] = log[o]
                            \/ f.offset <= o /\ o < f.offset + n
    BY <1>2, <1>4, <1>7
<1>9. \A i \in 1..n : f.offset + i - 1 \in DOMAIN new /\ new[f.offset + i - 1] = f.entries[i]
    BY <1>2, <1>6
<1>10. \A o \in Nat : f.offset <= o /\ o < f.offset + n =>
          o \in DOMAIN new /\ new[o] = f.entries[o - f.offset + 1]
    BY <1>2, <1>4
<1>. QED
    BY <1>7, <1>8, <1>9, <1>10 DEF f, new, n

LEMMA WriteEntriesHole ==
    ASSUME HoleInv, NEW s \in Server, writeEntries(s)
    PROVE  HoleInv'
<1>1. /\ UNCHANGED <<metadata, state, buffer, drained, syncing, trimming, trimmed>>
      /\ flushing[s] # None /\ Typed /\ log' \in {log, written(flushing[s])}
    BY DEF writeEntries, HoleInv
<1>2. DOMAIN log' \subseteq Nat /\ DOMAIN log \subseteq DOMAIN log'
  <2>1. DOMAIN log \subseteq Nat
    BY <1>1 DEF Typed
  <2>. QED
    BY <1>1, <2>1, RowsOfBatch
<1>3. CASE FlushEnds(s)
  <2>1. Typed'
    BY <1>1, <1>2, <1>3, EndsTyped DEF Typed
  <2>2. /\ \A t \in Server : flushing'[t] = flushing[t] \/ flushing'[t] = None
        /\ \A t \in Server : flushing'[t] # None => state'[t] = state[t] /\ syncing'[t] # "init"
    <3>1. \A t \in Server : flushing'[t] # None => flushing'[t] = flushing[t]
      BY <1>1, <1>3, EndsTyped
    <3>. QED
      BY <1>1, <3>1 DEF HoleInv, FlushLocks
  <2>. QED
    BY <1>1, <1>2, <2>1, <2>2, TableGrows
<1>4. CASE log' = written(flushing[s]) /\ FlushGoes(s, "metadata")
  <2>1. flushing' = [flushing EXCEPT ![s].at = "metadata"]
    BY <1>4 DEF FlushGoes
  <2>2. /\ flushing' \in [Server -> Flush \cup {None}]
        /\ flushing'[s].entries = flushing[s].entries
        /\ flushing'[s].offset = flushing[s].offset
        /\ \A t \in Server \ {s} : flushing'[t] = flushing[t]
    BY <1>1, <2>1, FlushMoves
  <2>3. Typed'
    BY <1>1, <1>2, <2>2 DEF Typed
  <2>4. FlushLocks(s)'
    BY <1>1, <2>2 DEF HoleInv, FlushLocks
  <2>5. FlushFilled(s)'
    <3>1. \A o \in Nat : flushing[s].offset <= o /\ o < flushing[s].offset + Len(flushing[s].entries)
             => o \in DOMAIN log'
      BY <1>1, <1>4, RowsOfBatch
    <3>. QED
      BY <2>2, <3>1 DEF FlushFilled, Filled
  <2>6. ASSUME NEW t \in Server, t # s PROVE FlushLocks(t)' /\ FlushFilled(t)'
    <3>1. flushing'[t] = flushing[t]
      BY <2>2, <2>6
    <3>2. FlushLocks(t)'
      BY <1>1, <3>1 DEF HoleInv, FlushLocks
    <3>3. FlushFilled(t)'
      BY <1>1, <1>2, <3>1 DEF HoleInv, FlushFilled, Filled
    <3>. QED
      BY <3>2, <3>3
  <2>7. metadata' # None => Filled(0, metadata.next_offset)'
    BY <1>1, <1>2 DEF HoleInv, Filled
  <2>. QED
    BY <2>3, <2>4, <2>5, <2>6, <2>7 DEF HoleInv
<1>. QED
    BY <1>3, <1>4 DEF writeEntries

LEMMA WriteMetadataHole ==
    ASSUME HoleInv, NEW s \in Server, writeMetadata(s)
    PROVE  HoleInv'
<1>. DEFINE f == flushing[s]
<1>1. /\ UNCHANGED <<log, state, buffer, drained, syncing, trimming, trimmed>>
      /\ f # None /\ f.at = "metadata" /\ Typed
      /\ metadata' \in {metadata, metadataAfter(f, state[s])}
      /\ FlushGoes(s, "verify") \/ FlushEnds(s)
    BY DEF writeMetadata, HoleInv
<1>2. metadata' = metadata \/ (metadata # None /\ metadata' = state[s])
    BY <1>1 DEF metadataAfter
<1>3. /\ state[s] \in LogState /\ state[s] # None /\ f.offset \in Nat /\ Len(f.entries) \in Nat
      /\ state[s].next_offset = f.offset + Len(f.entries)
  <2>1. state[s] # NotSynced /\ state[s].next_offset = f.offset + Len(f.entries)
    BY <1>1 DEF HoleInv, FlushLocks
  <2>. QED
    BY <1>1, <2>1, StateTyped
<1>4. /\ flushing' \in [Server -> Flush \cup {None}]
      /\ flushing'[s] # None => /\ flushing'[s].at = "verify"
                                /\ flushing'[s].entries = f.entries
                                /\ flushing'[s].offset = f.offset
      /\ \A t \in Server \ {s} : flushing'[t] = flushing[t]
  <2>1. CASE FlushEnds(s)
    BY <1>1, <2>1, EndsTyped
  <2>2. CASE FlushGoes(s, "verify")
    <3>1. flushing' = [flushing EXCEPT ![s].at = "verify"]
      BY <2>2 DEF FlushGoes
    <3>. QED
      BY <1>1, <3>1, FlushMoves
  <2>. QED
    BY <1>1, <2>1, <2>2
<1>5. Typed'
    BY <1>1, <1>2, <1>3, <1>4 DEF Typed
<1>6. FlushLocks(s)' /\ FlushFilled(s)'
    BY <1>1, <1>4 DEF HoleInv, FlushLocks, FlushFilled
<1>7. ASSUME NEW t \in Server, t # s PROVE FlushLocks(t)' /\ FlushFilled(t)'
  <2>1. flushing'[t] = flushing[t]
    BY <1>4, <1>7
  <2>. QED
    BY <1>1, <2>1 DEF HoleInv, FlushLocks, FlushFilled, Filled
<1>8. metadata' # None => Filled(0, metadata.next_offset)'
  <2>1. CASE metadata' = metadata
    BY <1>1, <2>1 DEF HoleInv, Filled
  <2>2. CASE metadata # None /\ metadata.next_offset = f.offset /\ metadata' = state[s]
    <3>1. Filled(0, f.offset) /\ Filled(f.offset, f.offset + Len(f.entries))
      BY <1>1, <2>2 DEF HoleInv, FlushFilled
    <3>2. Filled(0, f.offset + Len(f.entries))
      BY SMTT(30), <1>3, <3>1 DEF Filled
    <3>. QED
      BY <1>1, <1>3, <2>2, <3>2 DEF Filled
  <2>. QED
    BY <1>1, <2>1, <2>2 DEF metadataAfter
<1>. QED
    BY <1>5, <1>6, <1>7, <1>8 DEF HoleInv

LEMMA VerifyHole ==
    ASSUME HoleInv, NEW s \in Server, verify(s)
    PROVE  HoleInv'
<1>1. /\ UNCHANGED <<dbVars, buffer, drained, syncing, trimming, trimmed>>
      /\ state' = state \/ state' = [state EXCEPT ![s] = NotSynced]
      /\ FlushEnds(s) /\ Typed
    BY DEF verify, HoleInv
<1>2. Typed'
    BY <1>1, EndsTyped DEF Typed, dbVars
<1>3. \A t \in Server : flushing'[t] # None => /\ flushing'[t] = flushing[t]
                                               /\ state'[t] = state[t] /\ syncing'[t] # "init"
    BY <1>1, EndsTyped DEF HoleInv, Typed, FlushLocks
<1>. QED
    BY <1>1, <1>2, <1>3, TableGrows DEF dbVars

LEMMA TrimBeginHole ==
    ASSUME HoleInv, NEW s \in Server, NEW offset \in 0..MaxEntries, trimBegin(s, offset)
    PROVE  HoleInv'
<1>1. /\ UNCHANGED <<dbVars, state, buffer, drained, flushing, syncing, trimmed>>
      /\ trimming' = [trimming EXCEPT ![s] = [offset |-> offset, first |-> state[s].first_offset]]
    BY DEF trimBegin, historyVars
<1>2. offset \in Nat
    BY SMTT(30)
<1>3. Typed'
    BY <1>1, <1>2 DEF HoleInv, Typed, dbVars
<1>. QED
    BY <1>1, <1>3, TableGrows DEF dbVars, HoleInv, FlushLocks

(* What a trim that applies does to the database                           *)
LEMMA Trims ==
    ASSUME Typed, NEW s \in Server, trimming[s] # None, trimApplies(trimming[s]), TrimTable(trimming[s])
    PROVE  /\ metadata # None /\ metadata' # None /\ metadata' \in LogState
           /\ metadata'.next_offset = metadata.next_offset
           /\ trimmed' \in Nat /\ trimmed <= trimmed' /\ trimming[s].offset <= trimmed'
           /\ DOMAIN log' = {o \in DOMAIN log : o >= trimming[s].offset}
           /\ \A o \in DOMAIN log' : log'[o] = log[o]
<1>1. trimming[s].offset \in Nat /\ trimmed \in Nat /\ metadata \in LogState /\ metadata # None
    BY DEF Typed, trimApplies
<1>2. metadata' = [first_offset |-> trimming[s].offset, next_offset |-> metadata.next_offset]
    BY <1>1 DEF TrimTable, LogState
<1>3. metadata' \in LogState /\ metadata'.next_offset = metadata.next_offset
    BY <1>1, <1>2 DEF LogState
<1>4. trimmed' \in Nat /\ trimmed <= trimmed' /\ trimming[s].offset <= trimmed'
    BY SMTT(30), <1>1 DEF TrimTable
<1>5. /\ DOMAIN log' = {o \in DOMAIN log : o >= trimming[s].offset}
      /\ \A o \in DOMAIN log' : log'[o] = log[o]
    BY DEF TrimTable
<1>. QED
    BY <1>1, <1>3, <1>4, <1>5

LEMMA TrimBatchHole ==
    ASSUME HoleInv, NEW s \in Server, trimBatch(s)
    PROVE  HoleInv'
<1>1. /\ UNCHANGED <<state, buffer, drained, flushing>> /\ trimming[s] # None /\ Typed
      /\ trimming' = [trimming EXCEPT ![s] = None]
      /\ syncing' = syncing \/ syncing' = [syncing EXCEPT ![s] = "sync"]
      /\ \/ trimApplies(trimming[s]) /\ TrimTable(trimming[s])
         \/ UNCHANGED <<dbVars, trimmed>>
    BY DEF trimBatch, TrimAnswered, HoleInv
<1>2. /\ DOMAIN syncing' = Server /\ DOMAIN trimming' = Server
      /\ \A t \in Server : trimming'[t] # None => trimming'[t].offset \in Nat
      /\ \A t \in Server : syncing'[t] = "init" => syncing[t] = "init"
    BY <1>1 DEF Typed
<1>3. CASE UNCHANGED <<dbVars, trimmed>>
  <2>1. Typed'
    BY <1>1, <1>2, <1>3 DEF Typed, dbVars
  <2>. QED
    BY <1>1, <1>2, <1>3, <2>1, TableGrows DEF dbVars, HoleInv, FlushLocks
<1>4. CASE trimApplies(trimming[s]) /\ TrimTable(trimming[s])
  <2>1. /\ metadata # None /\ metadata' # None /\ metadata' \in LogState
        /\ metadata'.next_offset = metadata.next_offset
        /\ trimmed' \in Nat /\ trimmed <= trimmed' /\ trimming[s].offset <= trimmed'
        /\ DOMAIN log' = {o \in DOMAIN log : o >= trimming[s].offset}
    BY <1>1, <1>4, Trims
  <2>2. Typed'
    BY <1>1, <1>2, <2>1 DEF Typed
  <2>3. ASSUME NEW a, NEW b, Filled(a, b) PROVE \A o \in Nat : a <= o /\ o < b /\ trimmed' <= o => o \in DOMAIN log'
    <3>1. trimming[s].offset \in Nat /\ trimmed \in Nat
      BY <1>1 DEF Typed
    <3>. QED
      BY SMTT(30), <2>1, <2>3, <3>1 DEF Filled
  <2>4. ASSUME NEW t \in Server PROVE FlushLocks(t)' /\ FlushFilled(t)'
    <3>1. FlushLocks(t)'
      BY <1>1, <1>2 DEF HoleInv, FlushLocks
    <3>2. FlushFilled(t)'
      <4>1. CASE flushing[t] # None /\ flushing[t].at = "metadata"
        <5>1. Filled(flushing[t].offset, flushing[t].offset + Len(flushing[t].entries))
          BY <4>1 DEF HoleInv, FlushFilled
        <5>. QED
          BY <1>1, <2>3, <5>1 DEF FlushFilled, Filled
      <4>. QED
        BY <1>1, <4>1 DEF FlushFilled
    <3>. QED
      BY <3>1, <3>2
  <2>5. Filled(0, metadata.next_offset)'
    <3>1. Filled(0, metadata.next_offset)
      BY <2>1 DEF HoleInv
    <3>. QED
      BY <2>1, <2>3, <3>1 DEF Filled
  <2>. QED
    BY <2>2, <2>4, <2>5 DEF HoleInv
<1>. QED
    BY <1>1, <1>3, <1>4

LEMMA CrashHole ==
    ASSUME HoleInv, NEW s \in Server, crash(s)
    PROVE  HoleInv'
<1>1. /\ UNCHANGED <<dbVars, trimmed>> /\ Typed
      /\ state' = [state EXCEPT ![s] = NotSynced] /\ buffer' = [buffer EXCEPT ![s] = << >>]
      /\ drained' = [drained EXCEPT ![s] = {}] /\ flushing' = [flushing EXCEPT ![s] = None]
      /\ syncing' = [syncing EXCEPT ![s] = "no"] /\ trimming' = [trimming EXCEPT ![s] = None]
    BY DEF crash, HoleInv
<1>2. << >> \in Seq(Entry)
    BY SMTT(30)
<1>3. Typed'
    BY <1>1, <1>2 DEF Typed, dbVars
<1>4. \A t \in Server : flushing'[t] # None => /\ flushing'[t] = flushing[t]
                                               /\ state'[t] = state[t] /\ syncing'[t] # "init"
    BY <1>1 DEF HoleInv, Typed, FlushLocks
<1>. QED
    BY <1>1, <1>3, <1>4, TableGrows DEF dbVars, Typed

LEMMA InitHole ==
    Init => HoleInv
<1>. SUFFICES ASSUME Init PROVE HoleInv
    OBVIOUS
<1>1. DOMAIN << >> \subseteq Nat /\ << >> \in Seq(Entry)
    BY SMTT(30)
<1>2. Typed
    BY <1>1 DEF Init, Typed
<1>3. \A s \in Server : FlushLocks(s) /\ FlushFilled(s)
    BY DEF Init, FlushLocks, FlushFilled
<1>. QED
    BY <1>2, <1>3 DEF Init, HoleInv

LEMMA NextHole ==
    HoleInv /\ [Next]_vars => HoleInv'
<1>. SUFFICES ASSUME HoleInv, [Next]_vars PROVE HoleInv'
    OBVIOUS
<1>1. CASE Quiet \/ UNCHANGED vars
  <2>1. UNCHANGED <<log, metadata, state, buffer, drained, flushing, syncing, trimming, trimmed>>
    BY <1>1 DEF Quiet, vars, dbVars, serverVars, historyVars
  <2>. QED
    BY <2>1 DEF HoleInv, Typed, FlushLocks, FlushFilled, Filled
<1>2. CASE \E s \in Server : sync(s) \/ syncInit(s)
    BY <1>2, SyncHole, SyncInitHole
<1>3. CASE \E s \in Server : (\E e \in Entry : append_entry(s, e)) \/ drain(s)
    BY <1>3, BufferHole
<1>4. CASE \E s \in Server : \E entries \in drained[s] : flushBegin(s, entries)
    BY <1>4, FlushBeginHole
<1>5. CASE \E s \in Server : writeEntries(s)
    BY <1>5, WriteEntriesHole
<1>6. CASE \E s \in Server : writeMetadata(s)
    BY <1>6, WriteMetadataHole
<1>7. CASE \E s \in Server : verify(s)
    BY <1>7, VerifyHole
<1>8. CASE \E s \in Server : \E offset \in 0..MaxEntries : trimBegin(s, offset)
    BY <1>8, TrimBeginHole
<1>9. CASE \E s \in Server : trimBatch(s)
    BY <1>9, TrimBatchHole
<1>10. CASE \E s \in Server : crash(s)
    BY <1>10, CrashHole
<1>. QED
    BY <1>1, <1>2, <1>3, <1>4, <1>5, <1>6, <1>7, <1>8, <1>9, <1>10 DEF Next, flushStep

LEMMA HoleInvHolds ==
    Spec => []HoleInv
BY InitHole, NextHole, PTL DEF Spec

(* Every offset between the first and the next one of the metadata row     *)
(* holds an entry unless it was trimmed, whatever database calls fail,     *)
(* however many servers write the log and wherever they crash: rows are    *)
(* written before the conditional update that makes them part of the log.  *)
THEOREM NoHolesHolds ==
    Spec => []NoHoles
<1>1. HoleInv => NoHoles
  <2>. SUFFICES ASSUME HoleInv, metadata # None, metadata.first_offset # None,
                       NEW o \in metadata.first_offset..(metadata.next_offset - 1), o >= trimmed
                PROVE  o \in DOMAIN log
    BY DEF NoHoles
  <2>1. metadata \in LogState /\ trimmed \in Nat
    BY DEF HoleInv, Typed
  <2>2. metadata.first_offset \in Nat /\ metadata.next_offset \in Nat
    BY <2>1 DEF LogState
  <2>3. o \in Nat /\ o < metadata.next_offset /\ trimmed <= o
    BY SMTT(30), <2>1, <2>2
  <2>. QED
    BY SMTT(30), <2>3 DEF HoleInv, Filled
<1>. QED
    BY <1>1, HoleInvHolds, PTL

---------------------------------------------------------------------------
(* What was acknowledged is in the log: the parts of a step                *)

LEMMA SoleServer ==
    ASSUME AckInv, Alone, NEW s \in loaded
    PROVE  /\ s \in Server /\ s \in synced /\ Agrees(s) /\ WaitingApart(s)
           /\ \A t \in loaded : t = s
           /\ \A t \in Server : flushing[t] # None \/ trimming[t] # None => t = s
<1>1. loaded \subseteq synced /\ synced \subseteq Server /\ \A t \in Server : t \notin loaded => Unloaded(t)
    BY DEF AckInv, LoadInv, EntryTyped
<1>2. \A t \in loaded : t = s
    BY <1>1 DEF Alone
<1>3. \A t \in Server : flushing[t] # None \/ trimming[t] # None => t = s
    BY <1>1, <1>2 DEF Unloaded
<1>. QED
    BY <1>1, <1>2, <1>3 DEF AckInv

LEMMA RangeFacts ==
    /\ Range(<< >>) = {}
    /\ \A b \in Seq(Entry), e \in Entry : Range(Append(b, e)) = Range(b) \cup {e}
    /\ \A b \in Seq(Entry) : Range(b) \subseteq Entry
    /\ \A b \in Seq(Entry) : \A e : e \in Range(b) <=> \E i \in 1..Len(b) : b[i] = e
<1>1. Range(<< >>) = {}
    BY SMTT(30) DEF Range
<1>2. ASSUME NEW b \in Seq(Entry) PROVE \A e : e \in Range(b) <=> \E i \in 1..Len(b) : b[i] = e
    BY SMTT(30) DEF Range
<1>3. ASSUME NEW b \in Seq(Entry) PROVE Range(b) \subseteq Entry
    BY SMTT(30) DEF Range
<1>4. ASSUME NEW b \in Seq(Entry), NEW e \in Entry PROVE Range(Append(b, e)) = Range(b) \cup {e}
  <2>1. /\ Append(b, e) \in Seq(Entry) /\ Len(Append(b, e)) = Len(b) + 1 /\ Len(b) \in Nat
        /\ \A i \in 1..Len(b) : Append(b, e)[i] = b[i]
        /\ Append(b, e)[Len(b) + 1] = e
    BY SMTT(30)
  <2>2. \A x : x \in Range(Append(b, e)) <=> \E i \in 1..(Len(b) + 1) : Append(b, e)[i] = x
    BY <1>2, <2>1, ZenonT(40)
  <2>3. \A x : x \in Range(b) <=> \E i \in 1..Len(b) : b[i] = x
    BY <1>2
  <2>4. \A i : i \in 1..(Len(b) + 1) <=> i \in 1..Len(b) \/ i = Len(b) + 1
    BY SMTT(30), <2>1
  <2>. QED
    BY <2>1, <2>2, <2>3, <2>4
<1>. QED
    BY <1>1, <1>2, <1>3, <1>4

(* The server that acts has loaded the range.                              *)
LEMMA ActorLoaded ==
    ASSUME LoadInv, NEW s \in Server,
           \/ \E e \in Entry : append_entry(s, e)
           \/ flushStep(s)
           \/ \E offset \in 0..MaxEntries : trimBegin(s, offset)
           \/ trimBatch(s)
    PROVE  s \in loaded /\ UNCHANGED <<loaded, synced>>
<1>1. UNCHANGED <<loaded, synced>>
    BY DEF append_entry, flushStep, drain, flushBegin, writeEntries, writeMetadata, verify,
           trimBegin, trimBatch, historyVars
<1>2. \/ s \in loaded
      \/ buffer[s] # << >> \/ drained[s] # {} \/ flushing[s] # None \/ trimming[s] # None
      \/ state[s] # NotSynced
    BY DEF append_entry, flushStep, drain, flushBegin, writeEntries, writeMetadata, verify,
           trimBegin, trimBatch
<1>3. s \in loaded
    BY <1>2 DEF LoadInv, Unloaded
<1>. QED
    BY <1>1, <1>3

(* A step of a server that has loaded the range                            *)
LEMMA LoadedActs ==
    ASSUME AckInv, NEW s \in Server, s \in loaded, UNCHANGED <<loaded, synced>>,
           HoleInv', EntryTyped', failures' = 0 => failures = 0,
           \A t \in Server : syncing'[t] = "init" => syncing[t] = "init",
           metadata' = None => metadata = None,
           \A t \in Server \ {s} : /\ state'[t] = state[t] /\ buffer'[t] = buffer[t]
                                   /\ drained'[t] = drained[t] /\ flushing'[t] = flushing[t]
                                   /\ trimming'[t] = trimming[t],
           Alone /\ Alone' => Agrees(s)' /\ WaitingApart(s)' /\ Covered' /\ AckedFound'
    PROVE  AckInv'
<1>1. LoadInv'
  <2>1. loaded' \subseteq synced'
    BY DEF AckInv, LoadInv
  <2>2. \A t \in Server : t \notin loaded' => Unloaded(t)'
    BY DEF AckInv, LoadInv, Unloaded
  <2>3. \A t \in Server : syncing'[t] = "init" => t \notin synced'
    BY DEF AckInv, LoadInv
  <2>4. metadata' = None => synced' = {}
    BY DEF AckInv, LoadInv
  <2>5. synced' # {}
    BY DEF AckInv, LoadInv
  <2>. QED
    BY <2>1, <2>2, <2>3, <2>4, <2>5 DEF LoadInv
<1>2. ASSUME Alone'
      PROVE  /\ synced' = {} => metadata' = None
             /\ \A t \in loaded' : Agrees(t)' /\ WaitingApart(t)'
             /\ Covered' /\ AckedFound'
  <2>1. Alone
    BY <1>2 DEF Alone
  <2>2. \A t \in loaded' : t = s
    BY <2>1, SoleServer
  <2>3. synced' # {}
    BY DEF AckInv, LoadInv
  <2>. QED
    BY <1>2, <2>1, <2>2, <2>3
<1>. QED
    BY <1>1, <1>2 DEF AckInv

---------------------------------------------------------------------------
(* What was acknowledged is in the log: the steps                          *)

LEMMA SyncAck ==
    ASSUME AckInv, NEW s \in Server, sync(s)
    PROVE  AckInv'
<1>1. HoleInv'
    BY SyncHole DEF AckInv
<1>2. /\ UNCHANGED <<dbVars, buffer, drained, flushing, trimming, status, owner, trimmed, gone>>
      /\ flushing[s] = None /\ failures \in Nat /\ failures' \in Nat
      /\ failures' = 0 => failures = 0 /\ Succeeds
    BY SMTT(30) DEF sync, Locked, AckInv, EntryTyped, Fails, Succeeds
<1>3. /\ \/ metadata # None /\ synced' = synced \cup {s} /\ loaded' = loaded \cup {s}
         \/ UNCHANGED <<synced, loaded>> /\ state'[s] = NotSynced
      /\ \E st : state' = [state EXCEPT ![s] = st]
    BY DEF sync, AckInv, HoleInv, Typed
<1>4. EntryTyped'
  <2>1. synced' \subseteq Server
    BY <1>3 DEF AckInv, EntryTyped
  <2>. QED
    BY <1>2, <2>1 DEF AckInv, EntryTyped, dbVars
<1>5. LoadInv'
  <2>1. loaded' \subseteq synced'
    BY <1>3 DEF AckInv, LoadInv
  <2>2. ASSUME NEW t \in Server, t \notin loaded' PROVE Unloaded(t)'
    <3>1. Unloaded(t)
      BY <1>3, <2>2 DEF AckInv, LoadInv
    <3>2. state'[t] = NotSynced
      BY <1>3, <2>2, <3>1 DEF Unloaded, AckInv, HoleInv, Typed
    <3>. QED
      BY <1>2, <3>1, <3>2 DEF Unloaded
  <2>3. ASSUME NEW t \in Server, syncing'[t] = "init" PROVE t \notin synced'
    <3>1. CASE t = s
      <4>1. metadata = None /\ synced' = synced
        BY <2>3, <3>1 DEF sync, AckInv, HoleInv, Typed
      <4>. QED
        BY <4>1 DEF AckInv, LoadInv
    <3>2. CASE t # s
      <4>1. syncing[t] = "init"
        BY <2>3, <3>2 DEF sync, AckInv, HoleInv, Typed
      <4>. QED
        BY <1>3, <3>2, <4>1 DEF AckInv, LoadInv
    <3>. QED
      BY <3>1, <3>2
  <2>4. metadata' = None => synced' = {}
    BY <1>2, <1>3 DEF AckInv, LoadInv, dbVars
  <2>5. synced' = {} => synced = {}
    BY <1>3
  <2>. QED
    BY <1>2, <2>1, <2>2, <2>3, <2>4, <2>5 DEF AckInv, LoadInv, dbVars
<1>6. ASSUME Alone'
      PROVE  /\ synced' = {} => metadata' = None
             /\ \A t \in loaded' : Agrees(t)' /\ WaitingApart(t)'
             /\ Covered' /\ AckedFound'
  <2>1. Alone /\ Succeeds
    BY <1>2, <1>3, <1>6 DEF Alone
  <2>2. Covered' /\ AckedFound'
    BY <1>2, <2>1 DEF AckInv, Covered, Uncovered, AckedFound, Found, dbVars
  <2>3. CASE metadata = None
    <3>1. synced = {} /\ loaded = {} /\ synced' = synced /\ loaded' = loaded
      BY <1>3, <2>3 DEF AckInv, LoadInv
    <3>. QED
      BY <1>2, <2>2, <2>3, <3>1 DEF dbVars
  <2>4. CASE metadata # None
    <3>1. state' = [state EXCEPT ![s] = metadata] /\ synced' = synced \cup {s} /\ loaded' = loaded \cup {s}
      BY SMTT(30), <2>1, <2>4 DEF sync, Succeeds, Fails, AckInv, EntryTyped
    <3>2. \A t \in loaded' : t = s
      BY <1>5, <1>6, <3>1 DEF LoadInv, Alone
    <3>3. state'[s] = metadata /\ state'[s] # NotSynced
      BY <2>4, <3>1, SMTT(30) DEF AckInv, HoleInv, Typed, LogState, NotSynced
    <3>4. trimming[s] # None => trimming[s].offset <= metadata.next_offset
      BY <2>1, SoleServer DEF AckInv, LoadInv, Unloaded, Agrees
    <3>5. Agrees(s)'
      BY <1>2, <2>4, <3>3, <3>4 DEF Agrees, dbVars
    <3>6. WaitingApart(s)
      <4>1. CASE s \in loaded
        BY <2>1, <4>1, SoleServer
      <4>2. CASE s \notin loaded
        BY <4>2, RangeFacts DEF AckInv, LoadInv, Unloaded, WaitingApart, Waiting
      <4>. QED
        BY <4>1, <4>2
    <3>7. WaitingApart(s)'
      BY <1>2, <3>6 DEF WaitingApart, Waiting, Disjoint
    <3>. QED
      BY <2>2, <3>1, <3>2, <3>5, <3>7
  <2>. QED
    BY <2>3, <2>4
<1>. QED
    BY <1>1, <1>4, <1>5, <1>6 DEF AckInv

LEMMA SyncInitAck ==
    ASSUME AckInv, NEW s \in Server, syncInit(s)
    PROVE  AckInv'
<1>1. HoleInv'
    BY SyncInitHole DEF AckInv
<1>2. /\ UNCHANGED <<log, buffer, drained, flushing, trimming, status, owner, trimmed, gone>>
      /\ syncing' = [syncing EXCEPT ![s] = "no"] /\ syncing[s] = "init"
      /\ \/ /\ Succeeds /\ metadata' = NewLog /\ state' = [state EXCEPT ![s] = NewLog]
            /\ synced' = synced \cup {s} /\ loaded' = loaded \cup {s}
         \/ /\ failures' = failures + 1 /\ metadata' \in {metadata, NewLog}
            /\ UNCHANGED <<state, synced, loaded>>
      /\ s \notin synced /\ s \notin loaded /\ Unloaded(s)
  <2>1. syncing[s] = "init"
    BY DEF syncInit
  <2>2. s \notin synced /\ s \notin loaded /\ Unloaded(s)
    BY <2>1 DEF AckInv, LoadInv
  <2>. QED
    BY <2>2 DEF syncInit, Fails
<1>3. NewLog \in LogState /\ NewLog # None /\ NewLog # NotSynced
    BY SMTT(30) DEF NewLog, LogState, NotSynced
<1>4. EntryTyped'
  <2>1. synced' \subseteq Server
    BY <1>2 DEF AckInv, EntryTyped
  <2>2. failures' \in Nat
    BY SMTT(30), <1>2 DEF AckInv, EntryTyped, Succeeds
  <2>. QED
    BY <1>2, <2>1, <2>2 DEF AckInv, EntryTyped
<1>5. LoadInv'
  <2>1. loaded' \subseteq synced'
    BY <1>2 DEF AckInv, LoadInv
  <2>2. ASSUME NEW t \in Server, t \notin loaded' PROVE Unloaded(t)'
    <3>1. Unloaded(t)
      BY <1>2, <2>2 DEF AckInv, LoadInv
    <3>2. state'[t] = state[t]
      BY <1>2, <2>2 DEF AckInv, HoleInv, Typed
    <3>. QED
      BY <1>2, <3>1, <3>2 DEF Unloaded
  <2>3. \A t \in Server : syncing'[t] = "init" => t # s /\ syncing[t] = "init"
    BY <1>2 DEF AckInv, HoleInv, Typed
  <2>4. \A t \in Server : syncing'[t] = "init" => t \notin synced'
    BY <1>2, <2>3 DEF AckInv, LoadInv
  <2>5. metadata' = None => synced' = {}
    BY <1>2, <1>3 DEF AckInv, LoadInv
  <2>6. synced' = {} => synced = {}
    BY <1>2
  <2>. QED
    BY <1>2, <2>1, <2>2, <2>4, <2>5, <2>6 DEF AckInv, LoadInv
<1>6. ASSUME Alone'
      PROVE  /\ synced' = {} => metadata' = None
             /\ \A t \in loaded' : Agrees(t)' /\ WaitingApart(t)'
             /\ Covered' /\ AckedFound'
  <2>1. failures' # failures + 1
    BY <1>6, SMTT(30) DEF Alone, AckInv, EntryTyped
  <2>2. /\ metadata' = NewLog /\ state' = [state EXCEPT ![s] = NewLog]
        /\ synced' = synced \cup {s} /\ loaded' = loaded \cup {s}
    BY <1>2, <2>1
  <2>3. synced = {}
    BY <1>2, <1>6, <2>2 DEF Alone
  <2>4. loaded = {} /\ DOMAIN log = {} /\ \A e \in Entry : status[e] = "new"
    BY <2>3 DEF AckInv, LoadInv
  <2>5. Covered' /\ AckedFound'
    BY <1>2, <2>4 DEF Covered, AckedFound
  <2>6. state'[s] = NewLog
    BY <2>2 DEF AckInv, HoleInv, Typed
  <2>7. Agrees(s)'
    BY <1>2, <1>3, <2>2, <2>6 DEF Agrees, Unloaded
  <2>8. WaitingApart(s)'
    BY <1>2, RangeFacts DEF WaitingApart, Waiting, Unloaded
  <2>. QED
    BY <2>2, <2>4, <2>5, <2>7, <2>8
<1>. QED
    BY <1>1, <1>4, <1>5, <1>6 DEF AckInv

LEMMA AppendAck ==
    ASSUME AckInv, NEW s \in Server, NEW e \in Entry, append_entry(s, e)
    PROVE  AckInv'
<1>1. HoleInv' /\ s \in loaded /\ UNCHANGED <<loaded, synced>>
    BY BufferHole, ActorLoaded DEF AckInv
<1>2. /\ UNCHANGED <<dbVars, state, drained, flushing, syncing, trimming, trimmed, gone, failures>>
      /\ buffer' = [buffer EXCEPT ![s] = Append(buffer[s], e)]
      /\ status' = [status EXCEPT ![e] = "appended"] /\ status[e] = "new"
      /\ owner' = [owner EXCEPT ![e] = s]
    BY DEF append_entry
<1>3. /\ buffer[s] \in Seq(Entry) /\ buffer'[s] = Append(buffer[s], e)
      /\ \A t \in Server \ {s} : buffer'[t] = buffer[t]
      /\ drained[s] \subseteq Seq(Entry)
      /\ flushing[s] # None => flushing[s].entries \in Seq(Entry)
    BY <1>2, StateTyped DEF AckInv, HoleInv, Typed
<1>4. /\ status'[e] = "appended" /\ owner'[e] = s
      /\ \A d \in Entry \ {e} : status'[d] = status[d] /\ owner'[d] = owner[d]
    BY <1>2 DEF AckInv, EntryTyped
<1>5. EntryTyped'
    BY <1>1, <1>2 DEF AckInv, EntryTyped, dbVars
<1>6. ASSUME Alone PROVE Agrees(s)' /\ WaitingApart(s)' /\ Covered' /\ AckedFound'
  <2>1. Agrees(s) /\ WaitingApart(s) /\ Covered /\ AckedFound
    BY <1>1, <1>6 DEF AckInv
  <2>2. Agrees(s)'
    BY <1>2, <2>1 DEF Agrees, RowsWritten, dbVars
  <2>3. ASSUME NEW b \in Seq(Entry), Waiting(s, b)
        PROVE  Waiting(s, b)' /\ e \notin Range(b)
    <3>1. e \notin Range(b) /\ Range(b) \subseteq Entry
      BY <1>2, <2>3, RangeFacts DEF Waiting
    <3>. QED
      BY <1>4, <2>3, <3>1 DEF Waiting
  <2>4. Range(buffer'[s]) = Range(buffer[s]) \cup {e}
    BY <1>3, RangeFacts
  <2>5. WaitingApart(s)'
    <3>1. Waiting(s, buffer[s])'
      <4>1. \A d \in Range(buffer[s]) : status'[d] = "appended" /\ owner'[d] = s
        BY <1>3, <2>1, <2>3 DEF WaitingApart, Waiting
      <4>. QED
        BY <1>4, <2>4, <4>1 DEF Waiting
    <3>2. ASSUME NEW b \in drained[s]
          PROVE  /\ Waiting(s, b)' /\ Range(b) \cap Range(buffer'[s]) = {}
                 /\ \A d \in drained[s] : b # d => Disjoint(b, d)
      BY <1>3, <2>1, <2>3, <2>4, SMTT(30) DEF WaitingApart, Disjoint
    <3>3. ASSUME flushing[s] # None
          PROVE  /\ Waiting(s, flushing[s].entries)'
                 /\ Range(flushing[s].entries) \cap Range(buffer'[s]) = {}
                 /\ \A b \in drained[s] : Disjoint(flushing[s].entries, b)
      <4>1. PICK b : b = flushing[s].entries
        OBVIOUS
      <4>2. /\ b \in Seq(Entry) /\ Waiting(s, b) /\ Disjoint(b, buffer[s])
            /\ \A d \in drained[s] : Disjoint(b, d)
        BY <1>3, <2>1, <3>3, <4>1 DEF WaitingApart
      <4>3. Waiting(s, b)' /\ e \notin Range(b)
        BY <2>3, <4>2
      <4>. QED
        BY <1>2, <2>4, <4>1, <4>2, <4>3 DEF Disjoint, Waiting
    <3>. QED
      BY <1>2, <3>1, <3>2, <3>3 DEF WaitingApart, Waiting, Disjoint
  <2>6. Covered'
    <3>. SUFFICES ASSUME NEW o \in DOMAIN log, metadata # None, metadata.next_offset <= o
                  PROVE  Uncovered(o)'
      BY <1>2 DEF Covered, dbVars
    <3>1. Uncovered(o) /\ log[o] \in Entry
      BY <2>1 DEF Covered, AckInv, EntryTyped
    <3>. QED
      BY <1>2, <1>4, <3>1 DEF Uncovered, dbVars
  <2>7. AckedFound'
    BY <1>2, <1>4, <2>1 DEF AckedFound, Found, dbVars
  <2>. QED
    BY <2>2, <2>5, <2>6, <2>7
<1>. QED
    BY <1>1, <1>2, <1>3, <1>5, <1>6, LoadedActs DEF dbVars

LEMMA DrainAck ==
    ASSUME AckInv, NEW s \in Server, drain(s)
    PROVE  AckInv'
<1>1. HoleInv' /\ s \in loaded /\ UNCHANGED <<loaded, synced>>
    BY BufferHole, ActorLoaded DEF AckInv, flushStep
<1>2. /\ UNCHANGED <<dbVars, state, flushing, syncing, trimming, status, owner, gone, failures>>
      /\ buffer' = [buffer EXCEPT ![s] = << >>] /\ buffer[s] # << >>
      /\ drained' = [drained EXCEPT ![s] = drained[s] \cup {buffer[s]}]
    BY DEF drain, historyVars
<1>3. /\ buffer'[s] = << >> /\ drained'[s] = drained[s] \cup {buffer[s]}
      /\ \A t \in Server \ {s} : buffer'[t] = buffer[t] /\ drained'[t] = drained[t]
    BY <1>2 DEF AckInv, HoleInv, Typed
<1>4. EntryTyped'
    BY <1>1, <1>2, <1>3 DEF AckInv, EntryTyped, dbVars
<1>5. ASSUME Alone PROVE Agrees(s)' /\ WaitingApart(s)' /\ Covered' /\ AckedFound'
  <2>1. Agrees(s) /\ WaitingApart(s) /\ Covered /\ AckedFound
    BY <1>1, <1>5 DEF AckInv
  <2>2. Agrees(s)'
    BY <1>2, <2>1 DEF Agrees, RowsWritten, dbVars
  <2>3. Covered' /\ AckedFound'
    BY <1>2, <2>1 DEF Covered, Uncovered, AckedFound, Found, dbVars
  <2>4. \A b : Waiting(s, b) => Waiting(s, b)'
    BY <1>2 DEF Waiting
  <2>5. Waiting(s, buffer[s])' /\ \A b : Disjoint(b, buffer'[s])
    BY <1>3, RangeFacts DEF Waiting, Disjoint
  <2>6. ASSUME NEW b \in drained'[s]
        PROVE  Waiting(s, b)' /\ \A d \in drained'[s] : b # d => Disjoint(b, d)
    <3>1. Waiting(s, b)
      BY <1>3, <2>1, <2>6 DEF WaitingApart
    <3>2. ASSUME NEW d \in drained'[s], b # d PROVE Disjoint(b, d)
      BY <1>3, <2>1, <2>6, <3>2 DEF WaitingApart, Disjoint
    <3>. QED
      BY <2>4, <3>1, <3>2
  <2>7. ASSUME flushing[s] # None
        PROVE  /\ Waiting(s, flushing[s].entries)
               /\ \A b \in drained'[s] : Disjoint(flushing[s].entries, b)
    BY <1>3, <2>1, <2>7 DEF WaitingApart
  <2>8. WaitingApart(s)'
    BY <1>2, <2>5, <2>6, <2>7 DEF WaitingApart, Waiting, Disjoint
  <2>. QED
    BY <2>2, <2>3, <2>8
<1>. QED
    BY <1>1, <1>2, <1>3, <1>4, <1>5, LoadedActs DEF dbVars

LEMMA FlushBeginAck ==
    ASSUME AckInv, NEW s \in Server, NEW entries \in drained[s], flushBegin(s, entries)
    PROVE  AckInv'
<1>1. HoleInv' /\ s \in loaded /\ UNCHANGED <<loaded, synced>>
    BY FlushBeginHole, ActorLoaded DEF AckInv, flushStep
<1>2. /\ UNCHANGED <<dbVars, buffer, syncing, trimming, owner, gone, failures>>
      /\ drained' = [drained EXCEPT ![s] = drained[s] \ {entries}] /\ flushing[s] = None
      /\ \/ state[s] = NotSynced /\ Notify(entries) /\ UNCHANGED <<state, flushing>>
         \/ /\ state[s] # NotSynced /\ UNCHANGED status
            /\ state' = [state EXCEPT ![s] = afterOffsets(state[s], entries)]
            /\ flushing' = [flushing EXCEPT ![s] = [entries |-> entries, at |-> "entries",
                                                    offset |-> state[s].next_offset]]
    BY DEF flushBegin, Locked
<1>3. /\ drained'[s] = drained[s] \ {entries} /\ entries \in Seq(Entry) /\ entries # << >>
      /\ \A t \in Server \ {s} : /\ drained'[t] = drained[t] /\ flushing'[t] = flushing[t]
                                 /\ state'[t] = state[t]
    BY SMTT(30), <1>2 DEF AckInv, HoleInv, Typed, EntryTyped
<1>4. flushing'[s] = IF state[s] = NotSynced THEN None
                     ELSE [entries |-> entries, at |-> "entries", offset |-> state[s].next_offset]
    BY <1>2 DEF AckInv, HoleInv, Typed
<1>5. EntryTyped'
  <2>1. status' \in [Entry -> {"new", "appended", "acked", "lost"}]
    BY <1>2 DEF AckInv, EntryTyped, Notify
  <2>2. \A t \in Server : flushing'[t] # None => flushing'[t].entries # << >>
    BY <1>3, <1>4, SMTT(30) DEF AckInv, EntryTyped
  <2>3. \A t \in Server : << >> \notin drained'[t]
    BY <1>3 DEF AckInv, EntryTyped
  <2>. QED
    BY <1>1, <1>2, <2>1, <2>2, <2>3 DEF AckInv, EntryTyped, dbVars
<1>6. ASSUME Alone PROVE Agrees(s)' /\ WaitingApart(s)' /\ Covered' /\ AckedFound'
  <2>1. Agrees(s) /\ WaitingApart(s) /\ Covered /\ AckedFound
    BY <1>1, <1>6 DEF AckInv
  <2>2. /\ state[s] # NotSynced /\ metadata # None /\ UNCHANGED status
        /\ state[s].next_offset = metadata.next_offset /\ state[s].next_offset \in Nat
        /\ trimming[s] # None => trimming[s].offset <= metadata.next_offset
    BY <1>2, <2>1, StateTyped DEF Agrees, AckInv, HoleInv
  <2>3. /\ flushing'[s] # None /\ flushing'[s].entries = entries /\ flushing'[s].at = "entries"
        /\ flushing'[s].offset = metadata.next_offset
    <3>1. flushing'[s] = [entries |-> entries, at |-> "entries", offset |-> state[s].next_offset]
      BY <1>4, <2>2
    <3>2. flushing'[s] \in Flush
      BY <1>3, <2>2, <3>1, SMTT(30) DEF Flush
    <3>. QED
      BY <2>2, <3>1, <3>2, SMTT(30)
  <2>4. state'[s] # NotSynced
    BY <1>1, <2>3 DEF HoleInv, FlushLocks
  <2>5. Agrees(s)'
    BY <1>2, <2>2, <2>3, <2>4 DEF Agrees, dbVars
  <2>6. Covered'
    <3>. SUFFICES ASSUME NEW o \in DOMAIN log, metadata # None, metadata.next_offset <= o
                  PROVE  Uncovered(o)'
      BY <1>2 DEF Covered, dbVars
    <3>1. Uncovered(o)
      BY <2>1 DEF Covered
    <3>2. \A t \in Server : flushing[t] # None => flushing'[t] = flushing[t]
      BY <1>2, <1>3
    <3>. QED
      BY <1>2, <2>2, <3>1, <3>2 DEF Uncovered, dbVars
  <2>7. AckedFound'
    BY <1>2, <2>1, <2>2 DEF AckedFound, Found, dbVars
  <2>8. WaitingApart(s)'
    <3>1. \A b : Waiting(s, b) => Waiting(s, b)'
      BY <1>2, <2>2 DEF Waiting
    <3>2. Waiting(s, buffer[s])'
      BY <1>2, <2>1, <2>2 DEF WaitingApart, Waiting
    <3>3. \A b \in drained'[s] :
             /\ Waiting(s, b)' /\ Disjoint(b, buffer[s])
             /\ \A d \in drained'[s] : b # d => Disjoint(b, d)
      BY <1>3, <2>1, <3>1 DEF WaitingApart
    <3>4. /\ Waiting(s, entries)' /\ Disjoint(entries, buffer[s])
          /\ \A b \in drained'[s] : Disjoint(entries, b)
      BY <1>3, <2>1, <3>1 DEF WaitingApart
    <3>. QED
      BY <1>2, <2>3, <3>2, <3>3, <3>4 DEF WaitingApart, Waiting, Disjoint
  <2>. QED
    BY <2>5, <2>6, <2>7, <2>8
<1>. QED
    BY <1>1, <1>2, <1>3, <1>5, <1>6, LoadedActs DEF dbVars

(* A step of a flush after its start                                       *)
LEMMA FlushSteps ==
    ASSUME AckInv, NEW s \in Server, writeEntries(s) \/ writeMetadata(s) \/ verify(s)
    PROVE  /\ HoleInv' /\ s \in loaded /\ UNCHANGED <<loaded, synced>>
           /\ UNCHANGED <<buffer, drained, syncing, trimming, owner, gone>>
           /\ flushing[s] # None /\ flushing[s] \in Flush /\ flushing[s].entries \in Seq(Entry)
           /\ flushing[s].entries # << >>
           /\ failures \in Nat /\ failures' \in Nat /\ (failures' = 0 => failures = 0)
           /\ \/ FlushEnds(s)
              \/ \E there \in {"metadata", "verify"} : FlushGoes(s, there)
           /\ status' \in [Entry -> {"new", "appended", "acked", "lost"}]
           /\ \A t \in Server \ {s} : flushing'[t] = flushing[t]
           /\ \A t \in Server : flushing'[t] # None => flushing'[t].entries # << >>
<1>1. HoleInv'
    BY WriteEntriesHole, WriteMetadataHole, VerifyHole DEF AckInv
<1>2. s \in loaded /\ UNCHANGED <<loaded, synced>>
    BY ActorLoaded DEF AckInv, flushStep
<1>3. /\ UNCHANGED <<buffer, drained, syncing, trimming, owner, gone>> /\ flushing[s] # None
      /\ \/ FlushEnds(s)
         \/ \E there \in {"metadata", "verify"} : FlushGoes(s, there)
    BY DEF writeEntries, writeMetadata, verify
<1>4. failures \in Nat /\ failures' \in Nat /\ (failures' = 0 => failures = 0)
    BY SMTT(30) DEF writeEntries, writeMetadata, verify, Succeeds, Fails, AckInv, EntryTyped
<1>5. flushing[s] \in Flush /\ flushing[s].entries \in Seq(Entry) /\ flushing[s].entries # << >>
    BY <1>3, StateTyped DEF AckInv, HoleInv, EntryTyped
<1>6. status' \in [Entry -> {"new", "appended", "acked", "lost"}]
    BY <1>3 DEF FlushEnds, FlushGoes, Notify, AckInv, EntryTyped
<1>7. /\ \A t \in Server \ {s} : flushing'[t] = flushing[t]
      /\ flushing'[s] # None => flushing'[s].entries = flushing[s].entries
  <2>1. CASE FlushEnds(s)
    BY <2>1, EndsTyped DEF AckInv, HoleInv
  <2>2. ASSUME NEW there \in {"metadata", "verify"}, FlushGoes(s, there)
        PROVE  /\ \A t \in Server \ {s} : flushing'[t] = flushing[t]
               /\ flushing'[s].entries = flushing[s].entries
    <3>1. flushing' = [flushing EXCEPT ![s].at = there]
      BY <2>2 DEF FlushGoes
    <3>. QED
      BY <1>3, <3>1, FlushMoves DEF AckInv, HoleInv
  <2>. QED
    BY <1>3, <2>1, <2>2
<1>8. \A t \in Server : flushing'[t] # None => flushing'[t].entries # << >>
    BY <1>5, <1>7 DEF AckInv, EntryTyped
<1>. QED
    BY <1>1, <1>2, <1>3, <1>4, <1>5, <1>6, <1>7, <1>8

LEMMA WriteEntriesAck ==
    ASSUME AckInv, NEW s \in Server, writeEntries(s)
    PROVE  AckInv'
<1>. DEFINE f == flushing[s]
<1>1. /\ HoleInv' /\ s \in loaded /\ UNCHANGED <<loaded, synced>>
      /\ UNCHANGED <<buffer, drained, syncing, trimming, owner, gone>>
      /\ f # None /\ f \in Flush /\ f.entries \in Seq(Entry)
      /\ failures \in Nat /\ failures' \in Nat /\ (failures' = 0 => failures = 0)
      /\ status' \in [Entry -> {"new", "appended", "acked", "lost"}]
      /\ \A t \in Server \ {s} : flushing'[t] = flushing[t]
      /\ \A t \in Server : flushing'[t] # None => flushing'[t].entries # << >>
    BY FlushSteps
<1>2. UNCHANGED <<metadata, state>> /\ log' \in {log, written(f)} /\ f.at = "entries"
    BY DEF writeEntries
<1>3. /\ f.offset \in Nat /\ Len(f.entries) \in Nat
      /\ DOMAIN log \subseteq DOMAIN written(f)
      /\ \A i \in 1..Len(f.entries) :
            f.offset + i - 1 \in DOMAIN written(f) /\ written(f)[f.offset + i - 1] = f.entries[i]
      /\ \A o \in Nat : f.offset <= o /\ o < f.offset + Len(f.entries) =>
            written(f)[o] = f.entries[o - f.offset + 1]
      /\ \A o \in DOMAIN written(f) : \/ o \in DOMAIN log /\ written(f)[o] = log[o]
                                      \/ f.offset <= o /\ o < f.offset + Len(f.entries)
      /\ DOMAIN written(f) \subseteq Nat
    BY <1>1, RowsOfBatch, StateTyped DEF AckInv, HoleInv
<1>. HIDE DEF f
<1>4. EntryTyped'
  <2>1. \A o \in DOMAIN log : log[o] \in Entry
    BY DEF AckInv, EntryTyped
  <2>2. ASSUME NEW o \in DOMAIN written(f) PROVE written(f)[o] \in Entry
    <3>1. CASE f.offset <= o /\ o < f.offset + Len(f.entries)
      <4>1. o \in Nat /\ written(f)[o] = f.entries[o - f.offset + 1]
        BY <1>3, <3>1
      <4>2. PICK i \in 1..Len(f.entries) : i = o - f.offset + 1
        BY SMTT(30), <1>3, <3>1, <4>1
      <4>3. f.entries[i] \in Entry
        BY SMTT(30), <1>1
      <4>. QED
        BY <4>1, <4>2, <4>3
    <3>. QED
      BY <1>3, <2>1, <3>1
  <2>3. \A o \in DOMAIN log' : log'[o] \in Entry
    BY <1>2, <2>1, <2>2
  <2>. QED
    BY <1>1, <2>3 DEF AckInv, EntryTyped
<1>5. ASSUME Alone, Alone' PROVE Agrees(s)' /\ WaitingApart(s)' /\ Covered' /\ AckedFound'
  <2>1. Agrees(s) /\ WaitingApart(s) /\ Covered /\ AckedFound
    BY <1>1, <1>5 DEF AckInv
  <2>2. log' = written(f) /\ FlushGoes(s, "metadata")
    BY <1>1, <1>5, SMTT(30) DEF writeEntries, Alone, Fails, f
  <2>3. /\ UNCHANGED status
        /\ flushing'[s] # None /\ flushing'[s].entries = f.entries
        /\ flushing'[s].offset = f.offset /\ flushing'[s].at = "metadata"
    <3>1. flushing' = [flushing EXCEPT ![s].at = "metadata"] /\ UNCHANGED status
      BY <2>2 DEF FlushGoes
    <3>. QED
      BY <1>1, <3>1, FlushMoves DEF AckInv, HoleInv, f
  <2>4. /\ state[s] # NotSynced /\ metadata # None /\ f.offset = metadata.next_offset
        /\ trimming[s] # None => /\ trimming[s].offset <= metadata.next_offset
                                 /\ trimming[s].offset <= f.offset
    BY <1>1, <1>2, <2>1 DEF Agrees, f
  <2>5. Agrees(s)'
    <3>1. RowsWritten(flushing[s])'
      BY <1>3, <2>2, <2>3 DEF RowsWritten
    <3>. QED
      BY <1>1, <1>2, <2>3, <2>4, <3>1 DEF Agrees
  <2>6. WaitingApart(s)'
    BY <1>1, <2>1, <2>3 DEF WaitingApart, Waiting, Disjoint, f
  <2>7. Covered'
    <3>. SUFFICES ASSUME NEW o \in DOMAIN log', metadata # None, metadata.next_offset <= o
                  PROVE  Uncovered(o)'
      BY <1>2 DEF Covered
    <3>1. CASE f.offset <= o /\ o < f.offset + Len(f.entries)
      BY <2>3, <3>1 DEF Uncovered
    <3>2. CASE o \in DOMAIN log /\ log'[o] = log[o]
      <4>1. Uncovered(o)
        BY <2>1, <3>2 DEF Covered
      <4>2. \A t \in Server : flushing[t] # None /\ flushing[t].at = "metadata" => flushing'[t] = flushing[t]
        BY <1>1, <1>2 DEF f
      <4>. QED
        BY <2>3, <3>2, <4>1, <4>2 DEF Uncovered
    <3>. QED
      BY <1>3, <2>2, <3>1, <3>2
  <2>8. AckedFound'
    <3>1. ASSUME NEW e, Found(e) PROVE Found(e)'
      <4>1. PICK o \in DOMAIN log : log[o] = e /\ o < metadata.next_offset
        BY <3>1 DEF Found
      <4>2. o \in Nat /\ o \in DOMAIN log' /\ log'[o] = log[o]
        BY <1>3, <2>2, <2>4, <4>1, SMTT(30)
      <4>. QED
        BY <1>2, <2>4, <4>1, <4>2 DEF Found
    <3>. QED
      BY <1>1, <2>1, <2>3, <3>1 DEF AckedFound
  <2>. QED
    BY <2>5, <2>6, <2>7, <2>8
<1>. QED
    BY <1>1, <1>2, <1>4, <1>5, LoadedActs

LEMMA WriteMetadataAck ==
    ASSUME AckInv, NEW s \in Server, writeMetadata(s)
    PROVE  AckInv'
<1>. DEFINE f == flushing[s]
<1>1. /\ HoleInv' /\ s \in loaded /\ UNCHANGED <<loaded, synced>>
      /\ UNCHANGED <<buffer, drained, syncing, trimming, owner, gone>>
      /\ f # None /\ f \in Flush /\ f.entries \in Seq(Entry)
      /\ failures \in Nat /\ failures' \in Nat /\ (failures' = 0 => failures = 0)
      /\ status' \in [Entry -> {"new", "appended", "acked", "lost"}]
      /\ \A t \in Server \ {s} : flushing'[t] = flushing[t]
      /\ \A t \in Server : flushing'[t] # None => flushing'[t].entries # << >>
    BY FlushSteps
<1>2. /\ UNCHANGED <<log, state>> /\ f.at = "metadata"
      /\ metadata' = metadata \/ (metadata # None /\ metadata' = state[s])
    BY DEF writeMetadata, metadataAfter
<1>3. /\ state[s] # NotSynced /\ state[s] # None /\ state[s].next_offset = f.offset + Len(f.entries)
      /\ f.offset \in Nat /\ Len(f.entries) \in Nat
  <2>1. state[s] # NotSynced /\ state[s].next_offset = f.offset + Len(f.entries)
    BY <1>1 DEF AckInv, HoleInv, FlushLocks
  <2>. QED
    BY <1>1, <2>1, StateTyped DEF AckInv, HoleInv
<1>4. EntryTyped'
    BY <1>1, <1>2 DEF AckInv, EntryTyped
<1>. HIDE DEF f
<1>5. ASSUME Alone, Alone' PROVE Agrees(s)' /\ WaitingApart(s)' /\ Covered' /\ AckedFound'
  <2>1. Agrees(s) /\ WaitingApart(s) /\ Covered /\ AckedFound
    BY <1>1, <1>5 DEF AckInv
  <2>2. /\ metadata # None /\ f.offset = metadata.next_offset /\ RowsWritten(f)
        /\ trimming[s] # None => trimming[s].offset <= f.offset
    BY <1>1, <1>2, <2>1 DEF Agrees, f
  <2>3. metadata' = metadataAfter(f, state[s]) /\ FlushGoes(s, "verify")
    BY <1>1, <1>5, SMTT(30) DEF writeMetadata, Alone, Fails, f
  <2>4. metadata' = state[s] /\ metadata'.next_offset = f.offset + Len(f.entries)
    BY <1>3, <2>2, <2>3 DEF metadataAfter
  <2>5. /\ UNCHANGED status
        /\ flushing'[s] # None /\ flushing'[s].entries = f.entries
        /\ flushing'[s].offset = f.offset /\ flushing'[s].at = "verify"
    <3>1. flushing' = [flushing EXCEPT ![s].at = "verify"] /\ UNCHANGED status
      BY <2>3 DEF FlushGoes
    <3>. QED
      BY <1>1, <3>1, FlushMoves DEF AckInv, HoleInv, f
  <2>6. Agrees(s)'
    <3>1. RowsWritten(flushing[s])'
      BY <1>2, <2>2, <2>5 DEF RowsWritten
    <3>2. trimming[s] # None => /\ trimming[s].offset <= f.offset
                                /\ trimming[s].offset <= f.offset + Len(f.entries)
      <4>1. trimming[s] # None => trimming[s].offset \in Nat
        BY DEF AckInv, HoleInv, Typed
      <4>. QED
        BY SMTT(30), <1>3, <2>2, <4>1
    <3>. QED
      BY <1>1, <1>2, <1>3, <2>4, <2>5, <3>1, <3>2 DEF Agrees
  <2>7. WaitingApart(s)'
    BY <1>1, <2>1, <2>5 DEF WaitingApart, Waiting, Disjoint, f
  <2>8. Covered'
    <3>. SUFFICES ASSUME NEW o \in DOMAIN log, f.offset + Len(f.entries) <= o
                  PROVE  Uncovered(o)'
      BY <1>2, <2>4 DEF Covered
    <3>1. o \in Nat /\ metadata.next_offset <= o
      BY SMTT(30), <1>3, <2>2 DEF AckInv, HoleInv, Typed
    <3>2. Uncovered(o)
      BY <2>1, <2>2, <3>1 DEF Covered
    <3>3. \A t \in Server : flushing[t] # None => t = s
      BY <1>1, <1>5, SoleServer
    <3>4. status[log[o]] = "lost"
      BY <1>3, <3>1, <3>2, <3>3, SMTT(30) DEF Uncovered, f
    <3>. QED
      BY <1>2, <2>5, <3>4 DEF Uncovered
  <2>9. AckedFound'
    <3>1. ASSUME NEW e, Found(e) PROVE Found(e)'
      <4>1. PICK o \in DOMAIN log : log[o] = e /\ o < metadata.next_offset
        BY <3>1 DEF Found
      <4>2. o \in Nat /\ o < f.offset + Len(f.entries)
        BY SMTT(30), <1>3, <2>2, <4>1 DEF AckInv, HoleInv, Typed
      <4>. QED
        BY <1>2, <1>3, <2>4, <4>1, <4>2 DEF Found
    <3>. QED
      BY <1>1, <2>1, <2>5, <3>1 DEF AckedFound
  <2>. QED
    BY <2>6, <2>7, <2>8, <2>9
<1>. QED
    BY <1>1, <1>2, <1>3, <1>4, <1>5, LoadedActs

LEMMA VerifyAck ==
    ASSUME AckInv, NEW s \in Server, verify(s)
    PROVE  AckInv'
<1>. DEFINE f == flushing[s]
<1>1. /\ HoleInv' /\ s \in loaded /\ UNCHANGED <<loaded, synced>>
      /\ UNCHANGED <<buffer, drained, syncing, trimming, owner, gone>>
      /\ f # None /\ f \in Flush /\ f.entries \in Seq(Entry) /\ f.entries # << >>
      /\ failures \in Nat /\ failures' \in Nat /\ (failures' = 0 => failures = 0)
      /\ status' \in [Entry -> {"new", "appended", "acked", "lost"}]
      /\ \A t \in Server \ {s} : flushing'[t] = flushing[t]
      /\ \A t \in Server : flushing'[t] # None => flushing'[t].entries # << >>
    BY FlushSteps
<1>2. /\ UNCHANGED dbVars /\ f.at = "verify" /\ FlushEnds(s)
      /\ state' = state \/ state' = [state EXCEPT ![s] = NotSynced]
    BY DEF verify
<1>3. flushing'[s] = None /\ \A t \in Server \ {s} : state'[t] = state[t]
    BY <1>2, EndsTyped DEF AckInv, HoleInv, Typed
<1>4. \A e \in Entry : status'[e] = IF e \in Range(f.entries) THEN "acked" ELSE status[e]
    BY <1>2 DEF FlushEnds, Notify
<1>5. EntryTyped'
    BY <1>1, <1>2 DEF AckInv, EntryTyped, dbVars
<1>. HIDE DEF f
<1>6. ASSUME Alone, Alone' PROVE Agrees(s)' /\ WaitingApart(s)' /\ Covered' /\ AckedFound'
  <2>1. Agrees(s) /\ WaitingApart(s) /\ Covered /\ AckedFound
    BY <1>1, <1>6 DEF AckInv
  <2>2. /\ metadata # None /\ RowsWritten(f) /\ state[s] # NotSynced
        /\ f.offset + Len(f.entries) = metadata.next_offset
        /\ trimming[s] # None => trimming[s].offset <= metadata.next_offset
    BY <1>1, <1>2, <2>1 DEF Agrees, f
  <2>3. f.offset \in Nat /\ Len(f.entries) \in Nat /\ 1 \in 1..Len(f.entries)
    <3>1. f.offset \in Nat /\ Len(f.entries) \in Nat
      BY <1>1, StateTyped DEF AckInv, HoleInv, f
    <3>. QED
      BY SMTT(30), <1>1, <3>1
  <2>4. Written(f)
    <3>1. f.offset + 1 - 1 \in DOMAIN log /\ log[f.offset + 1 - 1] = f.entries[1]
      BY <2>2, <2>3 DEF RowsWritten
    <3>2. f.offset + 1 - 1 = f.offset
      BY SMTT(30), <2>3
    <3>. QED
      BY <3>1, <3>2 DEF Written
  <2>5. state' = state
    BY <1>1, <1>6, <2>4 DEF verify, f
  <2>6. state[s].next_offset = metadata.next_offset
    BY <1>1, <2>2 DEF AckInv, HoleInv, FlushLocks, f
  <2>7. Agrees(s)'
    BY <1>1, <1>2, <1>3, <2>2, <2>5, <2>6 DEF Agrees, dbVars
  <2>8. ASSUME NEW b \in Seq(Entry), Waiting(s, b), Disjoint(f.entries, b) PROVE Waiting(s, b)'
    <3>1. Range(b) \subseteq Entry
      BY RangeFacts
    <3>. QED
      BY <1>1, <1>4, <2>8, <3>1 DEF Waiting, Disjoint
  <2>9. WaitingApart(s)'
    <3>1. /\ buffer[s] \in Seq(Entry) /\ Waiting(s, buffer[s]) /\ Disjoint(f.entries, buffer[s])
          /\ \A b \in drained[s] : b \in Seq(Entry) /\ Waiting(s, b) /\ Disjoint(f.entries, b)
      BY <1>1, <2>1 DEF WaitingApart, AckInv, HoleInv, Typed, f
    <3>2. PICK b : b = buffer[s]
      OBVIOUS
    <3>3. Waiting(s, b)' /\ \A d \in drained[s] : Waiting(s, d)'
      BY <2>8, <3>1, <3>2
    <3>4. Waiting(s, buffer[s])'
      BY <1>1, <3>2, <3>3 DEF Waiting
    <3>5. \A d \in drained[s] : /\ Disjoint(d, buffer[s])
                                /\ \A c \in drained[s] : d # c => Disjoint(d, c)
      BY <2>1 DEF WaitingApart
    <3>. QED
      BY <1>1, <1>3, <3>3, <3>4, <3>5 DEF WaitingApart, Disjoint
  <2>10. \A e \in Range(f.entries) : status[e] = "appended"
    BY <1>1, <2>1 DEF WaitingApart, Waiting, f
  <2>11. Covered'
    <3>. SUFFICES ASSUME NEW o \in DOMAIN log, metadata.next_offset <= o
                  PROVE  Uncovered(o)'
      BY <1>2 DEF Covered, dbVars
    <3>1. Uncovered(o) /\ log[o] \in Entry
      BY <2>1, <2>2 DEF Covered, AckInv, EntryTyped
    <3>2. \A t \in Server : flushing[t] # None => t = s
      BY <1>1, <1>6, SoleServer
    <3>3. status[log[o]] = "lost"
      BY <1>2, <3>1, <3>2 DEF Uncovered, f
    <3>4. log[o] \notin Range(f.entries)
      BY <2>10, <3>3
    <3>5. status'[log[o]] = "lost"
      BY <1>4, <3>1, <3>3, <3>4
    <3>. QED
      BY <1>2, <3>5 DEF Uncovered, dbVars
  <2>12. AckedFound'
    <3>. SUFFICES ASSUME NEW e \in Entry, status'[e] = "acked"
                  PROVE  Found(e)' \/ e \in gone'
      BY DEF AckedFound
    <3>1. CASE e \in Range(f.entries)
      <4>1. PICK i \in 1..Len(f.entries) : f.entries[i] = e
        BY SMTT(30), <1>1, <3>1, RangeFacts
      <4>2. PICK o : o = f.offset + i - 1
        OBVIOUS
      <4>3. o \in DOMAIN log /\ log[o] = e
        BY <2>2, <4>1, <4>2 DEF RowsWritten
      <4>4. o < metadata.next_offset
        BY SMTT(30), <2>2, <2>3, <4>1, <4>2
      <4>5. Found(e)
        BY <2>2, <4>3, <4>4 DEF Found
      <4>. QED
        BY <1>2, <4>5 DEF Found, dbVars
    <3>2. CASE e \notin Range(f.entries)
      <4>1. Found(e) \/ e \in gone
        BY <1>4, <2>1, <3>2 DEF AckedFound
      <4>. QED
        BY <1>1, <1>2, <4>1 DEF Found, dbVars
    <3>. QED
      BY <3>1, <3>2
  <2>. QED
    BY <2>7, <2>9, <2>11, <2>12
<1>. QED
    BY <1>1, <1>2, <1>3, <1>5, <1>6, LoadedActs DEF dbVars

LEMMA TrimBeginAck ==
    ASSUME AckInv, NEW s \in Server, NEW offset \in 0..MaxEntries, trimBegin(s, offset)
    PROVE  AckInv'
<1>1. HoleInv' /\ s \in loaded /\ UNCHANGED <<loaded, synced>>
    BY TrimBeginHole, ActorLoaded DEF AckInv
<1>2. /\ UNCHANGED <<dbVars, state, buffer, drained, flushing, syncing, status, owner, gone, failures>>
      /\ flushing[s] = None /\ state[s] # NotSynced /\ state[s].first_offset # None
      /\ offset \in state[s].first_offset..state[s].next_offset
      /\ trimming' = [trimming EXCEPT ![s] = [offset |-> offset, first |-> state[s].first_offset]]
    BY DEF trimBegin, historyVars, Locked
<1>3. /\ trimming'[s].offset = offset
      /\ \A t \in Server \ {s} : trimming'[t] = trimming[t]
    BY <1>2 DEF AckInv, HoleInv, Typed
<1>4. offset <= state[s].next_offset
  <2>1. state[s].next_offset \in Nat /\ state[s].first_offset \in Nat
    BY <1>2, StateTyped DEF AckInv, HoleInv
  <2>. QED
    BY <1>2, <2>1, SMTT(30)
<1>5. EntryTyped'
    BY <1>1, <1>2 DEF AckInv, EntryTyped, dbVars
<1>6. ASSUME Alone PROVE Agrees(s)' /\ WaitingApart(s)' /\ Covered' /\ AckedFound'
  <2>1. Agrees(s) /\ WaitingApart(s) /\ Covered /\ AckedFound
    BY <1>1, <1>6 DEF AckInv
  <2>2. Agrees(s)'
    BY <1>2, <1>3, <1>4, <2>1 DEF Agrees, dbVars
  <2>3. WaitingApart(s)'
    BY <1>2, <2>1 DEF WaitingApart, Waiting, Disjoint
  <2>4. Covered' /\ AckedFound'
    BY <1>2, <2>1 DEF Covered, Uncovered, AckedFound, Found, dbVars
  <2>. QED
    BY <2>2, <2>3, <2>4
<1>. QED
    BY <1>1, <1>2, <1>3, <1>5, <1>6, LoadedActs DEF dbVars

LEMMA TrimBatchAck ==
    ASSUME AckInv, NEW s \in Server, trimBatch(s)
    PROVE  AckInv'
<1>. DEFINE t0 == trimming[s]
<1>1. HoleInv' /\ s \in loaded /\ UNCHANGED <<loaded, synced>>
    BY TrimBatchHole, ActorLoaded DEF AckInv
<1>2. /\ UNCHANGED <<state, buffer, drained, flushing, status, owner>> /\ t0 # None
      /\ trimming' = [trimming EXCEPT ![s] = None]
      /\ syncing' = syncing \/ syncing' = [syncing EXCEPT ![s] = "sync"]
      /\ \/ trimApplies(t0) /\ TrimTable(t0)
         \/ UNCHANGED <<dbVars, gone>>
    BY DEF trimBatch, TrimAnswered
<1>3. failures \in Nat /\ failures' \in Nat /\ (failures' = 0 => failures = 0)
    BY SMTT(30) DEF trimBatch, Succeeds, Fails, AckInv, EntryTyped
<1>4. /\ trimming'[s] = None /\ \A t \in Server \ {s} : trimming'[t] = trimming[t]
      /\ \A t \in Server : syncing'[t] = "init" => syncing[t] = "init"
    BY <1>2 DEF AckInv, HoleInv, Typed
<1>5. /\ metadata' = None => metadata = None
      /\ metadata' # None => metadata'.next_offset = metadata.next_offset
      /\ DOMAIN log' \subseteq DOMAIN log
      /\ \A o \in DOMAIN log' : log'[o] = log[o]
      /\ \A o \in DOMAIN log : t0.offset <= o => o \in DOMAIN log'
  <2>1. CASE UNCHANGED <<dbVars, gone>>
    BY <2>1 DEF dbVars
  <2>2. CASE trimApplies(t0) /\ TrimTable(t0)
    <3>1. /\ metadata # None /\ metadata' # None
          /\ metadata'.next_offset = metadata.next_offset
          /\ DOMAIN log' = {o \in DOMAIN log : o >= t0.offset}
          /\ \A o \in DOMAIN log' : log'[o] = log[o]
      BY <1>2, <2>2, Trims DEF AckInv, HoleInv
    <3>2. t0.offset \in Nat /\ DOMAIN log \subseteq Nat
      BY <1>2 DEF AckInv, HoleInv, Typed
    <3>3. \A o \in DOMAIN log : t0.offset <= o => o \in DOMAIN log'
      BY <3>1, <3>2
    <3>. QED
      BY <3>1, <3>3
  <2>. QED
    BY <1>2, <2>1, <2>2
<1>6. EntryTyped'
    BY <1>1, <1>2, <1>3, <1>5 DEF AckInv, EntryTyped
<1>7. ASSUME Alone PROVE Agrees(s)' /\ WaitingApart(s)' /\ Covered' /\ AckedFound'
  <2>1. Agrees(s) /\ WaitingApart(s) /\ Covered /\ AckedFound
    BY <1>1, <1>7 DEF AckInv
  <2>2. \A t \in Server : flushing[t] # None => t = s
    BY <1>1, <1>7, SoleServer
  <2>3. metadata # None /\ metadata' # None /\ metadata'.next_offset = metadata.next_offset
    BY <1>5, <2>1 DEF Agrees
  <2>4. Agrees(s)'
    <3>1. ASSUME flushing[s] # None, RowsWritten(flushing[s])
          PROVE  RowsWritten(flushing[s])'
      <4>1. /\ t0.offset <= flushing[s].offset /\ t0.offset \in Nat
            /\ flushing[s].offset \in Nat /\ Len(flushing[s].entries) \in Nat
        BY <1>2, <2>1, <3>1, StateTyped DEF Agrees, AckInv, HoleInv, Typed
      <4>2. ASSUME NEW i \in 1..Len(flushing[s].entries)
            PROVE  /\ flushing[s].offset + i - 1 \in DOMAIN log'
                   /\ log'[flushing[s].offset + i - 1] = flushing[s].entries[i]
        <5>1. t0.offset <= flushing[s].offset + i - 1
          BY SMTT(30), <4>1
        <5>2. flushing[s].offset + i - 1 \in DOMAIN log /\ log[flushing[s].offset + i - 1] = flushing[s].entries[i]
          BY <3>1 DEF RowsWritten
        <5>. QED
          BY <1>5, <5>1, <5>2
      <4>. QED
        BY <1>2, <4>2 DEF RowsWritten
    <3>. QED
      BY <1>2, <1>4, <2>1, <2>3, <3>1 DEF Agrees
  <2>5. WaitingApart(s)'
    BY <1>2, <2>1 DEF WaitingApart, Waiting, Disjoint
  <2>6. Covered'
    BY <1>2, <1>5, <2>1, <2>3 DEF Covered, Uncovered
  <2>7. ASSUME NEW o \in DOMAIN log, status[log[o]] = "acked" PROVE o < metadata.next_offset
    <3>. SUFFICES ASSUME metadata.next_offset <= o PROVE FALSE
      BY <2>3, StateTyped, SMTT(30) DEF AckInv, HoleInv, Typed
    <3>1. Uncovered(o)
      BY <2>1, <2>3 DEF Covered
    <3>2. /\ flushing[s] # None /\ flushing[s].at = "metadata" /\ flushing[s].offset <= o
          /\ o < flushing[s].offset + Len(flushing[s].entries)
      BY <2>2, <2>7, <3>1 DEF Uncovered
    <3>3. /\ RowsWritten(flushing[s]) /\ Waiting(s, flushing[s].entries)
          /\ flushing[s].offset \in Nat /\ flushing[s].entries \in Seq(Entry)
          /\ Len(flushing[s].entries) \in Nat /\ o \in Nat
      BY <2>1, <3>2, StateTyped DEF Agrees, WaitingApart, AckInv, HoleInv, Typed
    <3>4. PICK i \in 1..Len(flushing[s].entries) : o = flushing[s].offset + i - 1
      <4>1. o - flushing[s].offset + 1 \in 1..Len(flushing[s].entries)
        BY SMTT(30), <3>2, <3>3
      <4>2. o = flushing[s].offset + (o - flushing[s].offset + 1) - 1
        BY SMTT(30), <3>3
      <4>. QED
        BY <4>1, <4>2
    <3>5. log[o] = flushing[s].entries[i] /\ flushing[s].entries[i] \in Range(flushing[s].entries)
      BY <3>3, <3>4, RangeFacts DEF RowsWritten
    <3>. QED
      BY <2>7, <3>3, <3>5 DEF Waiting
  <2>8. AckedFound'
    <3>. SUFFICES ASSUME NEW e \in Entry, status[e] = "acked"
                  PROVE  Found(e)' \/ e \in gone'
      BY <1>2 DEF AckedFound
    <3>1. CASE UNCHANGED <<dbVars, gone>>
      BY <2>1, <3>1 DEF AckedFound, Found, dbVars
    <3>2. CASE TrimTable(t0)
      <4>1. gone' = gone \cup (Range(log) \ Range(log'))
        BY <3>2 DEF TrimTable
      <4>2. CASE e \in Range(log')
        <5>1. PICK o \in DOMAIN log' : log'[o] = e
          BY <4>2 DEF Range
        <5>2. o \in DOMAIN log /\ log[o] = e
          BY <1>5, <5>1
        <5>3. o < metadata'.next_offset
          BY <2>3, <2>7, <5>2
        <5>. QED
          BY <2>3, <5>1, <5>3 DEF Found
      <4>3. CASE e \notin Range(log')
        <5>1. e \in Range(log) \/ e \in gone
          BY <2>1 DEF AckedFound, Found, Range
        <5>. QED
          BY <4>1, <4>3, <5>1
      <4>. QED
        BY <4>2, <4>3
    <3>. QED
      BY <1>2, <3>1, <3>2
  <2>. QED
    BY <2>4, <2>5, <2>6, <2>8
<1>. QED
    BY <1>1, <1>2, <1>3, <1>4, <1>5, <1>6, <1>7, LoadedActs

LEMMA CrashAck ==
    ASSUME AckInv, NEW s \in Server, crash(s)
    PROVE  AckInv'
<1>1. HoleInv'
    BY CrashHole DEF AckInv
<1>2. /\ UNCHANGED <<dbVars, owner, synced, trimmed, gone, failures>> /\ loaded' = loaded \ {s}
      /\ \A e \in Entry : status'[e] = IF owner[e] = s /\ status[e] = "appended" THEN "lost"
                                       ELSE status[e]
    BY DEF crash
<1>3. Unloaded(s)' /\ syncing'[s] = "no"
    BY DEF crash, Unloaded, AckInv, HoleInv, Typed
<1>4. \A t \in Server \ {s} :
         /\ state'[t] = state[t] /\ buffer'[t] = buffer[t] /\ drained'[t] = drained[t]
         /\ flushing'[t] = flushing[t] /\ trimming'[t] = trimming[t] /\ syncing'[t] = syncing[t]
    BY DEF crash, AckInv, HoleInv, Typed
<1>5. EntryTyped'
  <2>1. status' \in [Entry -> {"new", "appended", "acked", "lost"}]
    BY DEF crash, AckInv, EntryTyped
  <2>2. \A t \in Server : << >> \notin drained'[t]
    BY <1>3, <1>4 DEF Unloaded, AckInv, EntryTyped
  <2>3. \A t \in Server : flushing'[t] # None => flushing'[t].entries # << >>
    BY <1>3, <1>4 DEF Unloaded, AckInv, EntryTyped
  <2>. QED
    BY <1>2, <2>1, <2>2, <2>3 DEF AckInv, EntryTyped, dbVars
<1>6. LoadInv'
  <2>1. loaded' \subseteq synced'
    BY <1>2 DEF AckInv, LoadInv
  <2>2. ASSUME NEW t \in Server, t # s, t \notin loaded' PROVE Unloaded(t)'
    BY <1>2, <1>4, <2>2 DEF AckInv, LoadInv, Unloaded
  <2>3. \A t \in Server : syncing'[t] = "init" => t \notin synced'
    BY <1>2, <1>3, <1>4 DEF AckInv, LoadInv
  <2>4. metadata' = None => synced' = {}
    BY <1>2 DEF AckInv, LoadInv, dbVars
  <2>5. synced' = {} => DOMAIN log' = {} /\ \A e \in Entry : status'[e] = "new"
    BY <1>2 DEF AckInv, LoadInv, dbVars
  <2>. QED
    BY <1>3, <2>1, <2>2, <2>3, <2>4, <2>5 DEF LoadInv
<1>7. ASSUME Alone'
      PROVE  /\ synced' = {} => metadata' = None
             /\ \A t \in loaded' : Agrees(t)' /\ WaitingApart(t)'
             /\ Covered' /\ AckedFound'
  <2>1. Alone /\ Covered /\ AckedFound
    BY <1>2, <1>7 DEF Alone, AckInv
  <2>2. synced' = {} => metadata' = None
    BY <1>2, <2>1 DEF AckInv, dbVars
  <2>3. ASSUME NEW t \in loaded' PROVE Agrees(t)' /\ WaitingApart(t)'
    <3>1. t \in Server \ {s} /\ Agrees(t) /\ WaitingApart(t)
      BY <1>2, <2>1, SoleServer
    <3>2. /\ state'[t] = state[t] /\ buffer'[t] = buffer[t] /\ drained'[t] = drained[t]
          /\ flushing'[t] = flushing[t] /\ trimming'[t] = trimming[t]
      BY <1>4, <3>1
    <3>3. Agrees(t)'
      BY <1>2, <3>1, <3>2 DEF Agrees, RowsWritten, dbVars
    <3>4. ASSUME NEW b \in Seq(Entry), Waiting(t, b) PROVE Waiting(t, b)'
      <4>1. Range(b) \subseteq Entry
        BY RangeFacts
      <4>. QED
        BY <1>2, <3>1, <3>4, <4>1 DEF Waiting
    <3>5. /\ buffer[t] \in Seq(Entry) /\ \A b \in drained[t] : b \in Seq(Entry)
          /\ flushing[t] # None => flushing[t].entries \in Seq(Entry)
      BY <3>1, StateTyped DEF AckInv, HoleInv, Typed
    <3>6. PICK b, c : b = buffer[t] /\ c = flushing[t].entries
      OBVIOUS
    <3>7. /\ Waiting(t, b)' /\ \A d \in drained[t] : Waiting(t, d)'
          /\ flushing[t] # None => Waiting(t, c)'
      BY <3>1, <3>4, <3>5, <3>6 DEF WaitingApart
    <3>8. WaitingApart(t)'
      BY <3>1, <3>2, <3>6, <3>7 DEF WaitingApart, Disjoint, Waiting
    <3>. QED
      BY <3>3, <3>8
  <2>4. Covered'
    <3>. SUFFICES ASSUME NEW o \in DOMAIN log, metadata # None, metadata.next_offset <= o
                  PROVE  Uncovered(o)'
      BY <1>2 DEF Covered, dbVars
    <3>1. Uncovered(o) /\ log[o] \in Entry
      BY <2>1 DEF Covered, AckInv, EntryTyped
    <3>2. CASE status[log[o]] = "lost"
      BY <1>2, <3>1, <3>2 DEF Uncovered, dbVars
    <3>3. ASSUME NEW t \in Server, t # s, flushing[t] # None, flushing[t].at = "metadata",
                 flushing[t].offset <= o, o < flushing[t].offset + Len(flushing[t].entries)
          PROVE  Uncovered(o)'
      BY <1>4, <3>3 DEF Uncovered
    <3>4. ASSUME flushing[s] # None, flushing[s].at = "metadata",
                 flushing[s].offset <= o, o < flushing[s].offset + Len(flushing[s].entries)
          PROVE  Uncovered(o)'
      <4>1. s \in loaded
        BY <3>4 DEF AckInv, LoadInv, Unloaded
      <4>2. /\ RowsWritten(flushing[s]) /\ Waiting(s, flushing[s].entries)
            /\ flushing[s].offset \in Nat /\ flushing[s].entries \in Seq(Entry)
            /\ Len(flushing[s].entries) \in Nat /\ o \in Nat
        BY <2>1, <3>4, <4>1, SoleServer, StateTyped DEF Agrees, WaitingApart, AckInv, HoleInv, Typed
      <4>3. PICK i \in 1..Len(flushing[s].entries) : o = flushing[s].offset + i - 1
        <5>1. o - flushing[s].offset + 1 \in 1..Len(flushing[s].entries)
          BY SMTT(30), <3>4, <4>2
        <5>2. o = flushing[s].offset + (o - flushing[s].offset + 1) - 1
          BY SMTT(30), <4>2
        <5>. QED
          BY <5>1, <5>2
      <4>4. log[o] = flushing[s].entries[i] /\ flushing[s].entries[i] \in Range(flushing[s].entries)
        BY <4>2, <4>3, RangeFacts DEF RowsWritten
      <4>5. status[log[o]] = "appended" /\ owner[log[o]] = s
        BY <4>2, <4>4 DEF Waiting
      <4>. QED
        BY <1>2, <3>1, <4>5 DEF Uncovered, dbVars
    <3>. QED
      BY <3>1, <3>2, <3>3, <3>4, SMTT(30) DEF Uncovered
  <2>5. AckedFound'
    BY <1>2, <2>1 DEF AckedFound, Found, dbVars
  <2>. QED
    BY <2>2, <2>3, <2>4, <2>5
<1>. QED
    BY <1>1, <1>5, <1>6, <1>7 DEF AckInv

LEMMA InitAck ==
    Init => AckInv
<1>. SUFFICES ASSUME Init PROVE AckInv
    OBVIOUS
<1>1. HoleInv
    BY InitHole
<1>2. DOMAIN log = {}
    BY SMTT(30) DEF Init
<1>3. EntryTyped
    BY <1>2 DEF Init, EntryTyped
<1>4. LoadInv
    BY <1>2 DEF Init, LoadInv, Unloaded
<1>5. Covered /\ AckedFound
    BY <1>2 DEF Init, Covered, AckedFound
<1>. QED
    BY <1>1, <1>3, <1>4, <1>5 DEF AckInv, Init

LEMMA NextAck ==
    AckInv /\ [Next]_vars => AckInv'
<1>. SUFFICES ASSUME AckInv, [Next]_vars PROVE AckInv'
    OBVIOUS
<1>1. CASE Quiet \/ UNCHANGED vars
  <2>1. UNCHANGED <<log, metadata, state, buffer, drained, flushing, syncing, loaded, trimming,
                    status, owner, synced, trimmed, gone, failures>>
    BY <1>1 DEF Quiet, vars, dbVars, serverVars, historyVars
  <2>2. HoleInv'
    BY NextHole DEF AckInv
  <2>3. EntryTyped'
    BY <2>1 DEF AckInv, EntryTyped
  <2>4. LoadInv'
    BY <2>1 DEF AckInv, LoadInv, Unloaded
  <2>5. Alone' => Alone
    BY <2>1 DEF Alone
  <2>6. Alone => Covered' /\ AckedFound'
    BY <2>1 DEF AckInv, Covered, Uncovered, AckedFound, Found
  <2>7. Alone => \A s \in loaded' : Agrees(s)'
    BY ZenonT(60), <2>1 DEF AckInv, Agrees, RowsWritten
  <2>8. Alone => \A s \in loaded' : WaitingApart(s)'
    BY <2>1, SMTT(30) DEF AckInv, WaitingApart, Waiting, Disjoint
  <2>9. Alone => (synced' = {} => metadata' = None)
    BY <2>1 DEF AckInv
  <2>. QED
    BY <2>2, <2>3, <2>4, <2>5, <2>6, <2>7, <2>8, <2>9 DEF AckInv
<1>2. CASE \E s \in Server : sync(s) \/ syncInit(s)
    BY <1>2, SyncAck, SyncInitAck
<1>3. CASE \E s \in Server : (\E e \in Entry : append_entry(s, e)) \/ drain(s)
    BY <1>3, AppendAck, DrainAck
<1>4. CASE \E s \in Server : \E entries \in drained[s] : flushBegin(s, entries)
    BY <1>4, FlushBeginAck
<1>5. CASE \E s \in Server : writeEntries(s)
    BY <1>5, WriteEntriesAck
<1>6. CASE \E s \in Server : writeMetadata(s)
    BY <1>6, WriteMetadataAck
<1>7. CASE \E s \in Server : verify(s)
    BY <1>7, VerifyAck
<1>8. CASE \E s \in Server : \E offset \in 0..MaxEntries : trimBegin(s, offset)
    BY <1>8, TrimBeginAck
<1>9. CASE \E s \in Server : trimBatch(s)
    BY <1>9, TrimBatchAck
<1>10. CASE \E s \in Server : crash(s)
    BY <1>10, CrashAck
<1>. QED
    BY <1>1, <1>2, <1>3, <1>4, <1>5, <1>6, <1>7, <1>8, <1>9, <1>10 DEF Next, flushStep

LEMMA AckInvHolds ==
    Spec => []AckInv
BY InitAck, NextAck, PTL DEF Spec

(* A record that a caller of append was told is flushed can be found below *)
(* the next offset of the metadata row, or was trimmed, as long as no      *)
(* database call failed and one server wrote the log: its crashes lose no  *)
(* acknowledged record, and its trims remove none that a flush still needs.*)
THEOREM AckedUnlessFailedHolds ==
    Spec => []AckedUnlessFailed
<1>1. AckInv => AckedUnlessFailed
    BY DEF AckInv, AckedUnlessFailed, AckedFound
<1>. QED
    BY <1>1, AckInvHolds, PTL
=============================================================================
