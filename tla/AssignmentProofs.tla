-------------------------- MODULE AssignmentProofs --------------------------
(***************************************************************************)
(* Proofs about the assignment of ranges to servers.                       *)
(*                                                                         *)
(* Warden, for any servers, ranges and bounds.  Of its connections: a late *)
(* disconnect does not unregister a server that is back, and a server that *)
(* is up to date holds the ranges of the current version.  Of its loop: no *)
(* base range is forgotten.                                                *)
(*                                                                         *)
(* RangeLoading (RL), for any servers, tasks and failures: types, and      *)
(* leaders of a range that have distinct numbers and disjoint leases       *)
(* unless one of them is stray.                                            *)
(***************************************************************************)
EXTENDS Warden, FiniteSetTheorems, WellFoundedInduction, SequenceTheorems, TLAPS

CONSTANTS Task, ServerOf, NumEpochs, MaxUpdates
VARIABLES assigned, updates, unloading, loaded_ranges, state, outcome, range_info, row,
          pc, rm, held, stray, sent

RL == INSTANCE RangeLoading

(* What is not arithmetic is proved by Zenon; the other leaves name SMT.   *)
USE Zenon

Stream == [server : Server, life : Nat, epoch : Nat \ {0}, seen : Nat,
           sent_full_update : BOOLEAN]

(* Types of the connections; versions and epochs need no bound here.       *)
ConnectionTypeOK ==
    /\ current_version \in Nat
    /\ ready_range_servers \in [Server -> Nat]
    /\ streams \subseteq Stream
    /\ connection \in [Server -> Nat]
    /\ inbox \in [Server -> Seq(SUBSET RangeId)]
    /\ epoch \in [Server -> Nat]
    /\ assigned_ranges \in [Server -> SUBSET RangeId]
    /\ life \in [Server -> Nat]

(* A stream is as old as its server's last epoch at most, and known by its *)
(* server, life and epoch.                                                 *)
StreamsAreOld ==
    /\ \A st \in streams :
          /\ st.life <= life[st.server]
          /\ st.life = life[st.server] => st.epoch <= epoch[st.server]
          /\ st.seen <= current_version
    /\ \A st, su \in streams :
          st.server = su.server /\ st.life = su.life /\ st.epoch = su.epoch => st = su

(* A connection has the last epoch its server read, and before a restart   *)
(* no later epoch is registered.                                           *)
EpochsAreLast ==
    \A s \in Server : /\ connection[s] # 0 => connection[s] = epoch[s]
                      /\ life[s] = 0 => ready_range_servers[s] <= epoch[s]

(* The last update sent and not processed, or else the ranges held, are    *)
(* those of the current version.                                           *)
Holds(st) ==
    LET s == st.server IN
    IF inbox[s] = << >>
    THEN assigned_ranges[s] = RangesOf(range_assignments, s)
    ELSE inbox[s][Len(inbox[s])] = RangesOf(range_assignments, s)

Delivered ==
    \A st \in streams :
        Current(st) /\ st.sent_full_update /\ st.seen = current_version => Holds(st)

IInv == /\ ConnectionTypeOK /\ StreamsAreOld /\ EpochsAreLast
        /\ StaysRegistered /\ Delivered

---------------------------------------------------------------------------
(* Initially there is no stream.                                           *)
LEMMA InitIInv == Init => IInv
<1>. SUFFICES ASSUME Init PROVE IInv
    OBVIOUS
<1>. USE DEF Init
<1>1. ConnectionTypeOK
    BY SMTT(30) DEF ConnectionTypeOK
<1>2. StreamsAreOld /\ EpochsAreLast /\ StaysRegistered /\ Delivered
    BY SMTT(30) DEF StreamsAreOld, EpochsAreLast, StaysRegistered, Delivered
<1>. QED  BY <1>1, <1>2 DEF IInv

(* The loop of the warden does not touch connections before it publishes.  *)
LEMMA LoopIInv ==
    ASSUME IInv,
           UNCHANGED <<range_assignments, current_version, ready_range_servers, streams,
                       handlerVars>>
    PROVE  IInv'
<1>. USE DEF IInv, handlerVars
<1>1. ConnectionTypeOK'
    BY DEF ConnectionTypeOK
<1>2. StreamsAreOld' /\ EpochsAreLast'
    BY DEF StreamsAreOld, EpochsAreLast
<1>3. StaysRegistered'
    BY DEF StaysRegistered, Current
<1>4. Delivered'
    BY DEF Delivered, Current, Holds, RangesOf
<1>. QED  BY <1>1, <1>2, <1>3, <1>4

(* After publish every stream is behind.                                   *)
LEMMA PublishIInv ==
    ASSUME IInv, publish
    PROVE  IInv'
<1>. USE DEF IInv
<1>1. /\ current_version' = current_version + 1
      /\ UNCHANGED <<ready_range_servers, streams, connection, inbox, epoch, assigned_ranges, life>>
    BY DEF publish, handlerVars
<1>2. ConnectionTypeOK'
    BY SMTT(30), <1>1 DEF ConnectionTypeOK
<1>3. \A st \in streams : st.seen \in Nat /\ st.seen <= current_version
    BY DEF StreamsAreOld, ConnectionTypeOK, Stream
<1>4. StreamsAreOld'
  <2>1. current_version \in Nat
      BY DEF ConnectionTypeOK
  <2>2. \A st \in streams : st.seen <= current_version'
      BY SMTT(30), <1>1, <1>3, <2>1
  <2>. QED  BY <1>1, <2>2 DEF StreamsAreOld
<1>5. EpochsAreLast' /\ StaysRegistered'
    BY <1>1 DEF EpochsAreLast, StaysRegistered, Current
<1>6. Delivered'
  <2>1. \A st \in streams : st.seen # current_version'
      BY SMTT(30), <1>1, <1>3 DEF ConnectionTypeOK
  <2>. QED  BY <1>1, <2>1 DEF Delivered
<1>. QED  BY <1>2, <1>4, <1>5, <1>6

---------------------------------------------------------------------------
(* Connections                                                             *)

(* A server has one current stream.                                        *)
LEMMA CurrentIsOne ==
    ASSUME IInv, NEW st \in streams, NEW su \in streams,
           Current(st), Current(su), st.server = su.server
    PROVE  st = su
BY DEF IInv, StreamsAreOld, Current

(* The end of a stream that is gone, or that is the current one, leaves    *)
(* every other current stream registered.                                  *)
LEMMA UnavailableKeepsOthers ==
    ASSUME IInv, NEW st \in streams, notify_range_server_unavailable(st)
    PROVE  /\ ready_range_servers' \in [Server -> Nat]
           /\ \A s \in Server : ready_range_servers'[s] \in {0, ready_range_servers[s]}
           /\ \A su \in streams \ {st} :
                 Current(su) /\ su.life = 0 => ready_range_servers'[su.server] = su.epoch
<1>. USE DEF IInv
<1>1. st \in Stream
    BY DEF ConnectionTypeOK
<1>2. /\ ready_range_servers' \in [Server -> Nat]
      /\ \A s \in Server : ready_range_servers'[s] \in {0, ready_range_servers[s]}
      /\ \A s \in Server : s # st.server => ready_range_servers'[s] = ready_range_servers[s]
      /\ ready_range_servers[st.server] > st.epoch =>
            ready_range_servers'[st.server] = ready_range_servers[st.server]
    BY SMTT(30), <1>1 DEF notify_range_server_unavailable, ConnectionTypeOK, Stream
<1>3. ASSUME NEW su \in streams \ {st}, Current(su), su.life = 0
      PROVE  ready_range_servers'[su.server] = su.epoch
  <2>1. su \in Stream /\ ready_range_servers[su.server] = su.epoch
      BY <1>3 DEF ConnectionTypeOK, StaysRegistered
  <2>2. CASE su.server = st.server
    <3>1. /\ life[st.server] = 0 /\ st.life = 0
          /\ connection[st.server] = su.epoch
          /\ epoch[st.server] = su.epoch
          /\ st.epoch <= epoch[st.server]
      <4>1. st.server \in Server /\ st.life \in Nat /\ su.epoch # 0
          BY <1>1, <2>1 DEF Stream
      <4>2. life[st.server] = 0 /\ connection[st.server] = su.epoch
          BY <1>3, <2>2 DEF Current
      <4>3. epoch[st.server] = su.epoch
          BY <4>1, <4>2 DEF EpochsAreLast
      <4>4. st.life = 0
          BY SMTT(30), <4>1, <4>2 DEF StreamsAreOld
      <4>. QED  BY <4>2, <4>3, <4>4 DEF StreamsAreOld
    <3>2. st.epoch # su.epoch
        BY <1>3, <2>2, <3>1 DEF StreamsAreOld
    <3>3. su.epoch > st.epoch
        BY SMTT(30), <1>1, <2>1, <3>1, <3>2 DEF Stream
    <3>. QED  BY <1>2, <2>1, <2>2, <3>3
  <2>3. CASE su.server # st.server
      BY <1>2, <2>1, <2>3 DEF Stream
  <2>. QED  BY <2>2, <2>3
<1>. QED  BY <1>2, <1>3

(* The end of a stream                                                     *)
LEMMA StreamEndsIInv ==
    ASSUME IInv, NEW st \in streams, notify_range_server_unavailable(st),
           streams' = streams \ {st},
           UNCHANGED <<assignmentVars, handlerVars>>
    PROVE  IInv'
<1>. USE DEF IInv, assignmentVars, handlerVars
<1>1. /\ ready_range_servers' \in [Server -> Nat]
      /\ \A s \in Server : ready_range_servers'[s] \in {0, ready_range_servers[s]}
      /\ \A su \in streams \ {st} :
            Current(su) /\ su.life = 0 => ready_range_servers'[su.server] = su.epoch
    BY UnavailableKeepsOthers
<1>2. ConnectionTypeOK'
    BY <1>1 DEF ConnectionTypeOK
<1>3. StreamsAreOld'
    BY DEF StreamsAreOld
<1>4. EpochsAreLast'
  <2>1. \A s \in Server : epoch[s] \in Nat
      BY DEF ConnectionTypeOK
  <2>2. \A s \in Server : ready_range_servers[s] <= epoch[s] => ready_range_servers'[s] <= epoch[s]
      BY SMTT(30), <1>1, <2>1
  <2>. QED  BY <2>2 DEF EpochsAreLast
<1>5. StaysRegistered'
    BY <1>1 DEF StaysRegistered, Current
<1>6. Delivered'
    BY DEF Delivered, Current, Holds, RangesOf
<1>. QED  BY <1>2, <1>3, <1>4, <1>5, <1>6

(* A new connection has a later epoch than every stream of its server.     *)
LEMMA RegisterIInv ==
    ASSUME IInv, NEW s \in Server, register_range_server(s)
    PROVE  IInv'
<1> DEFINE e == epoch[s] + 1
           new == [server |-> s, life |-> life[s], epoch |-> e, seen |-> current_version,
                   sent_full_update |-> FALSE]
<1>. USE DEF IInv
<1>1. /\ connection[s] = 0
      /\ epoch' = [epoch EXCEPT ![s] = e]
      /\ UNCHANGED <<range_assignments, current_version, inbox, assigned_ranges, life>>
    BY DEF register_range_server, assignmentVars
<1>2. /\ epoch[s] \in Nat /\ e \in Nat \ {0} /\ life[s] \in Nat
      /\ epoch' \in [Server -> Nat] /\ epoch'[s] = e
      /\ \A r \in Server \ {s} : epoch'[r] = epoch[r]
    BY SMTT(30), <1>1 DEF ConnectionTypeOK
<1>3. \A st \in streams : /\ st \in Stream
                          /\ st.epoch <= epoch[st.server] \/ st.life # life[st.server]
    BY DEF StreamsAreOld, ConnectionTypeOK
<1>4. \A st \in streams : st.life = life[st.server] => st.epoch <= epoch'[st.server]
    BY SMTT(30), <1>2, <1>3 DEF Stream
<1>5. CASE ready_range_servers[s] >= e
  <2>1. UNCHANGED <<ready_range_servers, streams, connection>>
      BY <1>5 DEF register_range_server
  <2>2. ConnectionTypeOK'
      BY <1>1, <1>2, <2>1 DEF ConnectionTypeOK
  <2>3. StreamsAreOld'
      BY <1>1, <1>4, <2>1 DEF StreamsAreOld
  <2>4. EpochsAreLast'
    <3>1. \A r \in Server : ready_range_servers[r] \in Nat
        BY DEF ConnectionTypeOK
    <3>2. life[s] = 0 => ready_range_servers[s] <= e
        BY SMTT(30), <1>2, <3>1 DEF EpochsAreLast
    <3>. QED  BY <1>1, <1>2, <2>1, <3>2 DEF EpochsAreLast
  <2>5. StaysRegistered'
      BY <1>1, <2>1 DEF StaysRegistered, Current
  <2>6. Delivered'
      BY <1>1, <2>1 DEF Delivered, Current, Holds, RangesOf
  <2>. QED  BY <2>2, <2>3, <2>4, <2>5, <2>6
<1>6. CASE ~(ready_range_servers[s] >= e)
  <2>1. /\ ready_range_servers' = [ready_range_servers EXCEPT ![s] = e]
        /\ streams' = streams \cup {new}
        /\ connection' = [connection EXCEPT ![s] = e]
      BY <1>6 DEF register_range_server
  <2>2. /\ new \in Stream /\ new.server = s /\ new.life = life[s] /\ new.epoch = e
        /\ new.seen = current_version /\ new.sent_full_update = FALSE
      BY <1>2 DEF Stream, ConnectionTypeOK
  <2>. HIDE DEF new
  <2>3. /\ ready_range_servers' \in [Server -> Nat] /\ ready_range_servers'[s] = e
        /\ connection' \in [Server -> Nat] /\ connection'[s] = e
        /\ \A r \in Server \ {s} : /\ ready_range_servers'[r] = ready_range_servers[r]
                                   /\ connection'[r] = connection[r]
      BY <1>2, <2>1 DEF ConnectionTypeOK
  <2>4. ConnectionTypeOK'
      BY <1>1, <1>2, <2>1, <2>2, <2>3 DEF ConnectionTypeOK
  <2>5. \A st \in streams : st.server = s => st.life # life[s] \/ st.epoch # e
      BY SMTT(30), <1>2, <1>3 DEF Stream
  <2>6. StreamsAreOld'
    <3>1. \A st \in streams' : /\ st.life <= life[st.server]
                               /\ st.life = life[st.server] => st.epoch <= epoch'[st.server]
                               /\ st.seen <= current_version
      <4>1. new.life <= life[s] /\ new.epoch <= epoch'[s] /\ new.seen <= current_version
          BY SMTT(30), <1>2, <2>2 DEF ConnectionTypeOK
      <4>. QED  BY <1>4, <2>1, <2>2, <4>1 DEF StreamsAreOld
    <3>2. \A st, su \in streams' :
             st.server = su.server /\ st.life = su.life /\ st.epoch = su.epoch => st = su
        BY SMTT(30), <2>1, <2>2, <2>5 DEF StreamsAreOld
    <3>. QED  BY <1>1, <3>1, <3>2 DEF StreamsAreOld
  <2>7. EpochsAreLast'
      BY SMTT(30), <1>1, <1>2, <2>3 DEF EpochsAreLast
  <2>8. ASSUME NEW st \in streams, Current(st)'
        PROVE  st.server \in Server \ {s} /\ Current(st)
      BY <1>1, <1>3, <2>3, <2>5, <2>8 DEF Current, Stream
  <2>9. StaysRegistered'
      BY <2>1, <2>2, <2>3, <2>8 DEF StaysRegistered
  <2>10. Delivered'
      BY <1>1, <2>1, <2>2, <2>8 DEF Delivered, Holds, RangesOf
  <2>. QED  BY <2>4, <2>6, <2>7, <2>9, <2>10
<1>. QED  BY <1>5, <1>6

(* A stream one version behind sends the ranges of the current version.    *)
LEMMA SendIInv ==
    ASSUME IInv, NEW st \in streams, poll_next(st), st.seen + 1 = current_version
    PROVE  IInv'
<1> DEFINE s == st.server
<1>. USE DEF IInv
<1>0. PICK new : new = [st EXCEPT !.seen = current_version, !.sent_full_update = TRUE]
    OBVIOUS
<1>1. /\ Current(st)
      /\ streams' = (streams \ {st}) \cup {new}
      /\ inbox' = [inbox EXCEPT ![s] = Append(@, RangesOf(range_assignments, s))]
      /\ UNCHANGED <<range_assignments, current_version, ready_range_servers, connection,
                     epoch, assigned_ranges, life>>
    BY <1>0 DEF poll_next, get_assignment_update, assignmentVars
<1>2. /\ st \in Stream /\ s \in Server
      /\ new \in Stream /\ new.server = s /\ new.life = st.life /\ new.epoch = st.epoch
      /\ new.seen = current_version
    BY <1>0 DEF ConnectionTypeOK, Stream
<1>3. /\ inbox'[s] = Append(inbox[s], RangesOf(range_assignments, s))
      /\ inbox[s] \in Seq(SUBSET RangeId) /\ RangesOf(range_assignments, s) \in SUBSET RangeId
      /\ \A r \in Server \ {s} : inbox'[r] = inbox[r]
      /\ inbox' \in [Server -> Seq(SUBSET RangeId)]
    BY SMTT(30), <1>1, <1>2 DEF ConnectionTypeOK, RangesOf
<1>4. inbox'[s] # << >> /\ inbox'[s][Len(inbox'[s])] = RangesOf(range_assignments, s)
    BY SMTT(30), <1>3
<1>5. ConnectionTypeOK'
    BY <1>1, <1>2, <1>3 DEF ConnectionTypeOK
<1>6. StreamsAreOld'
  <2>1. current_version <= current_version
      BY SMTT(30) DEF ConnectionTypeOK
  <2>2. \A su \in streams' : \E sv \in streams :
           /\ su.server = sv.server /\ su.life = sv.life /\ su.epoch = sv.epoch
           /\ su.seen = sv.seen \/ su.seen = current_version
      BY <1>1, <1>2
  <2>3. \A su \in streams' : /\ su.life <= life[su.server]
                             /\ su.life = life[su.server] => su.epoch <= epoch[su.server]
                             /\ su.seen <= current_version
      BY SMTT(30), <2>1, <2>2 DEF StreamsAreOld
  <2>4. ASSUME NEW su \in streams \ {st} PROVE ~(su.server = s /\ su.life = st.life /\ su.epoch = st.epoch)
      BY DEF StreamsAreOld
  <2>5. \A su, sv \in streams' :
           su.server = sv.server /\ su.life = sv.life /\ su.epoch = sv.epoch => su = sv
      BY SMTT(30), <1>1, <1>2, <2>4 DEF StreamsAreOld
  <2>. QED  BY <1>1, <2>3, <2>5 DEF StreamsAreOld
<1>7. EpochsAreLast'
    BY <1>1 DEF EpochsAreLast
<1>8. \A su \in streams : Current(su)' <=> Current(su)
    BY <1>1 DEF Current
<1>9. StaysRegistered'
  <2>1. Current(st) /\ st.life = 0 => ready_range_servers[s] = st.epoch
      BY DEF StaysRegistered
  <2>2. \A su \in streams' : su \in streams \/ su = new
      BY <1>1
  <2>. QED  BY <1>1, <1>2, <1>8, <2>1, <2>2 DEF StaysRegistered
<1>10. Delivered'
  <2>1. ASSUME NEW su \in streams \ {st}, Current(su)
        PROVE  su.server \in Server \ {s}
      BY <1>1, <2>1, CurrentIsOne DEF ConnectionTypeOK, Stream
  <2>2. ASSUME NEW su \in streams \ {st}, Current(su), Holds(su)
        PROVE  Holds(su)'
      BY <1>1, <1>3, <2>1, <2>2 DEF Holds, RangesOf
  <2>3. Holds(new)'
    <3>1. RangesOf(range_assignments, s)' = RangesOf(range_assignments, s)
        BY <1>1 DEF RangesOf
    <3>. QED  BY <1>1, <1>2, <1>4, <3>1 DEF Holds
  <2>4. \A su \in streams' : su \in streams \ {st} \/ su = new
      BY <1>1
  <2>. QED  BY <1>1, <1>8, <2>2, <2>3, <2>4 DEF Delivered
<1>. QED  BY <1>5, <1>6, <1>7, <1>9, <1>10

---------------------------------------------------------------------------
(* The range server                                                        *)

(* Popping the front of a queue keeps its last element, if there is one.   *)
LEMMA LastOfTail ==
    ASSUME NEW S, NEW q \in Seq(S), q # << >>
    PROVE  /\ Tail(q) = << >> => Head(q) = q[Len(q)]
           /\ Tail(q) # << >> => Tail(q)[Len(Tail(q))] = q[Len(q)]
<1> DEFINE r == Tail(q)
<1>1. /\ Len(q) \in Nat \ {0} /\ r \in Seq(S) /\ Head(q) = q[1]
      /\ Len(r) = Len(q) - 1
      /\ \A i \in 1..(Len(q) - 1) : r[i] = q[i + 1]
    BY SMTT(30)
<1>. HIDE DEF r
<1>2. ASSUME r = << >> PROVE Head(q) = q[Len(q)]
  <2>1. Len(r) = 0
      BY <1>2
  <2>2. Len(q) = 1
      BY SMTT(30), <1>1, <2>1
  <2>. QED  BY <1>1, <2>2
<1>3. ASSUME r # << >> PROVE r[Len(r)] = q[Len(q)]
  <2>1. Len(r) # 0
      BY SMTT(30), <1>1, <1>3
  <2>2. Len(q) - 1 \in 1..(Len(q) - 1) /\ (Len(q) - 1) + 1 = Len(q)
      BY SMTT(30), <1>1, <2>1
  <2>. QED  BY <1>1, <2>2
<1>. QED  BY <1>2, <1>3 DEF r

(* The oldest update is processed; the newest stays the newest, or is the  *)
(* one processed.                                                          *)
LEMMA ProcessIInv ==
    ASSUME IInv, NEW s \in Server, process_warden_update(s)
    PROVE  IInv'
<1>. USE DEF IInv
<1>1. /\ inbox[s] # << >>
      /\ assigned_ranges' = [assigned_ranges EXCEPT ![s] = Head(inbox[s])]
      /\ inbox' = [inbox EXCEPT ![s] = Tail(@)]
      /\ UNCHANGED <<range_assignments, current_version, ready_range_servers, streams,
                     connection, epoch, life>>
    BY DEF process_warden_update, assignmentVars
<1>2. /\ inbox[s] \in Seq(SUBSET RangeId)
      /\ Head(inbox[s]) \in SUBSET RangeId /\ Tail(inbox[s]) \in Seq(SUBSET RangeId)
    BY SMTT(30), <1>1 DEF ConnectionTypeOK
<1>3. /\ inbox'[s] = Tail(inbox[s]) /\ assigned_ranges'[s] = Head(inbox[s])
      /\ \A r \in Server \ {s} : inbox'[r] = inbox[r] /\ assigned_ranges'[r] = assigned_ranges[r]
      /\ inbox' \in [Server -> Seq(SUBSET RangeId)]
      /\ assigned_ranges' \in [Server -> SUBSET RangeId]
    BY <1>1, <1>2 DEF ConnectionTypeOK
<1>4. /\ Tail(inbox[s]) = << >> => Head(inbox[s]) = inbox[s][Len(inbox[s])]
      /\ Tail(inbox[s]) # << >> =>
            Tail(inbox[s])[Len(Tail(inbox[s]))] = inbox[s][Len(inbox[s])]
    BY <1>1, <1>2, LastOfTail
<1>5. ConnectionTypeOK'
    BY <1>1, <1>3 DEF ConnectionTypeOK
<1>6. StreamsAreOld' /\ EpochsAreLast'
    BY <1>1 DEF StreamsAreOld, EpochsAreLast
<1>7. StaysRegistered'
    BY <1>1 DEF StaysRegistered, Current
<1>8. Delivered'
  <2>1. \A st \in streams : st.server \in Server
      BY DEF ConnectionTypeOK, Stream
  <2>2. ASSUME NEW st \in streams, Holds(st) PROVE Holds(st)'
    <3>1. CASE st.server = s
        BY ZenonT(60), <1>1, <1>3, <1>4, <2>2, <3>1 DEF Holds, RangesOf
    <3>2. CASE st.server # s
        BY <1>1, <1>3, <2>1, <2>2, <3>2 DEF Holds, RangesOf
    <3>. QED  BY <3>1, <3>2
  <2>3. \A st \in streams : Current(st)' => Current(st)
      BY <1>1 DEF Current
  <2>. QED  BY <1>1, <2>2, <2>3 DEF Delivered
<1>. QED  BY <1>5, <1>6, <1>7, <1>8

(* A server without a connection has no current stream, whether it lost    *)
(* the connection or has restarted.                                        *)
LEMMA ConnectionEndsIInv ==
    ASSUME IInv, NEW s \in Server, disconnect(s) \/ restart(s)
    PROVE  IInv'
<1>. USE DEF IInv
<1>1. /\ connection' = [connection EXCEPT ![s] = 0]
      /\ inbox' = [inbox EXCEPT ![s] = << >>]
      /\ UNCHANGED <<range_assignments, current_version, ready_range_servers, streams>>
    BY DEF disconnect, restart, assignmentVars
<1>2. /\ connection' \in [Server -> Nat] /\ connection'[s] = 0
      /\ inbox' \in [Server -> Seq(SUBSET RangeId)]
      /\ \A r \in Server \ {s} : connection'[r] = connection[r] /\ inbox'[r] = inbox[r]
    BY SMTT(30), <1>1 DEF ConnectionTypeOK
<1>3. /\ epoch' \in [Server -> Nat] /\ life' \in [Server -> Nat]
      /\ assigned_ranges' \in [Server -> SUBSET RangeId]
      /\ \A r \in Server \ {s} : /\ epoch'[r] = epoch[r] /\ life'[r] = life[r]
                                 /\ assigned_ranges'[r] = assigned_ranges[r]
      /\ (life'[s] = life[s] /\ epoch'[s] = epoch[s]) \/ life'[s] = life[s] + 1
  <2>1. CASE disconnect(s)
      BY <2>1 DEF disconnect, ConnectionTypeOK
  <2>2. CASE restart(s)
    <3>1. /\ epoch' = [epoch EXCEPT ![s] = 0] /\ life' = [life EXCEPT ![s] = @ + 1]
          /\ assigned_ranges' = [assigned_ranges EXCEPT ![s] = {}]
        BY <2>2 DEF restart
    <3>. QED  BY SMTT(30), <3>1 DEF ConnectionTypeOK
  <2>. QED  BY <2>1, <2>2
<1>4. ConnectionTypeOK'
    BY <1>1, <1>2, <1>3 DEF ConnectionTypeOK
<1>5. \A st \in streams : st \in Stream
    BY DEF ConnectionTypeOK
<1>6. StreamsAreOld'
  <2>1. ASSUME NEW st \in streams
        PROVE  /\ st.life <= life'[st.server]
               /\ st.life = life'[st.server] => st.epoch <= epoch'[st.server]
    <3>1. /\ st.life \in Nat /\ life[st.server] \in Nat /\ st.server \in Server
          /\ st.life <= life[st.server]
          /\ st.life = life[st.server] => st.epoch <= epoch[st.server]
        BY <1>5 DEF StreamsAreOld, ConnectionTypeOK, Stream
    <3>2. CASE life'[st.server] = life[st.server] /\ epoch'[st.server] = epoch[st.server]
        BY <3>1, <3>2
    <3>3. CASE life'[st.server] = life[st.server] + 1
        BY SMTT(30), <3>1, <3>3
    <3>. QED  BY <1>3, <3>1, <3>2, <3>3
  <2>. QED  BY <1>1, <2>1 DEF StreamsAreOld
<1>7. EpochsAreLast'
  <2>1. life'[s] = 0 => life[s] = 0 /\ epoch'[s] = epoch[s]
      BY SMTT(30), <1>3 DEF ConnectionTypeOK
  <2>. QED  BY <1>1, <1>2, <1>3, <2>1 DEF EpochsAreLast
<1>8. ASSUME NEW st \in streams, Current(st)'
      PROVE  st.server \in Server \ {s} /\ Current(st)
    BY <1>1, <1>2, <1>3, <1>5, <1>8 DEF Current, Stream
<1>9. StaysRegistered'
    BY <1>1, <1>8 DEF StaysRegistered
<1>10. Delivered'
  <2>1. ASSUME NEW st \in streams, st.server \in Server \ {s}, Holds(st) PROVE Holds(st)'
    <3>1. UNCHANGED <<range_assignments, inbox[st.server], assigned_ranges[st.server]>>
        BY <1>1, <1>2, <1>3, <2>1
    <3>. QED  BY <2>1, <3>1 DEF Holds, RangesOf
  <2>. QED  BY <1>1, <1>8, <2>1 DEF Delivered
<1>. QED  BY <1>4, <1>6, <1>7, <1>9, <1>10

---------------------------------------------------------------------------
(* Theorems                                                                *)

(* The inductive invariant holds in every reachable state.                 *)
THEOREM Invariance == Spec => []IInv
<1>1. IInv /\ [Next]_vars => IInv'
  <2>. SUFFICES ASSUME IInv, [Next]_vars PROVE IInv'
      OBVIOUS
  <2>1. CASE read_base_ranges \/ run_assignment_computation \/ persistFailed \/ UNCHANGED vars
    <3>1. UNCHANGED <<range_assignments, current_version, ready_range_servers, streams,
                      handlerVars>>
        BY <2>1 DEF read_base_ranges, run_assignment_computation, persistFailed, vars,
                    assignmentVars
    <3>. QED  BY <3>1, LoopIInv
  <2>2. CASE publish
      BY <2>2, PublishIInv
  <2>3. ASSUME NEW st \in streams, poll_next(st) PROVE IInv'
    <3>1. CASE st.seen + 1 = current_version
        BY <2>3, <3>1, SendIInv
    <3>2. CASE st.seen + 1 # current_version
      <4>1. /\ notify_range_server_unavailable(st) /\ streams' = streams \ {st}
            /\ UNCHANGED <<assignmentVars, handlerVars>>
          BY <2>3, <3>2 DEF poll_next, handlerVars
      <4>. QED  BY <4>1, StreamEndsIInv
    <3>. QED  BY <3>1, <3>2
  <2>4. ASSUME NEW st \in streams, dropStream(st) PROVE IInv'
      BY <2>4, StreamEndsIInv DEF dropStream
  <2>5. ASSUME NEW s \in Server, register_range_server(s) PROVE IInv'
      BY <2>5, RegisterIInv
  <2>6. ASSUME NEW s \in Server, process_warden_update(s) PROVE IInv'
      BY <2>6, ProcessIInv
  <2>7. ASSUME NEW s \in Server, disconnect(s) \/ restart(s) PROVE IInv'
      BY <2>7, ConnectionEndsIInv
  <2>. QED  BY <2>1, <2>2, <2>3, <2>4, <2>5, <2>6, <2>7 DEF Next
<1>. QED  BY InitIInv, <1>1, PTL DEF Spec

(* The late disconnect of an old connection never unregisters a server     *)
(* that has connected again, as long as it has not restarted.              *)
THEOREM LateDisconnectIsHarmless == Spec => []StaysRegistered
BY Invariance, PTL DEF IInv

(* A server that has processed all updates of a stream that is not behind  *)
(* holds the ranges of the current version.                                *)
THEOREM UpToDateMeansSynchronised == Spec => []Synchronised
<1>1. IInv => Synchronised
    BY DEF IInv, Delivered, Holds, Synchronised
<1>. QED  BY Invariance, <1>1, PTL

---------------------------------------------------------------------------
(* No base range is forgotten                                              *)

(* A non-empty set of natural numbers has a least element.                 *)
LEMMA Least ==
    ASSUME NEW S \in SUBSET Nat, S # {}
    PROVE  \E i \in S : \A j \in S : i <= j
<1>1. PICK i \in S : \A j \in S : ~(<<j, i>> \in OpToRel(<, Nat))
    BY NatLessThanWellFounded, WFMin
<1>2. \A j \in S : ~(j < i)
    BY <1>1 DEF OpToRel
<1>. QED  BY SMTT(30), <1>2

(* The entries of the heap, with the number of ranges of each              *)
Entry == Server \X {"busy", "added"}
HeapOK(heap) ==
    DOMAIN heap # {} /\ DOMAIN heap \subseteq Entry /\ heap \in [DOMAIN heap -> Nat]

(* What a pass may make of the current version: a range that has an        *)
(* assignee keeps one, and only base ranges get one.                       *)
Kept(assignments) ==
    /\ assignments \in [RangeId -> Server \cup {None}]
    /\ \A r \in RangeId : /\ range_assignments[r] # None => assignments[r] # None
                          /\ assignments[r] # None => r \in base_ranges

(* Nothing but publish changes which ranges have an assignee, and what it  *)
(* publishes was computed from the version it replaces.                    *)
RangeInv ==
    /\ base_ranges \subseteq RangeId /\ unassigned_base_ranges \subseteq base_ranges
    /\ prev_ready_servers \subseteq Server
    /\ Kept(range_assignments)
    /\ pass = "persist" => /\ Kept(new_assignments.assignments)
                           /\ new_assignments.ready \subseteq Server
    /\ NoRangeLost

(* A heap that is not empty has a least loaded entry.                      *)
LEMMA LeastLoadedIsEntry ==
    ASSUME NEW heap, HeapOK(heap)
    PROVE  LeastLoaded(heap) \in DOMAIN heap
<1> DEFINE E == DOMAIN heap
           loads == {heap[e] : e \in E}
<1>1. E # {} /\ (\A e \in E : heap[e] \in Nat /\ e[1] \in Server)
    BY DEF HeapOK, Entry
<1>2. PICK n \in loads : \A j \in loads : n <= j
    BY <1>1, Least
<1> DEFINE lightest == {e \in E : heap[e] = n}
           ranks == {Rank[e[1]] : e \in lightest}
<1>3. ranks \in SUBSET Nat /\ ranks # {}
    BY <1>1, <1>2, RankAssumption
<1>4. PICK k \in ranks : \A j \in ranks : k <= j
    BY <1>3, Least
<1>5. PICK e \in lightest : Rank[e[1]] = k
    OBVIOUS
<1>6. ASSUME NEW f \in E
      PROVE  heap[e] < heap[f] \/ (heap[e] = heap[f] /\ Rank[e[1]] <= Rank[f[1]])
  <2>1. heap[e] = n /\ n \in Nat /\ heap[f] \in Nat /\ n <= heap[f]
      BY <1>1, <1>2
  <2>2. CASE heap[f] = n
    <3>1. Rank[f[1]] \in ranks
        BY <2>2
    <3>. QED  BY <1>4, <1>5, <2>1, <2>2, <3>1
  <2>3. CASE heap[f] # n
    <3>1. n < heap[f]
        BY SMTT(30), <2>1, <2>3
    <3>. QED  BY <2>1, <3>1
  <2>. QED  BY <2>2, <2>3
<1>. QED  BY <1>6 DEF LeastLoaded

(* One range more gets an assignee.                                        *)
LEMMA AssignNextKeeps ==
    ASSUME NEW acc, HeapOK(acc.heap), Kept(acc.assignments), NEW r \in base_ranges,
           base_ranges \subseteq RangeId
    PROVE  /\ HeapOK(AssignNext(acc, r).heap)
           /\ Kept(AssignNext(acc, r).assignments)
<1> DEFINE e == LeastLoaded(acc.heap)
<1>1. e \in DOMAIN acc.heap
    BY LeastLoadedIsEntry
<1>2. e[1] \in Server /\ e[1] # None
    BY <1>1, RangeAssumption DEF HeapOK, Entry
<1>3. /\ AssignNext(acc, r).heap = [acc.heap EXCEPT ![e] = @ + 1]
      /\ AssignNext(acc, r).assignments = [acc.assignments EXCEPT ![r] = e[1]]
    BY DEF AssignNext
<1>. HIDE DEF e
<1>4. HeapOK(AssignNext(acc, r).heap)
    BY SMTT(30), <1>1, <1>3 DEF HeapOK
<1>5. Kept(AssignNext(acc, r).assignments)
    BY <1>2, <1>3 DEF Kept
<1>. QED  BY <1>4, <1>5

(* The heap of a pass is not empty when a server is ready.                 *)
LEMMA ServerHeapOK ==
    ASSUME NEW added \in SUBSET Server, Ready # {}
    PROVE  HeapOK(ServerHeap(added))
<1> DEFINE busy == {s \in Server : RangesOf(range_assignments, s) # {}}
           entries == {<<s, "busy">> : s \in busy} \cup {<<s, "added">> : s \in added}
           all == IF entries = {} THEN {<<s, "added">> : s \in Ready} ELSE entries
           load(e) == IF e[2] = "busy" THEN Cardinality(RangesOf(range_assignments, e[1])) ELSE 0
<1>1. ServerHeap(added) = [e \in all |-> load(e)]
    BY DEF ServerHeap
<1>2. all \subseteq Entry /\ all # {}
  <2>1. entries \subseteq Entry /\ Ready \subseteq Server
      BY SMTT(30) DEF Entry, Ready
  <2>2. CASE entries = {}
    <3>1. all = {<<s, "added">> : s \in Ready}
        BY <2>2
    <3>2. all # {}
        BY <3>1
    <3>3. \A s \in Ready : <<s, "added">> \in Entry
        BY <2>1 DEF Entry
    <3>. HIDE DEF all
    <3>. QED  BY <3>1, <3>2, <3>3
  <2>3. CASE entries # {}
      BY <2>1, <2>3
  <2>. QED  BY <2>2, <2>3
<1>3. \A e : load(e) \in Nat
  <2>1. \A s : IsFiniteSet(RangesOf(range_assignments, s))
      BY RangeAssumption, FS_Subset DEF RangesOf
  <2>. QED  BY <2>1, FS_CardinalityType
<1>. HIDE DEF all, load
<1>. QED  BY <1>1, <1>2, <1>3 DEF HeapOK

(* The loop over the ranges, by the least step at which it would go wrong. *)
(* The function that the loop computes exists because it exists up to any  *)
(* step.                                                                   *)
LEMMA AssignKeeps ==
    ASSUME NEW ranges \in Seq(base_ranges), NEW added \in SUBSET Server, Ready # {},
           base_ranges \subseteq RangeId, Kept(range_assignments)
    PROVE  Kept(Assign(ranges, added))
<1> DEFINE start == [heap |-> ServerHeap(added), assignments |-> range_assignments]
           N == Len(ranges)
           Body(f, n) == IF n = 0 THEN start ELSE AssignNext(f[n - 1], ranges[n])
           IsLoop(f, m) == f = [n \in 0..m |-> Body(f, n)]
<1>1. N \in Nat /\ (\A n \in 1..N : ranges[n] \in base_ranges)
    BY SMTT(30)
<1>2. \E f : IsLoop(f, N)
  <2> DEFINE bad == {m \in 0..N : ~\E f : IsLoop(f, m)}
  <2>1. SUFFICES ASSUME bad # {} PROVE FALSE
      BY SMTT(30), <1>1
  <2>0. bad \in SUBSET Nat
      BY SMTT(30)
  <2>2. PICK m \in bad : \A j \in bad : m <= j
      BY <2>0, <2>1, Least
  <2>3. m # 0
    <3>1. IsLoop([n \in 0..0 |-> start], 0)
        BY SMTT(30)
    <3>. QED  BY <2>2, <3>1
  <2>4. m \in Nat /\ m - 1 \in 0..N /\ m - 1 \notin bad
    <3>1. m \in 0..N
        OBVIOUS
    <3>2. m \in Nat /\ m - 1 \in 0..N /\ ~(m <= m - 1)
        BY SMTT(30), <1>1, <2>3, <3>1
    <3>. QED  BY <2>2, <3>2
  <2>5. PICK f : IsLoop(f, m - 1)
      BY <2>4
  <2> DEFINE g == [n \in 0..m |-> IF n = m THEN AssignNext(f[m - 1], ranges[m]) ELSE f[n]]
  <2>6. IsLoop(g, m)
    <3>1. ASSUME NEW n \in 0..m PROVE g[n] = Body(g, n)
      <4>1. CASE n = 0
          BY SMTT(30), <2>3, <2>4, <2>5, <4>1
      <4>2. CASE n = m
          BY SMTT(30), <2>3, <2>4, <2>5, <4>2
      <4>3. CASE n # 0 /\ n # m
          BY SMTT(30), <2>3, <2>4, <2>5, <4>3
      <4>. QED  BY <4>1, <4>2, <4>3
    <3>. QED  BY <3>1
  <2>. QED  BY <2>2, <2>6
<1>3. PICK f : IsLoop(f, N) /\ Assign(ranges, added) = f[N].assignments
    BY <1>2 DEF Assign
<1>4. HeapOK(f[N].heap) /\ Kept(f[N].assignments)
  <2> DEFINE bad == {m \in 0..N : ~(HeapOK(f[m].heap) /\ Kept(f[m].assignments))}
  <2>1. SUFFICES ASSUME bad # {} PROVE FALSE
      BY SMTT(30), <1>1
  <2>0. bad \in SUBSET Nat
      BY SMTT(30)
  <2>2. PICK m \in bad : \A j \in bad : m <= j
      BY <2>0, <2>1, Least
  <2>3. m # 0
    <3>1. f[0] = start
        BY SMTT(30), <1>1, <1>3
    <3>2. HeapOK(f[0].heap) /\ Kept(f[0].assignments)
        BY SMTT(30), <3>1, ServerHeapOK
    <3>. QED  BY <2>2, <3>2
  <2>4. m \in 1..N /\ m - 1 \in 0..N /\ m - 1 \notin bad
      BY SMTT(30), <1>1, <2>2, <2>3
  <2>5. HeapOK(f[m - 1].heap) /\ Kept(f[m - 1].assignments)
      BY <2>4
  <2>6. f[m] = AssignNext(f[m - 1], ranges[m])
      BY <1>3, <2>3, <2>4
  <2>. QED  BY <1>1, <2>2, <2>4, <2>5, <2>6, AssignNextKeeps
<1>. QED  BY <1>3, <1>4

(* The orders in which a finite set can be listed                          *)
LEMMA ListedInOrder ==
    ASSUME NEW T \in SUBSET RangeId, NEW S \in SUBSET T, NEW q \in orders(S)
    PROVE  q \in Seq(T)
<1>1. Cardinality(S) \in Nat
    BY RangeAssumption, FS_Subset, FS_CardinalityType
<1>2. q \in [1..Cardinality(S) -> T]
    BY DEF orders, Bijection, Injection
<1>. QED  BY SMTT(30), <1>1, <1>2

(* A pass computes, from the current version, one that keeps every         *)
(* assignee.                                                               *)
LEMMA ComputeKeeps ==
    ASSUME RangeInv, run_assignment_computation
    PROVE  RangeInv'
<1>1. UNCHANGED <<base_ranges, unassigned_base_ranges, range_assignments>>
    BY DEF run_assignment_computation, assignmentVars
<1>2. NoRangeLost' /\ Kept(range_assignments)'
    BY <1>1 DEF RangeInv, NoRangeLost, Kept
<1>5. prev_ready_servers' \subseteq Server
    BY DEF run_assignment_computation, RangeInv, Ready
<1>3. ASSUME pass' = "persist"
      PROVE  Kept(new_assignments'.assignments) /\ new_assignments'.ready \subseteq Server
  <2> DEFINE added == Ready \ prev_ready_servers
             orphaned == UNION {RangesOf(range_assignments, s) :
                                   s \in prev_ready_servers \ Ready}
  <2>1. pass = "compute"
      BY DEF run_assignment_computation
  <2>2. /\ ~(Cardinality(Ready) < MIN_NUM_RANGE_SERVERS)
        /\ \E first \in orders(unassigned_base_ranges), second \in orders(orphaned) :
              new_assignments' = [ready |-> Ready, assignments |-> Assign(first \o second, added)]
      BY <1>3, <2>1 DEF run_assignment_computation
  <2>3. PICK first \in orders(unassigned_base_ranges), second \in orders(orphaned) :
           new_assignments' = [ready |-> Ready, assignments |-> Assign(first \o second, added)]
      BY <2>2
  <2>4. Ready # {} /\ added \in SUBSET Server
    <3>1. Cardinality({}) = 0
        BY FS_EmptySet
    <3>2. ~(Cardinality(Ready) < 1)
        BY <2>2 DEF MIN_NUM_RANGE_SERVERS
    <3>3. 0 < 1
        BY SMTT(30)
    <3>4. Ready # {}
        BY <3>1, <3>2, <3>3
    <3>. QED  BY <3>4 DEF Ready
  <2>5. unassigned_base_ranges \subseteq base_ranges /\ orphaned \subseteq base_ranges
    <3>1. ASSUME NEW s \in prev_ready_servers, NEW r \in RangesOf(range_assignments, s)
          PROVE  r \in base_ranges
      <4>1. r \in RangeId /\ range_assignments[r] # None
          BY RangeAssumption DEF RangesOf, RangeInv
      <4>. QED  BY <4>1 DEF RangeInv, Kept
    <3>. QED  BY <3>1 DEF RangeInv
  <2>6. first \o second \in Seq(base_ranges)
    <3>1. first \in Seq(base_ranges) /\ second \in Seq(base_ranges)
      <4>. HIDE DEF orphaned
      <4>. QED  BY <2>5, ListedInOrder DEF RangeInv
    <3>. QED  BY SMTT(30), <3>1
  <2>7. Kept(Assign(first \o second, added))
    <3>. HIDE DEF added
    <3>. QED  BY <2>4, <2>6, AssignKeeps DEF RangeInv
  <2>. QED  BY <2>3, <2>7 DEF Ready
<1>4. pass' = "persist" => Kept(new_assignments.assignments)'
    BY <1>1, <1>3 DEF Kept
<1>. QED  BY <1>1, <1>2, <1>3, <1>4, <1>5 DEF RangeInv

(* The other steps of the loop, and those that are not of the loop         *)
LEMMA OthersKeep ==
    ASSUME RangeInv, read_base_ranges \/ persistFailed \/ publish
                        \/ UNCHANGED <<loopVars, assignmentVars>>
    PROVE  RangeInv'
<1>1. CASE read_base_ranges
  <2>1. PICK new \in SUBSET (RangeId \ base_ranges) :
           /\ base_ranges' = base_ranges \cup new
           /\ unassigned_base_ranges' = unassigned_base_ranges \cup new
      BY <1>1 DEF read_base_ranges
  <2>2. /\ pass = "compute" /\ pass' = pass
        /\ UNCHANGED <<range_assignments, prev_ready_servers>>
      BY <1>1 DEF read_base_ranges, loopVars
  <2>3. Kept(range_assignments)'
      BY <2>1, <2>2 DEF RangeInv, Kept
  <2>4. NoRangeLost'
      BY <2>1, <2>2 DEF RangeInv, NoRangeLost, Kept
  <2>. QED  BY <2>1, <2>2, <2>3, <2>4 DEF RangeInv
<1>2. CASE persistFailed
  <2>1. /\ pass = "persist" /\ pass' = "compute"
        /\ prev_ready_servers' = new_assignments.ready
        /\ UNCHANGED <<base_ranges, unassigned_base_ranges, range_assignments>>
      BY <1>2 DEF persistFailed, assignmentVars
  <2>. QED  BY <2>1 DEF RangeInv, Kept, NoRangeLost
<1>3. CASE publish
  <2>1. /\ pass = "persist" /\ pass' = "compute"
        /\ prev_ready_servers' = new_assignments.ready
        /\ range_assignments' = new_assignments.assignments
        /\ unassigned_base_ranges' =
              {r \in unassigned_base_ranges : new_assignments.assignments[r] = None}
        /\ base_ranges' = base_ranges
      BY <1>3 DEF publish
  <2>2. Kept(range_assignments)'
      BY <2>1 DEF RangeInv, Kept
  <2>3. NoRangeLost'
      BY <2>1 DEF RangeInv, NoRangeLost, Kept
  <2>. QED  BY <2>1, <2>2, <2>3 DEF RangeInv
<1>4. CASE UNCHANGED <<loopVars, assignmentVars>>
    BY <1>4 DEF RangeInv, Kept, NoRangeLost, loopVars, assignmentVars
<1>. QED  BY <1>1, <1>2, <1>3, <1>4

(* No base range is forgotten, whatever servers come and go and whichever  *)
(* versions cannot be persisted: the loop of run_assignment_computation    *)
(* gives every range it takes up an assignee, and publish takes from the   *)
(* unassigned list exactly those that got one.                             *)
THEOREM NoRangeLostHolds == Spec => []NoRangeLost
<1>1. Init => RangeInv
    BY DEF Init, RangeInv, Kept, NoRangeLost
<1>2. RangeInv /\ [Next]_vars => RangeInv'
  <2>. SUFFICES ASSUME RangeInv, [Next]_vars PROVE RangeInv'
      OBVIOUS
  <2>1. CASE run_assignment_computation
      BY <2>1, ComputeKeeps
  <2>2. CASE ~run_assignment_computation
    <3>1. \/ read_base_ranges \/ persistFailed \/ publish
          \/ UNCHANGED <<loopVars, assignmentVars>>
        BY <2>2 DEF Next, vars, poll_next, dropStream, register_range_server,
                    process_warden_update, disconnect, restart
    <3>. QED  BY <3>1, OthersKeep
  <2>. QED  BY <2>1, <2>2
<1>3. RangeInv => NoRangeLost
    BY DEF RangeInv
<1>. QED  BY <1>1, <1>2, <1>3, PTL DEF Spec

---------------------------------------------------------------------------
(* The loading of a range *)

Number(m) == range_info[m].leader_sequence_number
Lease(m) == range_info[m].epoch_lease

(* The task runs load_inner, for the manager rm[t].                        *)
IsLoader(t) == pc[t] \in {"lookup", "acquire", "reread", "renew", "confirm", "finish", "abandon"}

(* A manager is loaded at most once, by one task, and has no outcome       *)
(* before that; its update of the row is not yet void when it is sent.     *)
Loaders ==
    /\ \A t \in Task : pc[t] \in {"load", "wait"} \/ IsLoader(t) => rm[t] \in Task
    /\ \A t \in Task : IsLoader(t) => state[rm[t]] # "NotLoaded" /\ outcome[rm[t]] = "none"
    /\ \A t, u \in Task : IsLoader(t) /\ IsLoader(u) /\ rm[t] = rm[u] => t = u
    /\ \A m \in Task : state[m] = "NotLoaded" => outcome[m] = "none" /\ m \notin stray
    /\ \A t \in Task : pc[t] \in {"lookup", "acquire"} => rm[t] \notin stray

(* The manager's update of the row was applied, and it has not given up.   *)
Leading(m) ==
    /\ m \notin stray
    /\ \/ outcome[m] = "ok"
       \/ \E t \in Task : rm[t] = m /\ pc[t] \in {"reread", "renew", "confirm", "finish"}

(* Numbers grow with the row, so that leaders have different ones.         *)
Numbers ==
    /\ \A m \in Task : Leading(m) => Number(m) <= row.leader_sequence_number
    /\ \A m, n \in Task : Leading(m) /\ Leading(n) /\ Number(m) = Number(n) => m = n

(* The manager has its lease.                                              *)
Leased(m) == outcome[m] = "ok" \/ \E t \in Task : rm[t] = m /\ pc[t] = "finish"

(* No manager has gone on with a void update.                              *)
Clean == \A m \in stray : \E t \in Task : rm[t] = m /\ pc[t] = "reread"

(* The last leader to renew knows the lease in the row, and all leases     *)
(* given before are over when its own begins.                              *)
Leases ==
    /\ \A m \in Task : Leased(m) => Lease(m)[2] <= row.epoch_lease[2]
    /\ \A m, n \in Task : m # n /\ Leased(m) /\ Leased(n) => RL!Disjoint(Lease(m), Lease(n))
    /\ \A t \in Task : pc[t] = "renew" /\ Number(rm[t]) = row.leader_sequence_number =>
          Lease(rm[t]) = row.epoch_lease
    /\ \A t \in Task : pc[t] = "confirm" /\ Number(rm[t]) = row.leader_sequence_number =>
          /\ row.epoch_lease = RL!NextLease(Lease(rm[t]))
          /\ \A n \in Task : Leased(n) => Lease(n)[2] <= Lease(rm[t])[2]

LoadingIInv == RL!TypeOK /\ Loaders /\ Numbers /\ (Clean => Leases)

---------------------------------------------------------------------------
(* Initially nothing is loaded.                                            *)
LEMMA LoadingInitIInv ==
    ASSUME RL!LoadingAssumption
    PROVE  RL!Init => LoadingIInv
<1>. SUFFICES ASSUME RL!Init PROVE LoadingIInv
    OBVIOUS
<1>. USE DEF RL!LoadingAssumption, RL!Init
<1>1. RL!TypeOK
    BY SMTT(30) DEF RL!TypeOK, RL!NoLease, RL!RangeInfo, RL!Label
<1>2. Loaders
    BY DEF Loaders, IsLoader
<1>3. Numbers /\ (Clean => Leases)
    BY DEF Numbers, Leading, Leases, Leased
<1>. QED  BY <1>1, <1>2, <1>3 DEF LoadingIInv

(* The steps of the warden handler and the update loop keep the types.     *)
LEMMA ServerTypeOK ==
    ASSUME RL!LoadingAssumption,
           RL!TypeOK, NEW s \in Server,
           RL!process_warden_update(s) \/ RL!warden_update_loop(s) \/ RL!unload(s)
    PROVE  RL!TypeOK'
<1>. USE DEF RL!LoadingAssumption, RL!TypeOK
<1>1. CASE RL!process_warden_update(s)
  <2>1. \A q \in Seq({"LoadRange", "UnloadRange"}) :
            /\ Append(q, "LoadRange") \in Seq({"LoadRange", "UnloadRange"})
            /\ Append(q, "UnloadRange") \in Seq({"LoadRange", "UnloadRange"})
      BY SMTT(30)
  <2>2. updates' \in [Server -> Seq({"LoadRange", "UnloadRange"})]
    <3>1. PICK u \in {"LoadRange", "UnloadRange"} :
              updates' = [updates EXCEPT ![s] = Append(updates[s], u)]
        BY <1>1 DEF RL!process_warden_update
    <3>2. Append(updates[s], u) \in Seq({"LoadRange", "UnloadRange"})
        BY <2>1
    <3>. QED  BY <3>1, <3>2
  <2>3. sent' \in 0..MaxUpdates /\ assigned' \subseteq Server
      BY <1>1, SMTT(30) DEF RL!process_warden_update
  <2>4. UNCHANGED <<unloading, loaded_ranges, RL!managerVars, row, RL!taskVars, stray, failures>>
      BY <1>1 DEF RL!process_warden_update
  <2>. QED  BY <2>2, <2>3, <2>4 DEF RL!managerVars, RL!taskVars
<1>2. CASE RL!warden_update_loop(s)
  <2>1. Tail(updates[s]) \in Seq({"LoadRange", "UnloadRange"})
      BY <1>2, HeadTailProperties DEF RL!warden_update_loop
  <2>2. updates' \in [Server -> Seq({"LoadRange", "UnloadRange"})]
      BY <1>2, <2>1 DEF RL!warden_update_loop
  <2>3. /\ pc' = pc \/ \E t \in Task : pc' = [pc EXCEPT ![t] = "fast"]
        /\ unloading' = unloading \/ unloading' = [unloading EXCEPT ![s] = loaded_ranges[s]]
        /\ loaded_ranges' = loaded_ranges \/ loaded_ranges' = [loaded_ranges EXCEPT ![s] = None]
        /\ UNCHANGED <<assigned, RL!managerVars, row, rm, held, stray, sent, failures>>
      BY <1>2 DEF RL!warden_update_loop, RL!goto
  <2>4. pc' \in [Task -> RL!Label]
      BY <2>3 DEF RL!Label
  <2>5. unloading' \in [Server -> Task \cup {None}]
    <3>1. loaded_ranges[s] \in Task \cup {None}
        OBVIOUS
    <3>2. \E m \in Task \cup {None} : unloading' = [unloading EXCEPT ![s] = m] \/ unloading' = unloading
        BY <2>3, <3>1
    <3>. QED  BY <3>2
  <2>6. loaded_ranges' \in [Server -> Task \cup {None}]
      BY <2>3
  <2>7. UNCHANGED <<assigned, RL!managerVars, row, rm, held, stray, sent, failures>>
      BY <2>3
  <2>. QED  BY <2>2, <2>4, <2>5, <2>6, <2>7 DEF RL!managerVars
<1>3. CASE RL!unload(s)
    BY <1>3 DEF RL!unload, RL!taskVars
<1>. QED  BY <1>1, <1>2, <1>3

(* A row with a new number or a new lease is a row.                        *)
LEMMA RowUpdate ==
    ASSUME NEW r \in RL!RangeInfo
    PROVE  /\ \A n \in Nat : [r EXCEPT !.leader_sequence_number = n] \in RL!RangeInfo
           /\ \A lease \in Nat \X Nat : [r EXCEPT !.epoch_lease = lease] \in RL!RangeInfo
BY DEF RL!RangeInfo

(* What a step of a task writes besides its label has its type.            *)
LEMMA TaskTypeOK ==
    ASSUME RL!LoadingAssumption,
           RL!TypeOK, Loaders, NEW t \in Task, RL!request(t) \/ RL!callFails(t) \/ RL!Step(t)
    PROVE  RL!TypeOK'
<1>. USE DEF RL!LoadingAssumption
<1>1. pc' \in [Task -> RL!Label]
  <2>. SUFFICES \E l \in RL!Label : RL!goto(t, l)
      BY DEF RL!goto, RL!TypeOK
  <2>1. CASE RL!request(t) \/ RL!fastPath(t) \/ RL!is_assigned(t) \/ RL!insert(t) \/ RL!removeFailed(t)
    <3>1. \E l \in {"fast", "check", "load", "insert", "error", "failed"} : RL!goto(t, l)
        BY <2>1 DEF RL!request, RL!fastPath, RL!is_assigned, RL!insert, RL!removeFailed
    <3>. QED  BY <3>1 DEF RL!Label
  <2>2. CASE RL!load(t) \/ RL!wait(t) \/ RL!loadOk(t) \/ RL!loadErr(t)
    <3>1. \E l \in {"done", "error", "failed", "wait", "lookup"} : RL!goto(t, l)
        BY <2>2 DEF RL!load, RL!wait, RL!loadOk, RL!loadErr, RL!leave
    <3>. QED  BY <3>1 DEF RL!Label
  <2>3. CASE RL!lookup(t) \/ RL!acquire(t) \/ RL!reread(t) \/ RL!renew_epoch_lease(t) \/ RL!confirm(t)
             \/ RL!callFails(t)
    <3>1. \E l \in {"acquire", "reread", "renew", "confirm", "finish", "abandon"} : RL!goto(t, l)
        BY <2>3 DEF RL!lookup, RL!acquire, RL!reread, RL!renew_epoch_lease, RL!confirm, RL!callFails
    <3>. QED  BY <3>1 DEF RL!Label
  <2>. QED  BY <2>1, <2>2, <2>3 DEF RL!Step
<1>2. CASE RL!request(t) \/ RL!is_assigned(t)
  <2>1. UNCHANGED <<RL!serverVars, loaded_ranges, RL!managerVars, row, rm, held, stray, failures>>
      BY <1>2 DEF RL!request, RL!is_assigned
  <2>. QED  BY <1>1, <2>1 DEF RL!TypeOK, RL!serverVars, RL!managerVars
<1>3. CASE RL!fastPath(t)
  <2>1. UNCHANGED <<RL!serverVars, loaded_ranges, RL!managerVars, row, stray, failures>>
      BY <1>3 DEF RL!fastPath
  <2>2. /\ rm' = rm \/ \E m \in Task \cup {None} : rm' = [rm EXCEPT ![t] = m]
        /\ held' = held \/ held' = [held EXCEPT ![t] = "read"]
      BY <1>3 DEF RL!fastPath, RL!TypeOK
  <2>3. rm' \in [Task -> Task \cup {None}]
      BY <2>2 DEF RL!TypeOK
  <2>4. held' \in [Task -> {"none", "read", "write"}]
      BY <2>2 DEF RL!TypeOK
  <2>. QED  BY <1>1, <2>1, <2>3, <2>4 DEF RL!TypeOK, RL!serverVars, RL!managerVars
<1>4. CASE RL!insert(t)
  <2>1. UNCHANGED <<RL!serverVars, RL!managerVars, row, stray, failures>>
      BY <1>4 DEF RL!insert
  <2>2. rm' \in [Task -> Task \cup {None}] /\ held' \in [Task -> {"none", "read", "write"}]
      BY <1>4 DEF RL!insert, RL!TypeOK
  <2>3. loaded_ranges' \in [Server -> Task \cup {None}]
      BY <1>4 DEF RL!insert, RL!TypeOK
  <2>. QED  BY <1>1, <2>1, <2>2, <2>3 DEF RL!TypeOK, RL!serverVars, RL!managerVars
<1>5. CASE RL!removeFailed(t)
  <2>1. UNCHANGED <<RL!serverVars, RL!managerVars, row, rm, held, stray, failures>>
      BY <1>5 DEF RL!removeFailed
  <2>2. loaded_ranges' \in [Server -> Task \cup {None}]
      BY <1>5 DEF RL!removeFailed, RL!TypeOK
  <2>. QED  BY <1>1, <2>1, <2>2 DEF RL!TypeOK, RL!serverVars, RL!managerVars
<1>6. CASE RL!load(t) \/ RL!wait(t)
  <2>1. UNCHANGED <<RL!serverVars, loaded_ranges, outcome, range_info, row, rm, stray, failures>>
      BY <1>6 DEF RL!load, RL!wait, RL!managerVars
  <2>2. held' \in [Task -> {"none", "read", "write"}]
      BY <1>6 DEF RL!load, RL!wait, RL!leave, RL!TypeOK
  <2>3. state' \in [Task -> {"NotLoaded", "Loading", "Loaded", "Unloaded"}]
      BY <1>6, SMTT(30) DEF RL!load, RL!wait, RL!managerVars, RL!TypeOK
  <2>. QED  BY <1>1, <2>1, <2>2, <2>3 DEF RL!TypeOK, RL!serverVars
<1>7. CASE RL!callFails(t)
  <2>1. UNCHANGED <<RL!serverVars, loaded_ranges, RL!managerVars, row, rm, held>>
      BY <1>7 DEF RL!callFails
  <2>2. failures' \in 0..MaxFailures /\ stray' \subseteq Task
      BY <1>7, SMTT(30) DEF RL!callFails, RL!TypeOK
  <2>. QED  BY <1>1, <2>1, <2>2 DEF RL!TypeOK, RL!serverVars, RL!managerVars
<1>8. CASE RL!lookup(t) \/ RL!reread(t) \/ RL!confirm(t)
  <2>1. UNCHANGED <<RL!serverVars, loaded_ranges, state, outcome, row, rm, held, failures>>
      BY <1>8 DEF RL!lookup, RL!reread, RL!confirm
  <2>2. rm[t] \in Task /\ range_info[rm[t]] \in RL!RangeInfo
      BY <1>8 DEF RL!lookup, RL!reread, RL!confirm, Loaders, IsLoader, RL!TypeOK
  <2>3. stray' \subseteq Task
      BY <1>8 DEF RL!lookup, RL!reread, RL!confirm, RL!TypeOK
  <2>4. range_info' \in [Task -> RL!RangeInfo]
    <3>. SUFFICES UNCHANGED range_info \/
                  \E r \in RL!RangeInfo : range_info' = [range_info EXCEPT ![rm[t]] = r]
        BY DEF RL!TypeOK
    <3>1. CASE RL!lookup(t)
      <4>1. row.leader_sequence_number + 1 \in Nat
          BY SMTT(30) DEF RL!TypeOK, RL!RangeInfo
      <4>2. range_info' = [range_info EXCEPT ![rm[t]] =
                [range_info[rm[t]] EXCEPT !.leader_sequence_number = row.leader_sequence_number + 1]]
          BY <3>1, <2>2 DEF RL!lookup, RL!TypeOK
      <4>. QED  BY <4>1, <4>2, <2>2, RowUpdate
    <3>2. CASE RL!reread(t)
      <4>1. row.epoch_lease \in Nat \X Nat
          BY DEF RL!TypeOK, RL!RangeInfo
      <4>2. \/ UNCHANGED range_info
            \/ range_info' = [range_info EXCEPT ![rm[t]] =
                                [range_info[rm[t]] EXCEPT !.epoch_lease = row.epoch_lease]]
          BY <3>2, <2>2 DEF RL!reread, RL!TypeOK
      <4>. QED  BY <4>1, <4>2, <2>2, RowUpdate
    <3>3. CASE RL!confirm(t)
      <4>1. RL!NextLease(range_info[rm[t]].epoch_lease) \in Nat \X Nat
          BY <2>2, SMTT(30) DEF RL!NextLease, RL!RangeInfo
      <4>2. \/ UNCHANGED range_info
            \/ range_info' = [range_info EXCEPT ![rm[t]] =
                   [range_info[rm[t]] EXCEPT !.epoch_lease =
                       RL!NextLease(range_info[rm[t]].epoch_lease)]]
          BY <3>3, <2>2 DEF RL!confirm, RL!TypeOK
      <4>. QED  BY <4>1, <4>2, <2>2, RowUpdate
    <3>. QED  BY <1>8, <3>1, <3>2, <3>3
  <2>. QED  BY <1>1, <2>1, <2>3, <2>4 DEF RL!TypeOK, RL!serverVars
<1>9. CASE RL!acquire(t) \/ RL!renew_epoch_lease(t)
  <2>1. UNCHANGED <<RL!serverVars, loaded_ranges, RL!managerVars, rm, held, failures>>
      BY <1>9 DEF RL!acquire, RL!renew_epoch_lease
  <2>2. rm[t] \in Task /\ range_info[rm[t]] \in RL!RangeInfo
      BY <1>9 DEF RL!acquire, RL!renew_epoch_lease, Loaders, IsLoader, RL!TypeOK
  <2>3. stray' \subseteq Task
      BY <1>9, <2>2 DEF RL!acquire, RL!renew_epoch_lease, RL!TypeOK
  <2>4. RL!NextLease(range_info[rm[t]].epoch_lease) \in Nat \X Nat
      BY <2>2, SMTT(30) DEF RL!NextLease, RL!RangeInfo
  <2>5. row' \in RL!RangeInfo
    <3>1. CASE RL!acquire(t)
      <4>1. range_info[rm[t]].leader_sequence_number \in Nat
          BY <2>2 DEF RL!RangeInfo
      <4>. QED  BY <3>1, <4>1, RowUpdate, SMTT(30) DEF RL!acquire, RL!TypeOK
    <3>2. CASE RL!renew_epoch_lease(t)
        BY <3>2, <2>4, RowUpdate DEF RL!renew_epoch_lease, RL!TypeOK
    <3>. QED  BY <1>9, <3>1, <3>2
  <2>. QED  BY <1>1, <2>1, <2>3, <2>5 DEF RL!TypeOK, RL!serverVars, RL!managerVars
<1>10. CASE RL!loadOk(t) \/ RL!loadErr(t)
  <2>1. UNCHANGED <<RL!serverVars, loaded_ranges, range_info, row, rm, stray, failures>>
      BY <1>10 DEF RL!loadOk, RL!loadErr
  <2>2. held' \in [Task -> {"none", "read", "write"}]
      BY <1>10 DEF RL!loadOk, RL!loadErr, RL!leave, RL!TypeOK
  <2>3. /\ state' \in [Task -> {"NotLoaded", "Loading", "Loaded", "Unloaded"}]
        /\ outcome' \in [Task -> {"none", "ok", "err"}]
      BY <1>10 DEF RL!loadOk, RL!loadErr, RL!TypeOK
  <2>. QED  BY <1>1, <2>1, <2>2, <2>3 DEF RL!TypeOK, RL!serverVars
<1>. QED
    BY <1>2, <1>3, <1>4, <1>5, <1>6, <1>7, <1>8, <1>9, <1>10 DEF RL!Step

---------------------------------------------------------------------------
(* The warden handler and the update loop only unload managers.            *)
LEMMA ServerLoaders ==
    ASSUME RL!TypeOK, Loaders, NEW s \in Server,
           RL!process_warden_update(s) \/ RL!warden_update_loop(s) \/ RL!unload(s)
    PROVE  Loaders'
<1>1. CASE RL!process_warden_update(s)
  <2>1. UNCHANGED <<RL!managerVars, RL!taskVars, stray>>
      BY <1>1 DEF RL!process_warden_update
  <2>. QED  BY <2>1 DEF Loaders, IsLoader, RL!managerVars, RL!taskVars
<1>2. CASE RL!warden_update_loop(s)
  <2>1. /\ \A u \in Task : pc'[u] = pc[u] \/ pc'[u] = "fast"
        /\ UNCHANGED <<RL!managerVars, rm, stray>>
      BY <1>2 DEF RL!warden_update_loop, RL!goto, RL!TypeOK
  <2>. QED  BY <2>1 DEF Loaders, IsLoader, RL!managerVars
<1>3. CASE RL!unload(s)
  <2>1. /\ \A m \in Task : state'[m] = state[m] \/ state'[m] = "Unloaded"
        /\ UNCHANGED <<outcome, RL!taskVars, stray>>
      BY <1>3 DEF RL!unload, RL!TypeOK
  <2>. QED  BY <2>1 DEF Loaders, IsLoader, RL!taskVars
<1>. QED  BY <1>1, <1>2, <1>3

(* A task becomes the loader of a manager nobody has loaded, and stays its *)
(* only loader until the manager has an outcome.                           *)
LEMMA TaskLoaders ==
    ASSUME RL!LoadingAssumption,
           RL!TypeOK, Loaders, NEW t \in Task, RL!request(t) \/ RL!callFails(t) \/ RL!Step(t)
    PROVE  Loaders'
<1>. USE DEF RL!LoadingAssumption
<1>1. CASE RL!request(t) \/ RL!is_assigned(t) \/ RL!removeFailed(t)
  <2>1. /\ \A u \in Task \ {t} : pc'[u] = pc[u]
        /\ pc'[t] \in {"fast", "insert", "error", "failed"}
        /\ UNCHANGED <<RL!managerVars, rm, stray>>
      BY <1>1 DEF RL!request, RL!is_assigned, RL!removeFailed, RL!goto, RL!TypeOK
  <2>. QED  BY <2>1 DEF Loaders, IsLoader, RL!managerVars
<1>2. CASE RL!fastPath(t) \/ RL!insert(t)
  <2>1. /\ \A u \in Task \ {t} : pc'[u] = pc[u] /\ rm'[u] = rm[u]
        /\ pc'[t] = "check" \/ (pc'[t] = "load" /\ rm'[t] \in Task)
        /\ UNCHANGED <<RL!managerVars, stray>>
    <3>1. CASE RL!fastPath(t)
      <4>1. loaded_ranges[ServerOf[t]] \in Task \cup {None}
          BY DEF RL!TypeOK
      <4>2. \/ pc' = [pc EXCEPT ![t] = "check"] /\ UNCHANGED rm
            \/ /\ pc' = [pc EXCEPT ![t] = "load"]
               /\ \E m \in Task : rm' = [rm EXCEPT ![t] = m]
          BY <3>1, <4>1 DEF RL!fastPath, RL!goto
      <4>3. UNCHANGED <<RL!managerVars, stray>>
          BY <3>1 DEF RL!fastPath
      <4>4. ASSUME pc' = [pc EXCEPT ![t] = "check"], rm' = rm
            PROVE  /\ \A u \in Task \ {t} : pc'[u] = pc[u] /\ rm'[u] = rm[u]
                   /\ pc'[t] = "check"
          BY <4>4 DEF RL!TypeOK
      <4>5. ASSUME NEW m \in Task, pc' = [pc EXCEPT ![t] = "load"], rm' = [rm EXCEPT ![t] = m]
            PROVE  /\ \A u \in Task \ {t} : pc'[u] = pc[u] /\ rm'[u] = rm[u]
                   /\ pc'[t] = "load" /\ rm'[t] \in Task
          BY <4>5 DEF RL!TypeOK
      <4>. QED  BY <4>2, <4>3, <4>4, <4>5
    <3>2. CASE RL!insert(t)
      <4>1. loaded_ranges[ServerOf[t]] \in Task \cup {None}
          BY DEF RL!TypeOK
      <4>2. PICK m \in Task : rm' = [rm EXCEPT ![t] = m]
          BY <3>2, <4>1 DEF RL!insert
      <4>3. pc' = [pc EXCEPT ![t] = "load"] /\ UNCHANGED <<RL!managerVars, stray>>
          BY <3>2 DEF RL!insert, RL!goto
      <4>. QED  BY <4>2, <4>3 DEF RL!TypeOK
    <3>. QED  BY <1>2, <3>1, <3>2
  <2>. QED  BY <2>1, SMTT(30) DEF Loaders, IsLoader, RL!managerVars
<1>3. CASE RL!load(t)
  <2>1. /\ rm[t] \in Task /\ UNCHANGED <<outcome, rm, stray>>
        /\ \A u \in Task \ {t} : pc'[u] = pc[u]
      BY ZenonT(60), <1>3 DEF RL!load, RL!leave, RL!goto, Loaders, RL!TypeOK
  <2>2. CASE state[rm[t]] = "NotLoaded"
    <3>1. /\ pc'[t] = "lookup" /\ state'[rm[t]] = "Loading"
          /\ \A m \in Task \ {rm[t]} : state'[m] = state[m]
        BY <1>3, <2>1, <2>2 DEF RL!load, RL!leave, RL!goto, RL!TypeOK
    <3>2. \A u \in Task : IsLoader(u) => rm[u] # rm[t]
        BY <2>2 DEF Loaders
    <3>. QED  BY <2>1, <2>2, <3>1, <3>2, SMTT(30) DEF Loaders, IsLoader
  <2>3. CASE state[rm[t]] # "NotLoaded"
    <3>1. pc'[t] \in {"done", "error", "wait"} /\ UNCHANGED state
        BY <1>3, <2>3 DEF RL!load, RL!leave, RL!goto, RL!TypeOK
    <3>. QED  BY <2>1, <3>1 DEF Loaders, IsLoader
  <2>. QED  BY <2>2, <2>3
<1>4. CASE RL!wait(t)
  <2>1. /\ \A u \in Task \ {t} : pc'[u] = pc[u]
        /\ pc'[t] \in {"done", "error"}
        /\ UNCHANGED <<RL!managerVars, rm, stray>>
      BY <1>4 DEF RL!wait, RL!leave, RL!goto, RL!TypeOK
  <2>. QED  BY <2>1 DEF Loaders, IsLoader, RL!managerVars
<1>5. CASE RL!lookup(t) \/ RL!reread(t) \/ RL!renew_epoch_lease(t) \/ RL!confirm(t) \/ RL!callFails(t)
  <2>1. /\ \A u \in Task \ {t} : pc'[u] = pc[u]
        /\ IsLoader(t)
        /\ pc'[t] \in {"acquire", "renew", "confirm", "finish", "abandon"}
        /\ pc'[t] = "acquire" => pc[t] = "lookup"
        /\ UNCHANGED <<state, outcome, rm>>
        /\ stray' \subseteq stray
    <3>1. CASE RL!lookup(t)
        BY <3>1 DEF RL!lookup, RL!goto, RL!TypeOK, IsLoader
    <3>2. CASE RL!reread(t)
        BY <3>2 DEF RL!reread, RL!goto, RL!TypeOK, IsLoader
    <3>3. CASE RL!renew_epoch_lease(t) \/ RL!confirm(t)
        BY <3>3 DEF RL!renew_epoch_lease, RL!confirm, RL!goto, RL!TypeOK, IsLoader, RL!managerVars
    <3>4. CASE RL!callFails(t)
        BY <3>4 DEF RL!callFails, RL!goto, RL!TypeOK, IsLoader, RL!managerVars
    <3>. QED  BY <1>5, <3>1, <3>2, <3>3, <3>4
  <2>. QED  BY <2>1 DEF Loaders, IsLoader
<1>6. CASE RL!acquire(t)
  <2>1. /\ \A u \in Task \ {t} : pc'[u] = pc[u]
        /\ IsLoader(t) /\ pc'[t] = "reread"
        /\ UNCHANGED <<state, outcome, rm>>
        /\ stray' \subseteq stray \cup {rm[t]}
      BY <1>6 DEF RL!acquire, RL!goto, RL!TypeOK, IsLoader, RL!managerVars
  <2>2. \A u \in Task \ {t} : IsLoader(u) => rm[u] # rm[t]
      BY <2>1 DEF Loaders
  <2>3. state[rm[t]] # "NotLoaded"
      BY <2>1 DEF Loaders
  <2>. QED  BY <2>1, <2>2, <2>3 DEF Loaders, IsLoader
<1>7. CASE RL!loadOk(t) \/ RL!loadErr(t)
  <2>1. /\ \A u \in Task \ {t} : pc'[u] = pc[u]
        /\ IsLoader(t) /\ pc'[t] \in {"done", "error", "failed"}
        /\ UNCHANGED <<rm, stray>>
        /\ \A m \in Task \ {rm[t]} : state'[m] = state[m] /\ outcome'[m] = outcome[m]
        /\ rm[t] \in Task => state'[rm[t]] # "NotLoaded"
    <3>1. CASE RL!loadOk(t)
        BY <3>1 DEF RL!loadOk, RL!leave, RL!goto, RL!TypeOK, IsLoader
    <3>2. CASE RL!loadErr(t)
        BY <3>2 DEF RL!loadErr, RL!leave, RL!goto, RL!TypeOK, IsLoader
    <3>. QED  BY <1>7, <3>1, <3>2
  <2>2. \A u \in Task \ {t} : IsLoader(u) => rm[u] # rm[t]
      BY <2>1 DEF Loaders
  <2>. QED  BY <2>1, <2>2 DEF Loaders, IsLoader
<1>. QED  BY <1>1, <1>2, <1>3, <1>4, <1>5, <1>6, <1>7 DEF RL!Step

---------------------------------------------------------------------------
(* Numbers and leases survive a step after which nobody leads, has a lease *)
(* or may renew it that did not before, apart from a task that has just    *)
(* read the lease.                                                         *)
LEMMA NumbersKept ==
    ASSUME Numbers,
           row'.leader_sequence_number = row.leader_sequence_number,
           \A n \in Task : Leading(n)' => Leading(n) /\ Number(n)' = Number(n)
    PROVE  Numbers'
<1>1. \A m \in Task : Leading(m)' => Number(m)' <= row'.leader_sequence_number
    BY DEF Numbers
<1>2. \A m, n \in Task : Leading(m)' /\ Leading(n)' /\ Number(m)' = Number(n)' => m = n
    BY DEF Numbers
<1>. QED  BY <1>1, <1>2 DEF Numbers

(* Leases that are neither taken nor given up are kept.                    *)
LEMMA LeasesKept ==
    ASSUME Leases,
           row'.epoch_lease = row.epoch_lease,
           \A n \in Task : Leased(n)' => Leased(n) /\ Lease(n)' = Lease(n),
           \A u \in Task :
               pc'[u] \in {"renew", "confirm"} /\ Number(rm[u])' = row'.leader_sequence_number =>
                   \/ /\ pc[u] = pc'[u] /\ Number(rm[u]) = row.leader_sequence_number
                      /\ Lease(rm[u])' = Lease(rm[u])
                   \/ pc'[u] = "renew" /\ Lease(rm[u])' = row.epoch_lease
    PROVE  Leases'
<1>1. \A m \in Task : Leased(m)' => Lease(m)'[2] <= row'.epoch_lease[2]
    BY DEF Leases
<1>2. \A m, n \in Task : m # n /\ Leased(m)' /\ Leased(n)' => RL!Disjoint(Lease(m), Lease(n))'
    BY DEF Leases, RL!Disjoint
<1>3. ASSUME NEW u \in Task, pc'[u] = "renew", Number(rm[u])' = row'.leader_sequence_number
      PROVE  Lease(rm[u])' = row'.epoch_lease
    BY <1>3 DEF Leases
<1>4. ASSUME NEW u \in Task, pc'[u] = "confirm", Number(rm[u])' = row'.leader_sequence_number
      PROVE  /\ row'.epoch_lease = RL!NextLease(Lease(rm[u]))'
             /\ \A n \in Task : Leased(n)' => Lease(n)'[2] <= Lease(rm[u])'[2]
  <2>1. /\ pc[u] = "confirm" /\ Number(rm[u]) = row.leader_sequence_number
        /\ Lease(rm[u])' = Lease(rm[u])
      BY <1>4
  <2>2. /\ row.epoch_lease = RL!NextLease(Lease(rm[u]))
        /\ \A n \in Task : Leased(n) => Lease(n)[2] <= Lease(rm[u])[2]
      BY <2>1 DEF Leases
  <2>. QED  BY <2>1, <2>2 DEF RL!NextLease
<1>. QED  BY <1>1, <1>2, <1>3, <1>4 DEF Leases

(* Steps that neither write the row nor the copies managers have of it.    *)
(* A manager leads or has its lease after the step only if it did before.  *)
LEMMA CalmStep ==
    ASSUME RL!TypeOK, Numbers, Clean => Leases,
           UNCHANGED <<row, range_info>>,
           stray' \subseteq stray,
           \A t \in Task : pc'[t] \in {"reread", "renew", "confirm", "finish"} =>
               pc'[t] = pc[t] /\ rm'[t] = rm[t] /\ rm[t] \notin stray \ stray',
           \A m \in Task : outcome'[m] = "ok" => Leased(m) /\ m \notin stray \ stray',
           \A m \in stray \ stray' : \E t \in Task : rm[t] = m /\ pc[t] = "reread"
    PROVE  Numbers' /\ (Clean => Leases)'
<1>1. \A m \in Task : /\ Number(m)' = Number(m) /\ Lease(m)' = Lease(m)
                      /\ Leading(m)' => Leading(m)
                      /\ Leased(m)' => Leased(m)
    BY SMTT(30) DEF Number, Lease, Leading, Leased
<1>2. Clean' => Clean
    BY SMTT(30) DEF Clean
<1>3. Numbers'
    BY <1>1, NumbersKept
<1>4. \A u \in Task : pc'[u] \in {"renew", "confirm"} =>
          /\ pc[u] = pc'[u]
          /\ Number(rm[u])' = Number(rm[u]) /\ Lease(rm[u])' = Lease(rm[u])
    BY DEF Number, Lease
<1>5. ASSUME Leases PROVE Leases'
    BY <1>1, <1>4, <1>5, LeasesKept
<1>. QED  BY <1>2, <1>3, <1>5

(* The steps of load_inner that take ownership are not calm.               *)
LEMMA ServerOwnership ==
    ASSUME LoadingIInv, NEW s \in Server,
           RL!process_warden_update(s) \/ RL!warden_update_loop(s) \/ RL!unload(s)
    PROVE  Numbers' /\ (Clean => Leases)'
<1>1. UNCHANGED <<row, range_info, outcome, rm, stray>>
    BY DEF RL!process_warden_update, RL!warden_update_loop, RL!unload, RL!managerVars, RL!taskVars
<1>2. \A t \in Task : pc'[t] = pc[t] \/ pc'[t] = "fast"
    BY DEF LoadingIInv, RL!TypeOK, RL!process_warden_update, RL!warden_update_loop, RL!unload,
           RL!goto, RL!taskVars
<1>. QED  BY <1>1, <1>2, CalmStep DEF LoadingIInv, Leased

(* Steps of a task before and after it loads leave ownership alone.        *)
LEMMA TaskOwnership ==
    ASSUME LoadingIInv, NEW t \in Task,
           \/ RL!request(t) \/ RL!fastPath(t) \/ RL!is_assigned(t) \/ RL!insert(t) \/ RL!removeFailed(t)
           \/ RL!load(t) \/ RL!wait(t) \/ RL!callFails(t) \/ RL!loadOk(t) \/ RL!loadErr(t)
    PROVE  Numbers' /\ (Clean => Leases)'
<1>. USE DEF LoadingIInv
<1>1. CASE \/ RL!request(t) \/ RL!fastPath(t) \/ RL!is_assigned(t) \/ RL!insert(t) \/ RL!removeFailed(t)
           \/ RL!load(t) \/ RL!wait(t)
  <2>1. UNCHANGED <<row, range_info, outcome, stray>>
      BY <1>1 DEF RL!request, RL!fastPath, RL!is_assigned, RL!insert, RL!removeFailed, RL!load,
                  RL!wait, RL!managerVars
  <2>2. \E l \in {"fast", "check", "load", "insert", "error", "failed", "done", "wait", "lookup"} :
            RL!goto(t, l)
    <3>1. CASE RL!request(t) \/ RL!fastPath(t) \/ RL!is_assigned(t) \/ RL!insert(t) \/ RL!removeFailed(t)
        BY <3>1 DEF RL!request, RL!fastPath, RL!is_assigned, RL!insert, RL!removeFailed
    <3>2. CASE RL!load(t) \/ RL!wait(t)
        BY <3>2 DEF RL!load, RL!wait, RL!leave
    <3>. QED  BY <1>1, <3>1, <3>2
  <2>3. \A u \in Task \ {t} : rm'[u] = rm[u]
    <3>1. rm' = rm \/ \E m : rm' = [rm EXCEPT ![t] = m]
        BY <1>1 DEF RL!request, RL!fastPath, RL!is_assigned, RL!insert, RL!removeFailed, RL!load,
                    RL!wait
    <3>. QED  BY <3>1 DEF RL!TypeOK
  <2>4. /\ \A u \in Task \ {t} : pc'[u] = pc[u]
        /\ pc'[t] \notin {"reread", "renew", "confirm", "finish"}
      BY <2>2 DEF RL!goto, RL!TypeOK
  <2>. QED  BY <2>1, <2>3, <2>4, CalmStep DEF Leased
<1>2. CASE RL!callFails(t)
  <2>1. UNCHANGED <<row, range_info, outcome, rm>>
      BY <1>2 DEF RL!callFails, RL!managerVars
  <2>2. /\ pc'[t] = "abandon" /\ \A u \in Task \ {t} : pc'[u] = pc[u]
        /\ IsLoader(t)
      BY <1>2 DEF RL!callFails, RL!goto, RL!TypeOK, IsLoader
  <2>3. stray' = stray \/ (pc[t] = "reread" /\ stray' = stray \ {rm[t]})
      BY <1>2 DEF RL!callFails
  <2>4. \A u \in Task \ {t} : IsLoader(u) => rm[u] # rm[t]
      BY <2>2 DEF Loaders
  <2>5. outcome[rm[t]] = "none"
      BY <2>2 DEF Loaders
  <2>. QED  BY <2>1, <2>2, <2>3, <2>4, <2>5, CalmStep DEF Leased, IsLoader
<1>3. CASE RL!loadOk(t) \/ RL!loadErr(t)
  <2>1. UNCHANGED <<row, range_info, rm, stray>>
      BY <1>3 DEF RL!loadOk, RL!loadErr
  <2>2. \A u \in Task \ {t} : pc'[u] = pc[u]
      BY <1>3 DEF RL!loadOk, RL!loadErr, RL!leave, RL!goto, RL!TypeOK
  <2>3. pc'[t] \in {"done", "error", "failed"}
      BY <1>3 DEF RL!loadOk, RL!loadErr, RL!leave, RL!goto, RL!TypeOK
  <2>4. \A m \in Task : outcome'[m] = "ok" => outcome[m] = "ok" \/ (rm[t] = m /\ pc[t] = "finish")
      BY <1>3 DEF RL!loadOk, RL!loadErr, RL!TypeOK
  <2>. QED  BY <2>1, <2>2, <2>3, <2>4, CalmStep DEF Leased
<1>. QED  BY <1>1, <1>2, <1>3

---------------------------------------------------------------------------
(* What is known of the manager that a task loads                          *)
LEMMA LoaderKnows ==
    ASSUME Loaders, NEW t \in Task, IsLoader(t)
    PROVE  /\ rm[t] \in Task /\ outcome[rm[t]] = "none"
           /\ \A u \in Task : IsLoader(u) /\ rm[u] = rm[t] => u = t
           /\ Leased(rm[t]) <=> pc[t] = "finish"
           /\ Leading(rm[t]) <=> /\ rm[t] \notin stray
                                 /\ pc[t] \in {"reread", "renew", "confirm", "finish"}
           /\ Clean /\ rm[t] \in stray => pc[t] = "reread"
<1>1. rm[t] \in Task /\ outcome[rm[t]] = "none"
    BY DEF Loaders
<1>2. \A u \in Task : IsLoader(u) /\ rm[u] = rm[t] => u = t
    BY DEF Loaders
<1>3. \A u \in Task : rm[u] = rm[t] /\ pc[u] \in {"reread", "renew", "confirm", "finish"} => u = t
    BY <1>2 DEF IsLoader
<1>. QED  BY <1>1, <1>2, <1>3 DEF Leased, Leading, Clean

(* A step of load_inner leaves the other managers alone.                   *)
LEMMA OthersKeepLease ==
    ASSUME Loaders, NEW t \in Task, IsLoader(t),
           \A u \in Task \ {t} : pc'[u] = pc[u],
           UNCHANGED <<rm, outcome>>,
           \A n \in Task \ {rm[t]} : /\ range_info'[n] = range_info[n]
                                     /\ n \in stray' <=> n \in stray
    PROVE  \A n \in Task \ {rm[t]} :
               /\ Number(n)' = Number(n) /\ Lease(n)' = Lease(n)
               /\ Leading(n)' <=> Leading(n)
               /\ Leased(n)' <=> Leased(n)
<1>. SUFFICES ASSUME NEW n \in Task \ {rm[t]}
              PROVE  /\ Number(n)' = Number(n) /\ Lease(n)' = Lease(n)
                     /\ Leading(n)' <=> Leading(n)
                     /\ Leased(n)' <=> Leased(n)
    OBVIOUS
<1>1. Number(n)' = Number(n) /\ Lease(n)' = Lease(n)
    BY DEF Number, Lease
<1>2. \A u \in Task : rm[u] = n => pc'[u] = pc[u]
    OBVIOUS
<1>. QED  BY <1>1, <1>2 DEF Leading, Leased

(* A manager that reads the row does not lead yet.                         *)
LEMMA LookupOwnership ==
    ASSUME LoadingIInv, NEW t \in Task, RL!lookup(t)
    PROVE  Numbers' /\ (Clean => Leases)'
<1>. USE DEF LoadingIInv
<1>1. IsLoader(t) /\ pc[t] = "lookup"
    BY DEF RL!lookup, IsLoader
<1>2. PICK m \in Task : m = rm[t]
    BY <1>1, LoaderKnows
<1>3. /\ \A u \in Task \ {t} : pc'[u] = pc[u]
      /\ pc'[t] = "acquire"
      /\ UNCHANGED <<rm, outcome, row, stray>>
      /\ \A n \in Task \ {m} : range_info'[n] = range_info[n]
    BY <1>2 DEF RL!lookup, RL!goto, RL!TypeOK
<1>4. \A n \in Task \ {m} : /\ Number(n)' = Number(n) /\ Lease(n)' = Lease(n)
                            /\ Leading(n)' <=> Leading(n)
                            /\ Leased(n)' <=> Leased(n)
    BY <1>1, <1>2, <1>3, OthersKeepLease
<1>5. outcome[m] = "none" /\ \A u \in Task : IsLoader(u) /\ rm[u] = m => u = t
    BY <1>1, <1>2, LoaderKnows
<1>6. ~Leading(m)' /\ ~Leased(m)'
    BY <1>3, <1>5 DEF Leading, Leased, IsLoader
<1>7. Numbers'
    BY <1>3, <1>4, <1>6, NumbersKept
<1>8. Clean' => Clean
    BY <1>3, SMTT(30) DEF Clean
<1>9. \A u \in Task : pc'[u] \in {"renew", "confirm"} =>
          /\ pc[u] = pc'[u]
          /\ Number(rm[u])' = Number(rm[u]) /\ Lease(rm[u])' = Lease(rm[u])
  <2>1. \A u \in Task \ {t} : IsLoader(u) => rm[u] \in Task \ {m}
      BY <1>5 DEF Loaders
  <2>. QED  BY <1>3, <2>1 DEF IsLoader, Number, Lease
<1>10. ASSUME Leases PROVE Leases'
    BY <1>3, <1>4, <1>6, <1>9, <1>10, LeasesKept
<1>. QED  BY <1>7, <1>8, <1>10

(* The conditional update: a new leader has a number larger than all       *)
(* before it, and the others can no longer renew.                          *)
LEMMA AcquireOwnership ==
    ASSUME LoadingIInv, NEW t \in Task, RL!acquire(t)
    PROVE  Numbers' /\ (Clean => Leases)'
<1>. USE DEF LoadingIInv
<1>1. IsLoader(t) /\ pc[t] = "acquire" /\ rm[t] \notin stray
    BY DEF RL!acquire, IsLoader, Loaders
<1>2. PICK m \in Task : m = rm[t]
    BY <1>1, LoaderKnows
<1>3. /\ \A u \in Task \ {t} : pc'[u] = pc[u]
      /\ pc'[t] = "reread"
      /\ UNCHANGED <<rm, outcome, range_info>>
      /\ stray' = stray \/ stray' = stray \cup {m}
    BY <1>2 DEF RL!acquire, RL!goto, RL!TypeOK, RL!managerVars
<1>4. \A n \in Task : Number(n)' = Number(n) /\ Lease(n)' = Lease(n)
    BY <1>3 DEF Number, Lease
<1>5. \A n \in Task \ {m} : (Leading(n)' <=> Leading(n)) /\ (Leased(n)' <=> Leased(n))
    BY <1>1, <1>2, <1>3, OthersKeepLease
<1>6. outcome[m] = "none" /\ \A u \in Task : IsLoader(u) /\ rm[u] = m => u = t
    BY <1>1, <1>2, LoaderKnows
<1>7. ~Leased(m)'
    BY <1>3, <1>6 DEF Leased, IsLoader
<1>8. Clean' => Clean
  <2>1. m \notin stray
      BY <1>1, <1>2
  <2>. QED  BY <1>2, <1>3, <2>1, SMTT(30) DEF Clean
<1>9. \A u \in Task : pc'[u] \in {"renew", "confirm"} =>
          /\ pc[u] = pc'[u]
          /\ Number(rm[u])' = Number(rm[u]) /\ Lease(rm[u])' = Lease(rm[u])
    BY <1>3 DEF Number, Lease
<1>10. CASE row.leader_sequence_number = Number(m) - 1
  <2>1. row'.leader_sequence_number = Number(m) /\ row'.epoch_lease = row.epoch_lease
    <3>1. row' = [row EXCEPT !.leader_sequence_number = Number(m)]
        BY <1>2, <1>10 DEF RL!acquire, Number
    <3>. QED  BY <3>1 DEF RL!TypeOK, RL!RangeInfo
  <2>2. row.leader_sequence_number \in Nat /\ \A n \in Task : Number(n) \in Nat
      BY DEF RL!TypeOK, RL!RangeInfo, Number
  <2>3. \A n \in Task : Leading(n) => Number(n) < Number(m)
      BY <1>10, <2>2, SMTT(30) DEF Numbers
  <2>4. Numbers'
    <3>1. \A n \in Task \ {m} : Leading(n)' => Number(n)' < Number(m)'
        BY <1>4, <1>5, <2>3
    <3>2. \A n \in Task : Number(n)' \in Nat /\ Number(m)' = row'.leader_sequence_number
        BY <1>4, <2>1, <2>2
    <3>3. \A n \in Task : Leading(n)' => Number(n)' <= row'.leader_sequence_number
        BY <3>1, <3>2, SMTT(30)
    <3>4. \A n \in Task \ {m} : Leading(n)' => Number(n)' # Number(m)'
        BY <3>1, <3>2, SMTT(30)
    <3>5. \A n, k \in Task \ {m} :
              Leading(n)' /\ Leading(k)' /\ Number(n)' = Number(k)' => n = k
        BY <1>4, <1>5 DEF Numbers
    <3>. QED  BY <3>3, <3>4, <3>5 DEF Numbers
  <2>5. ASSUME Clean, Leases PROVE Leases'
    <3>1. ASSUME NEW u \in Task, pc'[u] \in {"renew", "confirm"}
          PROVE  Number(rm[u])' # row'.leader_sequence_number
      <4>1. IsLoader(u) /\ pc[u] \in {"renew", "confirm"}
          BY <1>9, <3>1 DEF IsLoader
      <4>2. rm[u] \in Task /\ Leading(rm[u])
          BY <4>1, <2>5, LoaderKnows
      <4>3. Number(rm[u]) < Number(m) /\ Number(rm[u]) \in Nat /\ Number(m) \in Nat
          BY <2>2, <2>3, <4>2
      <4>4. Number(rm[u])' = Number(rm[u])
          BY <1>9, <3>1
      <4>. QED  BY <2>1, <4>3, <4>4, SMTT(30)
    <3>. QED  BY <1>4, <1>5, <1>7, <2>1, <2>5, <3>1, LeasesKept
  <2>. QED  BY <1>8, <2>4, <2>5
<1>11. CASE row.leader_sequence_number # Number(m) - 1
  <2>1. UNCHANGED row /\ m \in stray'
      BY <1>2, <1>11 DEF RL!acquire, Number
  <2>2. ~Leading(m)'
      BY <2>1 DEF Leading
  <2>3. Numbers'
      BY <1>4, <1>5, <2>1, <2>2, NumbersKept
  <2>4. ASSUME Leases PROVE Leases'
      BY <1>4, <1>5, <1>7, <1>9, <2>1, <2>4, LeasesKept
  <2>. QED  BY <1>8, <2>3, <2>4
<1>. QED  BY <1>10, <1>11

(* The read after the update: the lease that is read is the row's.         *)
LEMMA RereadOwnership ==
    ASSUME LoadingIInv, NEW t \in Task, RL!reread(t)
    PROVE  Numbers' /\ (Clean => Leases)'
<1>. USE DEF LoadingIInv
<1>1. IsLoader(t) /\ pc[t] = "reread"
    BY DEF RL!reread, IsLoader
<1>2. PICK m \in Task : m = rm[t]
    BY <1>1, LoaderKnows
<1>3. \A u \in Task \ {t} : pc'[u] = pc[u]
    BY DEF RL!reread, RL!goto, RL!TypeOK
<1>4. UNCHANGED <<rm, outcome, row>>
    BY DEF RL!reread
<1>5. outcome[m] = "none" /\ \A u \in Task : IsLoader(u) /\ rm[u] = m => u = t
    BY <1>1, <1>2, LoaderKnows
<1>6. CASE row.leader_sequence_number # Number(m)
  <2>1. UNCHANGED range_info /\ stray' = stray \ {m} /\ pc'[t] = "abandon"
      BY <1>2, <1>6 DEF RL!reread, RL!goto, Number, RL!TypeOK
  <2>. QED  BY <1>1, <1>2, <1>3, <1>4, <1>5, <2>1, CalmStep DEF Leased, IsLoader
<1>7. CASE row.leader_sequence_number = Number(m)
  <2>1. UNCHANGED stray /\ pc'[t] = "renew"
      BY <1>2, <1>7 DEF RL!reread, RL!goto, Number, RL!TypeOK
  <2>2. /\ \A n \in Task \ {m} : range_info'[n] = range_info[n]
        /\ Lease(m)' = row.epoch_lease /\ Number(m)' = Number(m)
    <3>1. range_info' = [range_info EXCEPT ![m].epoch_lease = row.epoch_lease]
        BY <1>2, <1>7 DEF RL!reread, Number
    <3>. QED  BY <3>1 DEF RL!TypeOK, RL!RangeInfo, Number, Lease
  <2>3. \A n \in Task \ {m} : /\ Number(n)' = Number(n) /\ Lease(n)' = Lease(n)
                              /\ Leading(n)' <=> Leading(n)
                              /\ Leased(n)' <=> Leased(n)
      BY <1>1, <1>2, <1>3, <1>4, <2>1, <2>2, OthersKeepLease
  <2>4. Leading(m)' => Leading(m)
      BY <1>1, <1>2, <2>1 DEF Leading
  <2>5. ~Leased(m)'
      BY <1>3, <1>4, <1>5, <2>1 DEF Leased, IsLoader
  <2>6. Numbers'
      BY <1>4, <2>2, <2>3, <2>4, NumbersKept
  <2>7. Clean' => Clean
      BY <1>3, <1>4, <2>1, SMTT(30) DEF Clean
  <2>8. ASSUME Leases PROVE Leases'
    <3>1. \A u \in Task \ {t} : pc'[u] \in {"renew", "confirm"} =>
              /\ pc[u] = pc'[u]
              /\ Number(rm[u])' = Number(rm[u]) /\ Lease(rm[u])' = Lease(rm[u])
      <4>1. \A u \in Task \ {t} : IsLoader(u) => rm[u] \in Task \ {m}
          BY <1>5 DEF Loaders
      <4>. QED  BY <1>3, <1>4, <2>2, <4>1 DEF IsLoader, Number, Lease
    <3>2. Lease(rm[t])' = row.epoch_lease
        BY <1>2, <1>4, <2>2 DEF Lease
    <3>. QED  BY <1>4, <2>1, <2>3, <2>5, <2>8, <3>1, <3>2, LeasesKept
  <2>. QED  BY <2>6, <2>7, <2>8
<1>. QED  BY <1>6, <1>7

(* Two tasks past the reread whose managers have the row's number are one. *)
LEMMA RowHasOneLeader ==
    ASSUME LoadingIInv, Clean, NEW t \in Task, NEW u \in Task,
           pc[t] \in {"renew", "confirm"}, pc[u] \in {"renew", "confirm"},
           Number(rm[t]) = row.leader_sequence_number,
           Number(rm[u]) = row.leader_sequence_number
    PROVE  t = u
<1>1. IsLoader(t) /\ IsLoader(u)
    BY DEF IsLoader
<1>2. Leading(rm[t]) /\ Leading(rm[u]) /\ rm[t] \in Task /\ rm[u] \in Task
    BY <1>1, LoaderKnows DEF LoadingIInv
<1>3. rm[t] = rm[u]
    BY <1>2 DEF LoadingIInv, Numbers
<1>. QED  BY <1>1, <1>3, LoaderKnows DEF LoadingIInv

(* The renewal extends the row's lease past all leases given before.       *)
LEMMA RenewOwnership ==
    ASSUME RL!LoadingAssumption,
           LoadingIInv, NEW t \in Task, RL!renew_epoch_lease(t)
    PROVE  Numbers' /\ (Clean => Leases)'
<1>. USE DEF LoadingIInv
<1>1. IsLoader(t) /\ pc[t] = "renew"
    BY DEF RL!renew_epoch_lease, IsLoader
<1>2. PICK m \in Task : m = rm[t]
    BY <1>1, LoaderKnows
<1>3. /\ \A u \in Task \ {t} : pc'[u] = pc[u]
      /\ pc'[t] = "confirm"
    BY DEF RL!renew_epoch_lease, RL!goto, RL!TypeOK
<1>4. UNCHANGED <<rm, outcome, range_info, stray>>
    BY DEF RL!renew_epoch_lease, RL!managerVars
<1>5. \A n \in Task : Number(n)' = Number(n) /\ Lease(n)' = Lease(n)
    BY <1>4 DEF Number, Lease
<1>6. \A n \in Task \ {m} : (Leading(n)' <=> Leading(n)) /\ (Leased(n)' <=> Leased(n))
    BY <1>1, <1>2, <1>3, <1>4, OthersKeepLease
<1>7. outcome[m] = "none" /\ \A u \in Task : IsLoader(u) /\ rm[u] = m => u = t
    BY <1>1, <1>2, LoaderKnows
<1>8. Leading(m)' => Leading(m)
    BY <1>1, <1>2, <1>4 DEF Leading
<1>9. ~Leased(m)'
    BY <1>3, <1>4, <1>7 DEF Leased, IsLoader
<1>10. row'.leader_sequence_number = row.leader_sequence_number
    BY DEF RL!renew_epoch_lease, RL!TypeOK, RL!RangeInfo
<1>11. Numbers'
    BY <1>5, <1>6, <1>8, <1>10, NumbersKept
<1>12. Clean' => Clean
    BY <1>3, <1>4, SMTT(30) DEF Clean
<1>13. \A u \in Task : Number(rm[u])' = Number(rm[u]) /\ Lease(rm[u])' = Lease(rm[u])
    BY <1>4 DEF Number, Lease
<1>14. ASSUME Clean, Leases PROVE Leases'
  <2>1. CASE row.leader_sequence_number = Number(m)
    <3>1. row'.epoch_lease = RL!NextLease(Lease(m))
        BY <1>2, <2>1 DEF RL!renew_epoch_lease, Number, Lease, RL!TypeOK, RL!RangeInfo
    <3>2. Lease(m) = row.epoch_lease
        BY <1>1, <1>2, <1>14, <2>1 DEF Leases
    <3>3. \A n \in Task : Leased(n)' => Lease(n)'[2] <= Lease(m)[2]
        BY <1>5, <1>6, <1>9, <1>14, <3>2 DEF Leases
    <3>4. \A n \in Task : Leased(n)' => Lease(n)'[2] <= row'.epoch_lease[2]
      <4>1. Lease(m)[2] \in Nat /\ \A n \in Task : Lease(n)'[2] \in Nat
          BY <1>5 DEF RL!TypeOK, RL!RangeInfo, Lease
      <4>2. Lease(m)[2] <= row'.epoch_lease[2] /\ row'.epoch_lease[2] \in Nat
          BY <3>1, <4>1, SMTT(30) DEF RL!LoadingAssumption, RL!NextLease
      <4>. HIDE DEF LoadingIInv
      <4>. QED  BY <3>3, <4>1, <4>2, SMTT(30)
    <3>5. \A u \in Task : /\ pc'[u] \in {"renew", "confirm"}
                          /\ Number(rm[u])' = row'.leader_sequence_number
                          => u = t
        BY <1>1, <1>2, <1>3, <1>10, <1>13, <1>14, <2>1, RowHasOneLeader
    <3>6. row'.epoch_lease = RL!NextLease(Lease(rm[t]))'
        BY <1>2, <1>13, <3>1 DEF RL!NextLease
    <3>7. \A n \in Task : Leased(n)' => Lease(n)'[2] <= Lease(rm[t])'[2]
        BY <1>2, <1>13, <3>3
    <3>8. \A n, k \in Task : n # k /\ Leased(n)' /\ Leased(k)' => RL!Disjoint(Lease(n), Lease(k))'
        BY <1>5, <1>6, <1>9, <1>14 DEF Leases, RL!Disjoint
    <3>. QED  BY <1>3, <3>4, <3>5, <3>6, <3>7, <3>8 DEF Leases
  <2>2. CASE row.leader_sequence_number # Number(m)
    <3>1. UNCHANGED row
        BY <1>2, <2>2 DEF RL!renew_epoch_lease, Number
    <3>2. Number(rm[t])' # row'.leader_sequence_number
        BY <1>2, <1>13, <2>2, <3>1
    <3>. QED
        BY <1>3, <1>5, <1>6, <1>9, <1>13, <1>14, <3>1, <3>2, LeasesKept
  <2>. QED  BY <2>1, <2>2
<1>. QED  BY <1>11, <1>12, <1>14

(* The read after the renewal: the manager takes the lease it has written, *)
(* which begins after all others.                                          *)
LEMMA ConfirmOwnership ==
    ASSUME LoadingIInv, NEW t \in Task, RL!confirm(t)
    PROVE  Numbers' /\ (Clean => Leases)'
<1>. USE DEF LoadingIInv
<1>1. IsLoader(t) /\ pc[t] = "confirm"
    BY DEF RL!confirm, IsLoader
<1>2. PICK m \in Task : m = rm[t]
    BY <1>1, LoaderKnows
<1>3. \A u \in Task \ {t} : pc'[u] = pc[u]
    BY DEF RL!confirm, RL!goto, RL!TypeOK
<1>4. UNCHANGED <<rm, outcome, row, stray>>
    BY DEF RL!confirm
<1>5. outcome[m] = "none" /\ \A u \in Task : IsLoader(u) /\ rm[u] = m => u = t
    BY <1>1, <1>2, LoaderKnows
<1>6. CASE row.leader_sequence_number # Number(m)
  <2>1. UNCHANGED range_info /\ pc'[t] = "abandon"
      BY <1>2, <1>6 DEF RL!confirm, RL!goto, Number, RL!TypeOK
  <2>. QED  BY <1>3, <1>4, <2>1, CalmStep DEF Leased
<1>7. CASE row.leader_sequence_number = Number(m)
  <2>1. pc'[t] = "finish"
      BY <1>2, <1>7 DEF RL!confirm, RL!goto, Number, RL!TypeOK
  <2>2. /\ \A n \in Task \ {m} : range_info'[n] = range_info[n]
        /\ Lease(m)' = RL!NextLease(Lease(m)) /\ Number(m)' = Number(m)
    <3>1. range_info' = [range_info EXCEPT ![m].epoch_lease = RL!NextLease(Lease(m))]
        BY <1>2, <1>7 DEF RL!confirm, Number, Lease
    <3>. QED  BY <3>1 DEF RL!TypeOK, RL!RangeInfo, Number, Lease
  <2>3. \A n \in Task \ {m} : /\ Number(n)' = Number(n) /\ Lease(n)' = Lease(n)
                              /\ Leading(n)' <=> Leading(n)
                              /\ Leased(n)' <=> Leased(n)
      BY <1>1, <1>2, <1>3, <1>4, <2>2, OthersKeepLease
  <2>4. Leading(m)' => Leading(m)
      BY <1>1, <1>2, <1>4 DEF Leading
  <2>5. Numbers'
      BY <1>4, <2>2, <2>3, <2>4, NumbersKept
  <2>6. Clean' => Clean
      BY <1>3, <1>4, <2>1, SMTT(30) DEF Clean
  <2>7. ASSUME Clean, Leases PROVE Leases'
    <3>1. /\ row.epoch_lease = RL!NextLease(Lease(m))
          /\ \A n \in Task : Leased(n) => Lease(n)[2] <= Lease(m)[2]
        BY <1>1, <1>2, <1>7, <2>7 DEF Leases
    <3>2. row.epoch_lease[2] \in Nat /\ \A n \in Task : Lease(n)[2] \in Nat
        BY DEF RL!TypeOK, RL!RangeInfo, Lease
    <3>3. Lease(m)'[1] = Lease(m)[2] + 1 /\ Lease(m)'[2] = row.epoch_lease[2]
        BY <2>2, <3>1, SMTT(30) DEF RL!NextLease
    <3>4. ASSUME NEW n \in Task \ {m}, Leased(n)'
          PROVE  Lease(n)'[2] <= Lease(m)[2] /\ Lease(n)'[2] <= row.epoch_lease[2]
      <4>1. Leased(n) /\ Lease(n)' = Lease(n)
          BY <2>3, <3>4
      <4>. QED  BY <2>7, <3>1, <4>1 DEF Leases
    <3>5. \A n \in Task : Leased(n)' => Lease(n)'[2] <= row'.epoch_lease[2]
      <4>1. Lease(m)'[2] <= row.epoch_lease[2]
          BY <3>2, <3>3, SMTT(30)
      <4>. QED  BY <1>4, <3>4, <4>1
    <3>6. ASSUME NEW n \in Task \ {m}, Leased(n)' PROVE Lease(n)'[2] < Lease(m)'[1]
      <4>1. Lease(n)'[2] \in Nat /\ Lease(m)[2] \in Nat
          BY <2>3, <3>2
      <4>. QED  BY <3>3, <3>4, <3>6, <4>1, SMTT(30)
    <3>7. \A n, k \in Task : n # k /\ Leased(n)' /\ Leased(k)' => RL!Disjoint(Lease(n), Lease(k))'
      <4>1. \A n, k \in Task \ {m} :
                n # k /\ Leased(n)' /\ Leased(k)' => RL!Disjoint(Lease(n), Lease(k))'
          BY <2>3, <2>7 DEF Leases, RL!Disjoint
      <4>. QED  BY <3>6, <4>1 DEF RL!Disjoint
    <3>8. \A u \in Task : pc'[u] \in {"renew", "confirm"} =>
              /\ u # t /\ pc[u] = pc'[u]
              /\ Number(rm[u])' = Number(rm[u]) /\ Lease(rm[u])' = Lease(rm[u])
      <4>1. \A u \in Task \ {t} : IsLoader(u) => rm[u] \in Task \ {m}
          BY <1>5 DEF Loaders
      <4>. QED  BY <1>3, <1>4, <2>1, <2>2, <4>1 DEF IsLoader, Number, Lease
    <3>9. \A u \in Task : pc'[u] \in {"renew", "confirm"} =>
              Number(rm[u])' # row'.leader_sequence_number
        BY <1>1, <1>2, <1>4, <1>7, <2>7, <3>8, RowHasOneLeader
    <3>. QED  BY <3>5, <3>7, <3>9 DEF Leases
  <2>. QED  BY <2>5, <2>6, <2>7
<1>. QED  BY <1>6, <1>7

---------------------------------------------------------------------------
(* Theorems                                                                *)

(* The inductive invariant holds in every reachable state.                 *)
THEOREM LoadingInvariance ==
    ASSUME RL!LoadingAssumption
    PROVE  RL!Spec => []LoadingIInv
<1>1. LoadingIInv /\ [RL!Next]_RL!vars => LoadingIInv'
  <2>. SUFFICES ASSUME LoadingIInv, [RL!Next]_RL!vars PROVE LoadingIInv'
      OBVIOUS
  <2>1. ASSUME NEW s \in Server,
               RL!process_warden_update(s) \/ RL!warden_update_loop(s) \/ RL!unload(s)
        PROVE  LoadingIInv'
      BY <2>1, ServerTypeOK, ServerLoaders, ServerOwnership DEF LoadingIInv
  <2>2. ASSUME NEW t \in Task, RL!request(t) \/ RL!callFails(t) \/ RL!Step(t) PROVE LoadingIInv'
    <3>1. RL!TypeOK' /\ Loaders'
        BY <2>2, TaskTypeOK, TaskLoaders DEF LoadingIInv
    <3>2. Numbers' /\ (Clean => Leases)'
        BY <2>2, TaskOwnership, LookupOwnership, AcquireOwnership, RereadOwnership,
           RenewOwnership, ConfirmOwnership DEF RL!Step
    <3>. QED  BY <3>1, <3>2 DEF LoadingIInv
  <2>3. CASE UNCHANGED RL!vars
    <3>. USE <2>3 DEF RL!vars, RL!serverVars, RL!managerVars, RL!taskVars, LoadingIInv
    <3>1. RL!TypeOK'
        BY DEF RL!TypeOK
    <3>2. Loaders'
        BY DEF Loaders, IsLoader
    <3>3. Numbers' /\ (Clean => Leases)'
        BY CalmStep DEF Leased
    <3>. QED  BY <3>1, <3>2, <3>3
  <2>. QED  BY <2>1, <2>2, <2>3 DEF RL!Next
<1>. QED  BY LoadingInitIInv, <1>1, PTL DEF RL!Spec

(* Every variable keeps its type; in particular a task that loads or waits *)
(* has a manager.                                                          *)
THEOREM LoadingTypeCorrect ==
    ASSUME RL!LoadingAssumption
    PROVE  RL!Spec => []RL!TypeOK
BY LoadingInvariance, PTL DEF LoadingIInv

(* Managers that have loaded the range have different leader numbers, and  *)
(* disjoint leases, unless one took another's update of the row for its    *)
(* own.                                                                    *)
THEOREM OwnershipIsExclusive ==
    ASSUME RL!LoadingAssumption
    PROVE  RL!Spec => []RL!LeadersAreExclusive
<1>1. LoadingIInv => RL!LeadersAreExclusive
  <2>. SUFFICES ASSUME LoadingIInv, NEW m \in Task \ stray, NEW n \in Task \ stray,
                       m # n, outcome[m] = "ok", outcome[n] = "ok"
                PROVE  /\ Number(m) # Number(n)
                       /\ stray = {} => RL!Disjoint(Lease(m), Lease(n))
      BY DEF RL!LeadersAreExclusive, Number, Lease
  <2>1. Leading(m) /\ Leading(n) /\ Leased(m) /\ Leased(n)
      BY DEF Leading, Leased
  <2>2. stray = {} => Clean
      BY DEF Clean
  <2>. QED  BY <2>1, <2>2 DEF LoadingIInv, Numbers, Leases
<1>. QED  BY LoadingInvariance, <1>1, PTL
=============================================================================
