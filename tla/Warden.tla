------------------------------- MODULE Warden -------------------------------
(***************************************************************************)
(* The warden: which range server serves which range.  Range servers       *)
(* register over a stream (warden/src/server.rs) and are told of every new *)
(* version of the assignment; one loop of the warden                       *)
(* (warden/src/assignment_computation.rs) compares the registered servers  *)
(* with those of its last pass and computes the next version.  The range   *)
(* server's end of the stream is rangeserver/src/warden_handler.rs.        *)
(*                                                                         *)
(* A stream may break at any time.  The warden notices later than the      *)
(* server, so several streams of one server may be open at the warden.  A  *)
(* server that restarts counts its connection epochs from the beginning.   *)
(***************************************************************************)
EXTENDS Naturals, Sequences, FiniteSets, Functions

CONSTANTS Server,           \* identities of the range servers
          Rank,             \* place of a server's name in the order of strings
          RangeId,          \* ranges the universe may come to report
          None,
          MaxVersion,       \* bound on versions of the assignment
          MaxEpoch,         \* bound on connections of one run of a server
          MaxFailures       \* bound on persistence errors

ASSUME RankAssumption == Rank \in [Server -> Nat]
ASSUME RangeAssumption == IsFiniteSet(RangeId) /\ None \notin Server

MIN_NUM_RANGE_SERVERS == 1

VARIABLES
    base_ranges, unassigned_base_ranges,
    range_assignments,      \* the current version: range -> assignee, or None
    current_version,
    ready_range_servers,    \* server -> warden_connection_epoch, 0 when not registered
    prev_ready_servers,     \* the loop's local set
    pass,                   \* where the loop is: "compute" or "persist"
    new_assignments,        \* locals of a pass: [ready, assignments]
    streams,                \* open AssignmentUpdateStreams
    connection,             \* server -> epoch of its connection, 0 when it has none
    inbox,                  \* server -> updates on their way to it
    epoch,                  \* server -> last epoch read
    assigned_ranges,        \* server -> ranges its handler holds
    life,                   \* server -> how often it has restarted
    failures

loopVars == <<prev_ready_servers, pass, new_assignments>>
assignmentVars == <<base_ranges, unassigned_base_ranges, range_assignments, current_version>>
handlerVars == <<connection, inbox, epoch, assigned_ranges, life>>
vars == <<loopVars, assignmentVars, handlerVars, ready_range_servers, streams, failures>>

Idle == [ready |-> {}, assignments |-> [r \in RangeId |-> None]]

Init ==
    /\ base_ranges = {}
    /\ unassigned_base_ranges = {}
    /\ range_assignments = [r \in RangeId |-> None]
    /\ current_version = 0
    /\ ready_range_servers = [s \in Server |-> 0]
    /\ prev_ready_servers = {}
    /\ pass = "compute"
    /\ new_assignments = Idle
    /\ streams = {}
    /\ connection = [s \in Server |-> 0]
    /\ inbox = [s \in Server |-> << >>]
    /\ epoch = [s \in Server |-> 0]
    /\ assigned_ranges = [s \in Server |-> {}]
    /\ life = [s \in Server |-> 0]
    /\ failures = 0

Ready == {s \in Server : ready_range_servers[s] # 0}
RangesOf(assignments, s) == {r \in RangeId : assignments[r] = s}

---------------------------------------------------------------------------
(* The loop                                                                *)

(* The first half of the loop's body.  The universe's list of base ranges  *)
(* only grows; a read that fails, or finds nothing new, changes nothing    *)
(* and is left out.                                                        *)
read_base_ranges ==
    /\ pass = "compute"
    /\ \E new \in SUBSET (RangeId \ base_ranges) \ {{}} :
           /\ base_ranges' = base_ranges \cup new
           /\ unassigned_base_ranges' = unassigned_base_ranges \cup new
    /\ UNCHANGED <<range_assignments, current_version, ready_range_servers, loopVars, streams,
                   handlerVars, failures>>

(* The heap has an entry for every server that has ranges, ready or not,   *)
(* and one for every added server; when that is nobody, one for every      *)
(* ready server.  A server may have both kinds of entry.                   *)
ServerHeap(added) ==
    LET busy == {s \in Server : RangesOf(range_assignments, s) # {}}
        entries == {<<s, "busy">> : s \in busy} \cup {<<s, "added">> : s \in added}
        all == IF entries = {} THEN {<<s, "added">> : s \in Ready} ELSE entries
    IN  [e \in all |-> IF e[2] = "busy" THEN Cardinality(RangesOf(range_assignments, e[1])) ELSE 0]

LeastLoaded(heap) ==
    CHOOSE e \in DOMAIN heap : \A f \in DOMAIN heap :
        \/ heap[e] < heap[f]
        \/ heap[e] = heap[f] /\ Rank[e[1]] <= Rank[f[1]]

AssignNext(acc, r) ==
    LET e == LeastLoaded(acc.heap)
    IN  [heap |-> [acc.heap EXCEPT ![e] = @ + 1],
         assignments |-> [acc.assignments EXCEPT ![r] = e[1]]]

Assign(ranges, added) ==
    LET after[n \in 0..Len(ranges)] ==
            IF n = 0
            THEN [heap |-> ServerHeap(added), assignments |-> range_assignments]
            ELSE AssignNext(after[n - 1], ranges[n])
    IN  after[Len(ranges)].assignments

(* The orders in which the ranges of a set may be listed                   *)
orders(S) == Bijection(1..Cardinality(S), S)

(* Up to the await of update_range_assignments.  The unassigned ranges     *)
(* come first, then those of the removed servers.                          *)
run_assignment_computation ==
    LET added == Ready \ prev_ready_servers
        removed == prev_ready_servers \ Ready
        orphaned == UNION {RangesOf(range_assignments, s) : s \in removed}
    IN
    /\ pass = "compute"
    /\ IF \/ Cardinality(Ready) < MIN_NUM_RANGE_SERVERS
          \/ added = {} /\ removed = {} /\ unassigned_base_ranges = {}
       THEN /\ prev_ready_servers' = Ready
            /\ UNCHANGED <<pass, new_assignments>>
       ELSE /\ current_version < MaxVersion
            /\ \E first \in orders(unassigned_base_ranges), second \in orders(orphaned) :
                   new_assignments' = [ready |-> Ready, assignments |-> Assign(first \o second, added)]
            /\ pass' = "persist"
            /\ UNCHANGED prev_ready_servers
    /\ UNCHANGED <<assignmentVars, ready_range_servers, streams, handlerVars, failures>>

(* Faulty variant: the ranges leave the unassigned list before they are    *)
(* known to be persisted                                                   *)
forgetUnassigned ==
    /\ pass = "persist"
    /\ failures < MaxFailures
    /\ failures' = failures + 1
    /\ prev_ready_servers' = new_assignments.ready
    /\ new_assignments' = Idle
    /\ unassigned_base_ranges' = {}
    /\ pass' = "compute"
    /\ UNCHANGED <<base_ranges, range_assignments, current_version, ready_range_servers, streams,
                   handlerVars>>

(* The assignments could not be stored: the pass ends, and takes the       *)
(* registered servers as seen                                              *)
persistFailed ==
    /\ pass = "persist"
    /\ failures < MaxFailures
    /\ failures' = failures + 1
    /\ prev_ready_servers' = new_assignments.ready
    /\ new_assignments' = Idle
    /\ pass' = "compute"
    /\ UNCHANGED <<assignmentVars, ready_range_servers, streams, handlerVars>>

(* The rest of the pass: the new version is kept and broadcast.  A stream  *)
(* knows by current_version how many versions it has not been sent.        *)
publish ==
    /\ pass = "persist"
    /\ range_assignments' = new_assignments.assignments
    /\ unassigned_base_ranges' =
           {r \in unassigned_base_ranges : new_assignments.assignments[r] = None}
    /\ current_version' = current_version + 1
    /\ prev_ready_servers' = new_assignments.ready
    /\ new_assignments' = Idle
    /\ pass' = "compute"
    /\ UNCHANGED <<base_ranges, ready_range_servers, streams, handlerVars, failures>>

---------------------------------------------------------------------------
(* Registration and the streams                                            *)

Current(st) == connection[st.server] = st.epoch /\ life[st.server] = st.life

(* Faulty variant: a disconnect forgets the server whatever its epoch      *)
forgetServer(st) ==
    ready_range_servers' = [ready_range_servers EXCEPT ![st.server] = 0]

notify_range_server_unavailable(st) ==
    ready_range_servers' =
        IF ready_range_servers[st.server] <= st.epoch
        THEN [ready_range_servers EXCEPT ![st.server] = 0]
        ELSE ready_range_servers

(* A server without a connection reads the epoch and registers.  It is     *)
(* refused, and tries again, while a connection with that epoch or a later *)
(* one is registered.                                                      *)
register_range_server(s) ==
    LET e == epoch[s] + 1 IN
    /\ connection[s] = 0
    /\ epoch[s] < MaxEpoch
    /\ epoch' = [epoch EXCEPT ![s] = e]
    /\ IF ready_range_servers[s] >= e
       THEN UNCHANGED <<ready_range_servers, streams, connection>>
       ELSE /\ ready_range_servers' = [ready_range_servers EXCEPT ![s] = e]
            /\ streams' = streams \cup
                   {[server |-> s, life |-> life[s], epoch |-> e, seen |-> current_version,
                     sent_full_update |-> FALSE]}
            /\ connection' = [connection EXCEPT ![s] = e]
    /\ UNCHANGED <<assignmentVars, loopVars, inbox, assigned_ranges, life, failures>>

get_assignment_update(s) == RangesOf(range_assignments, s)

(* Faulty variant: a stream that has missed a version skips to the latest  *)
(* without sending it                                                      *)
skipLagged(st) ==
    /\ Current(st)
    /\ st.seen < current_version
    /\ streams' = (streams \ {st})
                      \cup {[st EXCEPT !.seen = current_version, !.sent_full_update = TRUE]}
    /\ inbox' = IF st.seen + 1 = current_version
                THEN [inbox EXCEPT ![st.server] = Append(@, get_assignment_update(st.server))]
                ELSE inbox
    /\ UNCHANGED <<assignmentVars, loopVars, ready_range_servers, connection, epoch,
                   assigned_ranges, life, failures>>

(* The channel keeps one version.  A stream one version behind sends the   *)
(* server its ranges; one further behind ends with an error, which drops   *)
(* it.  What is sent on a broken connection is lost: polling such a stream *)
(* has no effect, and is left out.                                         *)
poll_next(st) ==
    /\ Current(st)
    /\ st.seen < current_version
    /\ IF st.seen + 1 = current_version
       THEN /\ streams' = (streams \ {st})
                    \cup {[st EXCEPT !.seen = current_version, !.sent_full_update = TRUE]}
            /\ inbox' = [inbox EXCEPT ![st.server] = Append(@, get_assignment_update(st.server))]
            /\ UNCHANGED ready_range_servers
       ELSE /\ streams' = streams \ {st}
            /\ notify_range_server_unavailable(st)
            /\ UNCHANGED inbox
    /\ UNCHANGED <<assignmentVars, loopVars, connection, epoch, assigned_ranges, life, failures>>

(* The warden notices that a connection is gone                            *)
dropStream(st) ==
    /\ ~Current(st)
    /\ streams' = streams \ {st}
    /\ notify_range_server_unavailable(st)
    /\ UNCHANGED <<assignmentVars, loopVars, handlerVars, failures>>

---------------------------------------------------------------------------
(* The range server.  The warden sends full assignments only.              *)

process_warden_update(s) ==
    /\ inbox[s] # << >>
    /\ assigned_ranges' = [assigned_ranges EXCEPT ![s] = Head(inbox[s])]
    /\ inbox' = [inbox EXCEPT ![s] = Tail(@)]
    /\ UNCHANGED <<assignmentVars, loopVars, ready_range_servers, streams, connection, epoch,
                   life, failures>>

(* The server sees its connection break, or the stream end.  It keeps the  *)
(* ranges it was assigned.                                                 *)
disconnect(s) ==
    /\ connection[s] # 0
    /\ connection' = [connection EXCEPT ![s] = 0]
    /\ inbox' = [inbox EXCEPT ![s] = << >>]
    /\ UNCHANGED <<assignmentVars, loopVars, ready_range_servers, streams, epoch,
                   assigned_ranges, life, failures>>

(* Bound: one restart of one server                                        *)
restart(s) ==
    /\ \A t \in Server : life[t] = 0
    /\ life' = [life EXCEPT ![s] = @ + 1]
    /\ connection' = [connection EXCEPT ![s] = 0]
    /\ inbox' = [inbox EXCEPT ![s] = << >>]
    /\ epoch' = [epoch EXCEPT ![s] = 0]
    /\ assigned_ranges' = [assigned_ranges EXCEPT ![s] = {}]
    /\ UNCHANGED <<assignmentVars, loopVars, ready_range_servers, streams, failures>>

Next ==
    \/ read_base_ranges
    \/ run_assignment_computation
    \/ persistFailed
    \/ publish
    \/ \E st \in streams : poll_next(st) \/ dropStream(st)
    \/ \E s \in Server :
           \/ register_range_server(s)
           \/ process_warden_update(s)
           \/ disconnect(s)
           \/ restart(s)

Spec == Init /\ [][Next]_vars

---------------------------------------------------------------------------
(* No base range is ever forgotten: each one either waits to be assigned   *)
(* or has an assignee, never both, whatever fails between the computation  *)
(* of a version and its publication (run_assignment_computation).          *)
NoRangeLost ==
    \A r \in base_ranges : r \in unassigned_base_ranges <=> range_assignments[r] = None

(* A server whose open stream has sent it an update and is not behind, and *)
(* which has processed all it was sent, holds exactly the ranges the       *)
(* current version gives it (poll_next, process_warden_update).            *)
Synchronised ==
    \A st \in streams :
        (Current(st) /\ st.sent_full_update /\ st.seen = current_version /\ inbox[st.server] = << >>)
            => assigned_ranges[st.server] = RangesOf(range_assignments, st.server)

(* The late disconnect of an old connection does not unregister a server   *)
(* that has connected again (register_range_server and                     *)
(* notify_range_server_unavailable), as long as its epochs increase: the   *)
(* server has not restarted.                                               *)
StaysRegistered ==
    \A st \in streams :
        (Current(st) /\ st.life = 0) => ready_range_servers[st.server] = st.epoch
=============================================================================
