----------------------------- MODULE RangeLock -----------------------------
(***************************************************************************)
(* What the lock of a range promises, whatever the queueing discipline: it *)
(* has at most one owner, an owner keeps it until it is released, a        *)
(* release with somebody waiting passes it on at once, and it passes only  *)
(* to a request that asked for it and was not granted before.              *)
(***************************************************************************)

CONSTANTS Request, Owner, None

VARIABLES holder,    \* the owner, or None
          waiting,   \* requests that have to wait
          granted    \* requests told that they own the lock

lockVars == <<holder, waiting, granted>>

Init ==
    /\ holder = None
    /\ waiting = {}
    /\ granted = {}

(* A request of a new owner, a further request of the owner, or one that   *)
(* has to wait.                                                            *)
Ask(q) ==
    /\ q \notin waiting \cup granted
    /\ IF holder \in {None, q.transaction}
       THEN /\ holder' = q.transaction
            /\ granted' = granted \cup {q}
            /\ UNCHANGED waiting
       ELSE /\ waiting' = waiting \cup {q}
            /\ UNCHANGED <<holder, granted>>

PassOn(q) ==
    /\ q \in waiting
    /\ holder' = q.transaction
    /\ waiting' = waiting \ {q}
    /\ granted' = granted \cup {q}

GoIdle ==
    /\ waiting = {}
    /\ holder' = None
    /\ UNCHANGED <<waiting, granted>>

Next ==
    \/ \E q \in Request : Ask(q) \/ PassOn(q)
    \/ GoIdle

Spec == Init /\ [][Next]_lockVars
=============================================================================
