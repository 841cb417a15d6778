--------------------------- MODULE MCRangeManager ---------------------------
(* RangeManager with three transactions on two keys.  The workloads pair   *)
(* read-modify-writes of one key, writes of both keys, a blind write, a    *)
(* read-only transaction and a delete; three more scenarios have a         *)
(* heuristic that counts waiting requests, and aborts that meet a get or a *)
(* prepare of a writer and of a read-only transaction.                     *)
EXTENDS RangeManager, TLC

CONSTANTS t1, t2, t3, k1, k2

MCTransaction == {t1, t2, t3}
MCChannel == {"get", "decide"}
MCKey == {k1, k2}

W(r, p, d) == [reads |-> r, puts |-> p, deletes |-> d]

Works == {
    t1 :> W({k1}, {k1}, {})     @@ t2 :> W({k1}, {k1}, {})  @@ t3 :> W({k1}, {k1}, {}),
    t1 :> W({k1}, {k1, k2}, {}) @@ t2 :> W({k2}, {k2}, {})  @@ t3 :> W({k1}, {k1}, {}),
    t1 :> W({k1, k2}, {k1}, {}) @@ t2 :> W({}, {k1, k2}, {}) @@ t3 :> W({k1, k2}, {}, {}),
    t1 :> W({k1}, {k1}, {k2})   @@ t2 :> W({k2}, {k2}, {})  @@ t3 :> W({k1}, {k1}, {}) }

Carries(load) == [load |-> load, clients |-> 0]

Configured(s, h, w, requests, mayFail) ==
    [strategy |-> s, heuristic |-> h, work |-> w, requests |-> requests, mayFail |-> mayFail]

(* Early release never, always, and as each request's load has it.         *)
Plain ==
    {Configured(s, "OpenClients", w, {Carries(0), Carries(5000)}, {}) :
        s \in CommitStrategy, w \in Works}

(* A lock is given up early when requests wait for it, in the middle of    *)
(* the loads, where the count of open clients does not matter.             *)
Contended == Configured("Adaptive", "LockContention",
    t1 :> W({k1}, {k1}, {}) @@ t2 :> W({k1}, {k1}, {}) @@ t3 :> W({k1}, {k1}, {}),
    {Carries(100), Carries(300)}, {})

(* A writer of k1 that is aborted in a call, beside one that depends       *)
(* on it and a read-modify-write of another key.                           *)
Overtaken == Configured("Pipelined", "OpenClients",
    t1 :> W({k1}, {k1}, {}) @@ t2 :> W({k1}, {k1}, {}) @@ t3 :> W({k2}, {k2}, {}),
    {Carries(0)}, {t1})

(* A read-only transaction whose calls its abort meets, beside writers of  *)
(* the key it reads.                                                       *)
OvertakenReader == Configured("Pipelined", "OpenClients",
    t1 :> W({k1}, {}, {}) @@ t2 :> W({k1}, {k1}, {}) @@ t3 :> W({k1}, {k1}, {}),
    {Carries(0)}, {t1})

MCScenarios == Plain \cup {Contended, Overtaken, OvertakenReader}
=============================================================================
