-------------------------- MODULE MCCommitProtocol --------------------------
(* CommitProtocol with three transactions on two ranges, which are         *)
(* accessed in one order.  A server that has not been read from refuses a  *)
(* write, so blind writes succeed with both ranges on one server.          *)
EXTENDS CommitProtocol, TLC

CONSTANTS t1, t2, t3, a, b, s1, s2

MCTransaction == {t1, t2, t3}
MCKey == {a, b}
MCServer == {s1, s2}
TwoServers == a :> s1 @@ b :> s2
OneServer == [r \in MCKey |-> s1]
MCChannel == {"get", "prepare"} \X MCKey

P(gets, puts) == [gets |-> gets, puts |-> puts, deletes |-> {}]

(* Every key is read before it is written.                                 *)
ReadFirst == {
    t1 :> P(<<a>>, {a})       @@ t2 :> P(<<a>>, {a})       @@ t3 :> P(<<a, b>>, {a, b}),
    t1 :> P(<<a, b>>, {a, b}) @@ t2 :> P(<<a, b>>, {b})    @@ t3 :> P(<<a, b>>, {}),
    t1 :> P(<<a, b>>, {b})    @@ t2 :> P(<<a>>, {a})       @@ t3 :> P(<<b>>, {b}),
    t1 :> P(<<a, b>>, {a, b}) @@ t2 :> P(<<b>>, {b})       @@ t3 :> P(<<a, b>>, {a, b}) }

(* t1 and t2 each read what the other writes without having read it.       *)
BlindWrite ==
    t1 :> P(<<a>>, {b}) @@ t2 :> P(<<b>>, {a}) @@ t3 :> P(<<a, b>>, {})

(* t1's write of b is refused: it has read from the other server only.     *)
RefusedWrite ==
    t1 :> P(<<a>>, {b}) @@ t2 :> P(<<a, b>>, {a}) @@ t3 :> P(<<b>>, {b})

(* t1 may be aborted when ranges have prepared it: others have read what   *)
(* it wrote, it has hidden what others wrote, or its abort finds a lock it *)
(* has given up in the meantime.                                           *)
Panicking == {
    t1 :> P(<<a, b>>, {a, b}) @@ t2 :> P(<<a>>, {a})    @@ t3 :> P(<<a, b>>, {}),
    t1 :> P(<<a, b>>, {b})    @@ t2 :> P(<<a>>, {a})    @@ t3 :> P(<<a>>, {a}),
    t1 :> P(<<a>>, {a, b})    @@ t2 :> P(<<a, b>>, {b}) @@ t3 :> P(<<b>>, {b}) }

Scenario(p, hosting, mayFail) == [program |-> p, hosting |-> hosting, mayFail |-> mayFail]

MCScenarios ==
    {Scenario(p, TwoServers, {}) : p \in ReadFirst}
       \cup {Scenario(BlindWrite, OneServer, {}), Scenario(RefusedWrite, TwoServers, {})}
       \cup {Scenario(p, OneServer, {t1}) : p \in Panicking}
=============================================================================
