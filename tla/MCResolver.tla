----------------------------- MODULE MCResolver -----------------------------
(* Resolver with up to four transactions on two ranges.                    *)
EXTENDS Resolver, TLC

CONSTANTS t1, t2, t3, t4, r1, r2

MCTransaction == {t1, t2, t3, t4}
MCRange == {r1, r2}

F(a, b, c, d) == t1 :> a @@ t2 :> b @@ t3 :> c @@ t4 :> d

(* A chain; a transaction that depends on the whole chain before it, and a *)
(* read-only one; two roots and a diamond.                                 *)
Chain == [depends |-> F({}, {t1}, {t2}, {t3}),
          writes  |-> F({r1}, {r1, r2}, {r2}, {r1, r2})]
Closure == [depends |-> F({}, {t1}, {t1, t2}, {t2}),
            writes  |-> F({r1}, {r1, r2}, {r1, r2}, {})]
FanIn == [depends |-> F({}, {}, {t1, t2}, {t3}),
          writes  |-> F({r1}, {r2}, {r1, r2}, {r1})]
Diamond == [depends |-> F({}, {t1}, {t1}, {t2, t3}),
            writes  |-> F({r1}, {r1, r2}, {r2}, {r1, r2})]

MCWorkloads == {Chain, Closure, FanIn, Diamond}

JustDiamond == {Diamond}
=============================================================================
