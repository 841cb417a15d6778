--------------------------- MODULE MCRangeLoading ---------------------------
EXTENDS RangeLoading, TLC

CONSTANTS s1, s2, t1, t2, t3

MCServer == {s1, s2}
MCTask == {t1, t2, t3}
MCServerOf == t1 :> s1 @@ t2 :> s1 @@ t3 :> s2
=============================================================================
