------------------------------ MODULE MCWarden ------------------------------
EXTENDS Warden, TLC

CONSTANTS s1, s2, r1, r2

MCServer == {s1, s2}
MCRank == s1 :> 1 @@ s2 :> 2
MCRangeId == {r1, r2}
RangeSymmetry == Permutations(MCRangeId)
=============================================================================
