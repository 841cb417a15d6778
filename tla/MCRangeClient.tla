--------------------------- MODULE MCRangeClient ----------------------------
(* Two calls, three keyspaces: the second and the third run together to    *)
(* the same letters.  The letters of the first, followed by the digits of  *)
(* the low key, are the digits of the high key.                            *)
EXTENDS RangeClient, TLC

CONSTANTS c1, c2, low, high

MCCall == {c1, c2}
MCKey == {low, high}
MCRank == low :> 1 @@ high :> 2
MCHex == low :> <<"c", "d">> @@ high :> <<"a", "b", "c", "d">>

K1 == [namespace |-> <<"a">>, name |-> <<"b">>]
K2 == [namespace |-> <<"a">>, name |-> <<"b", "c">>]
K3 == [namespace |-> <<"a", "b">>, name |-> <<"c">>]

Bounds(l, u) == [lower |-> l, upper |-> u]
Make(ks, cloud, layout) == [keyspace |-> ks, cloud |-> cloud, base_key_ranges |-> layout]

(* Two ranges, the first without a lower bound; ranges that overlap once   *)
(* the warden takes the empty upper bound of the first for none; no ranges.*)
MCCreation == {
    Make(K1, Public("AWS"), << Bounds(0, 2), Bounds(2, 3) >>),
    Make(K1, None, << Bounds(0, 3) >>),
    Make(K2, Other("edge"), << Bounds(1, 0), Bounds(0, 2) >>),
    Make(K3, Other("AWS"), << >>) }

Ask(type, ks, key) == [type |-> type, keyspace |-> ks, key |-> key]
MCRequests == {
    Ask("Prepare", K1, low), Ask("Get", K1, high), Ask("Prepare", K2, low),
    Ask("Abort", K1, high), Ask("Commit", K3, low) }
=============================================================================
