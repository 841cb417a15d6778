------------------------------- MODULE MCWal -------------------------------
(* Wal with two servers.                                                   *)
EXTENDS Wal

CONSTANTS s1, s2

MCServer == {s1, s2}
=============================================================================
