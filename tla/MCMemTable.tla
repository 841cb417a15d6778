----------------------------- MODULE MCMemTable -----------------------------
(* Three memtables with room for two small entries or for a large one: a   *)
(* large value never fits beside another entry, so four of them go around  *)
(* the ring to a table that was cleared and is used again.                 *)
EXTENDS MemTable
=============================================================================
