---------------------------- MODULE MCLockTable ----------------------------
(* LockTable with three transactions and as many channels as calls: each   *)
(* channel is used by one call, so they bound the calls that may queue.    *)
EXTENDS LockTable

CONSTANTS t1, t2, t3
MCTransaction == {t1, t2, t3}
MCChannel == 1..5
=============================================================================
