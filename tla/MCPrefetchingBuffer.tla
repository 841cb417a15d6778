------------------------ MODULE MCPrefetchingBuffer ------------------------
(* PrefetchingBuffer with three transactions that prefetch one key.        *)
EXTENDS PrefetchingBuffer

CONSTANTS t1, t2, t3, k1

MCTransaction == {t1, t2, t3}
MCKey == {k1}
=============================================================================
