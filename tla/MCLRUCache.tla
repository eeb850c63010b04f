----------------------------- MODULE MCLRUCache -----------------------------
EXTENDS LRUCache

\* Keys of small and large charge, two of which collide in a table of length 2.
MCCharge == [k \in Files |-> IF k = 1 THEN 2 ELSE 1]
MCHash == [k \in Files |-> k]
=============================================================================
