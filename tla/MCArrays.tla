------------------------------ MODULE MCArrays ------------------------------
EXTENDS ArrayDictionaries

\* Keys that share a bucket of a small table, and part when it grows.
MCHash == [k1 |-> 0, k2 |-> 1, k3 |-> 4, k4 |-> 5]
MCKeys == DOMAIN MCHash
=============================================================================
