---------------------------- MODULE MCSyntaMount ----------------------------
EXTENDS SyntaMount, TLC

Interchangeable == Permutations(Clients)
=============================================================================
