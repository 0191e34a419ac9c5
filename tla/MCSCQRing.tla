----------------------------- MODULE MCSCQRing -----------------------------
EXTENDS SCQRing, TLC

Symmetric == Permutations(Thread)
=============================================================================
