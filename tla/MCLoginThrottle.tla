-------------------------- MODULE MCLoginThrottle --------------------------
\* Small instances of LoginThrottle.
EXTENDS LoginThrottle, TLC

CONSTANTS k1, k2, k3, k4, a1, a2

Symmetry == Permutations(Key) \cup Permutations(Attempt)
=============================================================================
