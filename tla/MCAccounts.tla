----------------------------- MODULE MCAccounts -----------------------------
\* Small instances of Accounts.
EXTENDS Accounts, TLC

CONSTANTS i1, i2, i3, n1, n2, n3, d1, d2, k1, k2, r1, r2

Symmetry == Permutations(Id) \cup Permutations(Username) \cup Permutations(Token)
            \cup Permutations(Request)

Roles == {"admin", "viewer"}
SaveAndCrash == {"save", "crash"}
NoFaults == {}
=============================================================================
