----------------------------- MODULE MCLockManager -----------------------------
EXTENDS LockManager, TLC
Symmetry == Permutations(Txn) \cup Permutations(Copied) \cup Permutations(Key \ Copied)
================================================================================
