------------------------- MODULE MCReadOnlyTransaction -------------------------
EXTENDS ReadOnlyTransaction, TLC
Symmetry == Permutations(Txn) \cup Permutations(Ddl)
================================================================================
