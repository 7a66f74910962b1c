------------------------- MODULE MCReadWriteTransaction -------------------------
EXTENDS ReadWriteTransaction, TLC
Symmetry == Permutations(Txn) \cup Permutations(Ddl)
================================================================================
