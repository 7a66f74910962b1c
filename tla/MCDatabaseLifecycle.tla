-------------------------- MODULE MCDatabaseLifecycle --------------------------
EXTENDS DatabaseLifecycle, TLC
Symmetry == Permutations(Rpc) \cup Permutations(Db)
================================================================================
