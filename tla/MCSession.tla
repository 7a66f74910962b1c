------------------------------- MODULE MCSession -------------------------------
EXTENDS Session, TLC
Symmetry == Permutations(Rpc) \cup Permutations(Statements)
================================================================================
