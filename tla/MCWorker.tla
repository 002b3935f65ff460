------------------------------ MODULE MCWorker ------------------------------
EXTENDS Worker, TLC

Symmetry == Permutations(Externals)
=============================================================================
