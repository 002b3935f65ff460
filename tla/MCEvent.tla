------------------------------- MODULE MCEvent -------------------------------
EXTENDS Event, TLC

CONSTANTS Once, Again, Either

MCListed == <<Once, Again>>
Symmetry == Permutations(Fibers) \cup Permutations(Outside)
=============================================================================
