------------------------------ MODULE MCThread ------------------------------
EXTENDS Thread

MCCore == [size |-> 2, alignment |-> 2]
MCLists == {<<1>>, <<2, 1, 2>>}
Symmetry == Permutations(Handles) \cup Permutations(Objects)
=============================================================================
