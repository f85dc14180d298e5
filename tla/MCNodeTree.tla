------------------------------ MODULE MCNodeTree ------------------------------
EXTENDS NodeTree, TLC

Symmetry == Permutations(Node) \cup Permutations(Purger)
=============================================================================
