--------------------------- MODULE MCInstanceLock ---------------------------
EXTENDS InstanceLock, TLC

Symmetry == Permutations(Hosts)
=============================================================================
