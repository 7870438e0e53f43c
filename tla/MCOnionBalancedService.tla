----------------------- MODULE MCOnionBalancedService -----------------------
EXTENDS OnionBalancedService, TLC

Symmetry == Permutations(Operators) \cup Permutations(Addresses)
=============================================================================
