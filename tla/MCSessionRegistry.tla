-------------------------- MODULE MCSessionRegistry --------------------------
EXTENDS SessionRegistry, TLC

Symmetry == Permutations(Peers) \cup Permutations(Ids) \cup Permutations(Devices)
=============================================================================
