---------------------------- MODULE MCInteractions ----------------------------
EXTENDS Interactions, TLC

Symmetric == Permutations(Chrono)
===============================================================================
