-------------------------- MODULE MCExplodeRestore --------------------------
EXTENDS ExplodeRestore, TLC

\* Items and places are interchangeable.
Symmetry == Permutations(Items) \cup Permutations(Places)
=============================================================================
