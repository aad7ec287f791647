--------------------------- MODULE MCOperationUndo ---------------------------
EXTENDS OperationUndo, TLC

\* Components and positions are interchangeable: only equality is ever asked.
Symmetry == Permutations(Refs) \cup Permutations(Spots)
=============================================================================
