--------------------------- MODULE MCConfigStaging ---------------------------
EXTENDS ConfigStaging, TLC

\* Files and workers are interchangeable.
Symmetry == Permutations(Files) \cup Permutations(Workers)
=============================================================================
