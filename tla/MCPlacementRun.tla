---------------------------- MODULE MCPlacementRun ----------------------------
EXTENDS PlacementRun, TLC
\* Bounds on the footprints and items that are fixed, doubled, broken or unchecked,
\* in a configuration whose runs must settle and in any other.
CONSTANTS MaxOddSettling, MaxOdd
MCInit ==
  /\ fixed \in SUBSET Refs /\ doubled \in SUBSET Refs
  /\ unchecked \in SUBSET Trees /\ broken \in SUBSET (Items \cup Refs)
  /\ Cardinality(fixed) + Cardinality(doubled) + Cardinality(unchecked)
       + Cardinality(broken) <= MaxOddSettling
  /\ Init /\ \A t \in Trees : parts[t] = {} => base[t] = Origin
  /\ \/ Consistent /\ Ranked
     \/ Cardinality(fixed) + Cardinality(doubled) + Cardinality(unchecked)
          + Cardinality(broken) <= MaxOdd
MCSpec == MCInit /\ [][Next]_vars
\* What must settle is followed over several runs, anything else over one.
Bounded == runs <= 1 \/ (Consistent /\ Ranked)
Alike == Permutations(Refs) \cup Permutations(Trees) \cup Permutations(Points)
=============================================================================
