-------------------------- MODULE MCCopperRegistry --------------------------
EXTENDS CopperRegistry, TLC

AllLayouts == [Indices -> Slots \cup {NoSlot}]

\* Cells whose records lie in slots of their own, and the ones left out.
DistinctLayouts ==
  {l \in AllLayouts : \A i, j \in Indices : l[i] = l[j] => i = j \/ l[i] = NoSlot}

\* Lists that only grow and shrink at their end: number n always stands for
\* the same slot.  SlotOf is any fixed assignment of slots to numbers.
SlotOf == CHOOSE l \in DistinctLayouts : \A i \in Indices : l[i] # NoSlot

StableLayouts == {l \in DistinctLayouts :
                    /\ \A i \in Indices : l[i] \in {SlotOf[i], NoSlot}
                    /\ \E i \in Indices : l[i] # NoSlot}

\* Anchors, numbers, poses and slots are interchangeable: nothing in the
\* specification orders or names them.
Symmetry == Permutations(Anchors) \cup Permutations(Indices)
              \cup Permutations(Poses) \cup Permutations(Slots)

\* SlotOf ties the numbers to the slots, so only these stay interchangeable.
PlaceSymmetry == Permutations(Anchors) \cup Permutations(Poses)

\* With an entity and an array the anchors are told apart.
PoseSymmetry == Permutations(Poses)
=============================================================================
