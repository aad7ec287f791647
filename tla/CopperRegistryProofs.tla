------------------------ MODULE CopperRegistryProofs ------------------------
(***************************************************************************)
(* What holds of CopperRegistry for every value of its constants.          *)
(***************************************************************************)
EXTENDS CopperRegistry, FiniteSetTheorems, TLAPS

\* A run draws only records of its own plan, and between runs nothing waits to
\* be drawn.  TypeOK is not inductive without it: the place of a record exists
\* only while the cell still has the record.
TodoPlanned == todo \subseteq RunKeys /\ (AtRest => todo = {})

TypeInv == TypeOK /\ TodoPlanned

LEMMA NothingPlannedTypes ==
  ASSUME NothingPlanned
  PROVE  /\ binds' \subseteq Keys \X Uuids /\ drops' \subseteq Keys
         /\ doomed' \subseteq Uuids /\ packet' \in {"clean", "repeats"}
         /\ todo' = {} /\ pending' \subseteq Keys \X Uuids
BY DEF NothingPlanned

LEMMA EmptyRegistryType == EmptyRegistry \in [Keys -> Uuids \cup {NoUuid}]
BY DEF EmptyRegistry

LEMMA InitTypeInv == Init => TypeInv
<1> SUFFICES ASSUME Init PROVE TypeInv
  OBVIOUS
<1>1. next \in 1 .. MaxUuid + 1 /\ refused \in 0 .. MaxRefused
      /\ crashes \in 0 .. MaxCrashes /\ edits \in 0 .. MaxEdits
  BY BoundsAssumption DEF Init
<1>2. cell \in [Keys -> Slots \cup {NoSlot}]
  BY DEF Init, Cells
<1>3. TypeOK
  BY <1>1, <1>2, EmptyRegistryType DEF Init, TypeOK, Steps
<1>4. TodoPlanned
  BY DEF Init, TodoPlanned
<1> QED BY <1>3, <1>4 DEF TypeInv

LEMMA RunEndsTypes ==
  ASSUME RunEnds
  PROVE  /\ pc' \in Steps /\ only' = {} /\ rigid' = {} /\ again' \in BOOLEAN
         /\ heldBefore' \subseteq Uuids /\ entries' \in [Keys -> Uuids \cup {NoUuid}]
         /\ binds' \subseteq Keys \X Uuids /\ drops' \subseteq Keys
         /\ doomed' \subseteq Uuids /\ packet' \in {"clean", "repeats"}
         /\ todo' = {} /\ pending' \subseteq Keys \X Uuids
BY NothingPlannedTypes, EmptyRegistryType DEF RunEnds, Steps

\* A batch is a finite set of records to draw, and what is drawn for it are
\* uuids the board did not have, placed where the records lie.
LEMMA BatchFacts ==
  ASSUME TypeInv, NEW b \in Batches
  PROVE  b \subseteq todo /\ b # {} /\ Cardinality(b) \in Nat
<1>1. b \subseteq todo /\ todo \subseteq Keys /\ b # {}
  BY DEF Batches, TypeInv, TypeOK
<1>2. IsFiniteSet(b)
  BY <1>1, FinitenessAssumption, FS_Product, FS_Subset DEF Keys
<1> QED BY <1>1, <1>2, FS_CardinalityType

LEMMA NumberingFacts ==
  ASSUME NEW b, Cardinality(b) \in Nat, NEW from \in Nat \ {0},
         NEW n \in Nat, from + n - 1 <= MaxUuid, Cardinality(b) <= n,
         NEW f \in Numberings(b, from)
  PROVE  /\ f \in [b -> from .. (from + Cardinality(b) - 1)]
         /\ Range(f) \subseteq from .. (from + Cardinality(b) - 1)
         /\ Range(f) \subseteq Uuids
<1>1. f \in [b -> from .. (from + Cardinality(b) - 1)]
  BY DEF Numberings, Injection
<1>2. from .. (from + Cardinality(b) - 1) \subseteq Uuids
  BY BoundsAssumption DEF Uuids
<1> QED BY <1>1, <1>2 DEF Range

LEMMA DrawnType ==
  ASSUME TypeInv, NEW b \in SUBSET todo, NEW f, DOMAIN f = b,
         NEW brd \in [Uuids -> Places \cup {NoPlace}]
  PROVE  Drawn(brd, f) \in [Uuids -> Places \cup {NoPlace}]
<1>1. \A k \in b : PlaceOf(k, target) \in Places
  BY DEF TypeInv, TodoPlanned, TypeOK, RunKeys, PlaceOf, Places, Keys
<1>2. \A u \in Range(f) : (CHOOSE k \in DOMAIN f : f[k] = u) \in b
  BY DEF Range
<1> QED BY <1>1, <1>2 DEF Drawn

LEMMA PairsType ==
  ASSUME NEW b \in SUBSET Keys, NEW f \in [b -> Uuids]
  PROVE  Pairs(f) \subseteq Keys \X Uuids
BY DEF Pairs

LEMMA TypeStep == TypeInv /\ [Next]_vars => TypeInv'
<1> SUFFICES ASSUME TypeInv, [Next]_vars PROVE TypeInv'
  OBVIOUS
<1> USE DEF TypeInv
<1>t. TypeOK /\ TodoPlanned
  OBVIOUS
<1>1. ASSUME NEW sel \in SUBSET known, NEW rig \in SUBSET known,
             rig \subseteq sel, Start(sel, rig)
      PROVE  TypeInv'
  <2>1. todo = {}
    BY <1>1 DEF Start, TodoPlanned
  <2>2. Held(file) \subseteq Uuids
    BY DEF Held, TypeOK
  <2> QED BY <1>1, <2>1, <2>2 DEF Start, TypeOK, TodoPlanned, Steps, AtRest, RunKeys,
             boardVars, configVars, planVars, faultVars
<1>2. CASE DecideAdoption
  <2>1. Bindings(entries, rigid) \subseteq Keys \X Uuids
    BY DEF Bindings, Claims
  <2>2. Forgotten(entries, rigid) \subseteq Keys
    BY DEF Forgotten, Shifted, RunKeys
  <2> QED BY <1>2, <2>1, <2>2 DEF DecideAdoption, TypeOK, TodoPlanned, Steps, AtRest, RunKeys,
             boardVars, configVars, runVars, faultVars
<1>3. CASE AdoptLive
  <2> QED BY <1>3 DEF AdoptLive, Save, TypeOK, TodoPlanned, AtRest, RunKeys,
             boardVars, configVars, runVars, faultVars
<1>4. CASE ForgetKey
  <2> QED BY <1>4 DEF ForgetKey, Save, TypeOK, TodoPlanned, AtRest, RunKeys,
             boardVars, configVars, runVars, faultVars
<1>5. CASE MoveComponents
  <2> QED BY <1>5 DEF MoveComponents, TypeOK, TodoPlanned, Steps, AtRest, RunKeys,
             boardVars, configVars, runVars, planVars, faultVars
<1>6. CASE MovesRaise
  <2>1. pose' \in [Anchors -> Poses] /\ refused' \in 0 .. MaxRefused
    BY <1>6, BoundsAssumption DEF MovesRaise, Refuse, TypeOK
  <2> QED BY <1>6, <2>1, RunEndsTypes DEF MovesRaise, TypeOK, TodoPlanned,
             boardVars, configVars
<1>7. CASE ClaimUnowned
  <2>1. entries' \in [Keys -> Uuids \cup {NoUuid}] /\ file' = entries'
    BY <1>7 DEF ClaimUnowned, Save, TypeOK
  <2> QED BY <1>7, <2>1 DEF ClaimUnowned, TypeOK, TodoPlanned, Steps, AtRest, RunKeys,
             boardVars, configVars, runVars, planVars, faultVars
<1>8. CASE Reconcile
  <2>1. AfterPrune \in [Keys -> Uuids \cup {NoUuid}]
    BY DEF AfterPrune, AfterPlanned, TypeOK
  <2>2. ToDelete \subseteq Uuids
    BY DEF ToDelete, Moved, Live, TypeOK
  <2>3. ToDraw \subseteq RunKeys /\ RunKeys \subseteq Keys
    BY DEF ToDraw, RunKeys
  <2> HIDE DEF TypeInv
  <2>4. RunKeys' = RunKeys
    BY <1>8 DEF Reconcile, configVars, runVars, RunKeys
  <2> QED BY <1>8, <1>t, <2>1, <2>2, <2>3, <2>4
          DEF TypeInv, Reconcile, Save, TypeOK, TodoPlanned, Steps, AtRest,
              boardVars, configVars, runVars, faultVars
<1>9. ASSUME NEW done \in BOOLEAN, RemoveByIds(done), UNCHANGED crashes,
             refused' \in 0 .. MaxRefused
      PROVE  TypeInv'
  <2>1. Missing(todo, doomed) \subseteq todo
    BY DEF Missing
  <2>2. board' \in [Uuids -> Places \cup {NoPlace}]
    BY <1>9 DEF RemoveByIds, TypeOK
  <2>3. RunKeys' = RunKeys
    BY <1>9 DEF RemoveByIds, configVars, runVars, RunKeys
  <2> QED BY <1>9, <2>1, <2>2, <2>3 DEF RemoveByIds, TypeOK, TodoPlanned, Steps, AtRest,
             configVars, runVars
<1>10. CASE Delete
  BY <1>9, <1>10 DEF Delete, RemoveByIds, TypeOK
<1>11. CASE DeleteRefused
  <2>1. refused' \in 0 .. MaxRefused
    BY <1>11, BoundsAssumption DEF DeleteRefused, Refuse, TypeOK
  <2> QED BY <1>9, <1>11, <2>1 DEF DeleteRefused, RemoveByIds
<1>12. CASE DrawBatch
  <2>1. PICK b \in Batches : \E f \in Numberings(b, next) :
          /\ Fits(Cardinality(b))
          /\ board' = Drawn(board, f) /\ pending' = Pairs(f)
          /\ next' = next + Cardinality(b) /\ todo' = todo \ b
          /\ drawn' = drawn \cup Range(f)
    BY <1>12 DEF DrawBatch
  <2>2. PICK f \in Numberings(b, next) :
          /\ Fits(Cardinality(b))
          /\ board' = Drawn(board, f) /\ pending' = Pairs(f)
          /\ next' = next + Cardinality(b) /\ todo' = todo \ b
          /\ drawn' = drawn \cup Range(f)
    BY <2>1
  <2>3. Cardinality(b) \in Nat /\ b \subseteq todo /\ next \in Nat \ {0}
    BY BatchFacts, BoundsAssumption DEF TypeOK
  <2>4. f \in [b -> Uuids] /\ Range(f) \subseteq Uuids
    <3>1. next + Cardinality(b) - 1 <= MaxUuid
      BY <2>2 DEF Fits
    <3>2. /\ f \in [b -> next .. (next + Cardinality(b) - 1)]
          /\ Range(f) \subseteq Uuids
      BY <2>3, <3>1, NumberingFacts
    <3> QED BY <3>2 DEF Range
  <2>5. board' \in [Uuids -> Places \cup {NoPlace}]
    BY <2>2, <2>3, <2>4, DrawnType DEF TypeOK
  <2>6. pending' \subseteq Keys \X Uuids
    BY <2>2, <2>3, <2>4, PairsType DEF TypeOK
  <2>7. next' \in 1 .. MaxUuid + 1
    BY <2>2, <2>3, BoundsAssumption DEF Fits, TypeOK
  <2>8. drawn' \subseteq Uuids /\ todo' \subseteq todo
    BY <2>2, <2>4 DEF TypeOK
  <2> QED BY <1>12, <2>5, <2>6, <2>7, <2>8
          DEF DrawBatch, TypeOK, TodoPlanned, Steps, AtRest, RunKeys, configVars, runVars,
              faultVars
<1>13. CASE DrawBatchRetried
  <2> DEFINE Both(b, f, g) ==
        /\ \/ board' = Drawn(board, g)
           \/ board' = Drawn(Drawn(board, f), g)
        /\ pending' = Pairs(f) \cup Pairs(g)
        /\ drawn' = drawn \cup Range(f) \cup Range(g)
  <2>1. PICK b \in Batches :
          /\ Fits(2 * Cardinality(b))
          /\ \E f \in Numberings(b, next), g \in Numberings(b, next + Cardinality(b)) :
                Both(b, f, g)
          /\ next' = next + 2 * Cardinality(b) /\ todo' = todo \ b
    BY <1>13 DEF DrawBatchRetried
  <2>2. PICK f \in Numberings(b, next), g \in Numberings(b, next + Cardinality(b)) :
          Both(b, f, g)
    BY <2>1
  <2>3. Cardinality(b) \in Nat /\ b \subseteq todo /\ next \in Nat \ {0}
    BY BatchFacts, BoundsAssumption DEF TypeOK
  <2>4. /\ f \in [b -> Uuids] /\ Range(f) \subseteq Uuids
        /\ g \in [b -> Uuids] /\ Range(g) \subseteq Uuids
    <3>1. next + 2 * Cardinality(b) - 1 <= MaxUuid
      BY <2>1 DEF Fits
    <3>2. /\ next + Cardinality(b) \in Nat \ {0}
          /\ (next + Cardinality(b)) + Cardinality(b) - 1 <= MaxUuid
          /\ 2 * Cardinality(b) \in Nat /\ Cardinality(b) <= 2 * Cardinality(b)
      BY <2>3, <3>1
    <3>3. f \in [b -> next .. (next + Cardinality(b) - 1)] /\ Range(f) \subseteq Uuids
      BY <2>3, <3>1, <3>2, NumberingFacts
    <3>4. /\ g \in [b -> (next + Cardinality(b)) .. ((next + Cardinality(b)) + Cardinality(b) - 1)]
          /\ Range(g) \subseteq Uuids
      BY <2>3, <3>2, NumberingFacts
    <3> QED BY <3>3, <3>4 DEF Range
  <2>5. board' \in [Uuids -> Places \cup {NoPlace}]
    <3>1. Drawn(board, f) \in [Uuids -> Places \cup {NoPlace}]
      BY <2>3, <2>4, DrawnType DEF TypeOK
    <3>2. /\ Drawn(board, g) \in [Uuids -> Places \cup {NoPlace}]
          /\ Drawn(Drawn(board, f), g) \in [Uuids -> Places \cup {NoPlace}]
      BY <2>3, <2>4, <3>1, DrawnType DEF TypeOK
    <3> QED BY <2>2, <3>2
  <2>6. pending' \subseteq Keys \X Uuids
    BY <2>2, <2>3, <2>4, PairsType DEF TypeOK
  <2>7. next' \in 1 .. MaxUuid + 1
    BY <2>1, <2>3, BoundsAssumption DEF Fits, TypeOK
  <2>8. drawn' \subseteq Uuids /\ todo' \subseteq todo
    BY <2>1, <2>2, <2>4 DEF TypeOK
  <2>9. refused' \in 0 .. MaxRefused
    BY <1>13, BoundsAssumption DEF DrawBatchRetried, Refuse, TypeOK
  <2> QED BY <1>13, <2>5, <2>6, <2>7, <2>8, <2>9
          DEF DrawBatchRetried, TypeOK, TodoPlanned, Steps, AtRest, RunKeys, configVars, runVars
<1>14. CASE DrawBatchRaises
  <2>1. PICK b \in Batches : \E f \in Numberings(b, next) :
          /\ Fits(Cardinality(b))
          /\ board' \in {board, Drawn(board, f)}
          /\ next' = next + Cardinality(b) /\ drawn' = drawn \cup Range(f)
    BY <1>14 DEF DrawBatchRaises
  <2>2. PICK f \in Numberings(b, next) :
          /\ Fits(Cardinality(b))
          /\ board' \in {board, Drawn(board, f)}
          /\ next' = next + Cardinality(b) /\ drawn' = drawn \cup Range(f)
    BY <2>1
  <2>3. Cardinality(b) \in Nat /\ b \subseteq todo /\ next \in Nat \ {0}
    BY BatchFacts, BoundsAssumption DEF TypeOK
  <2>4. f \in [b -> next .. (next + Cardinality(b) - 1)] /\ Range(f) \subseteq Uuids
    <3>1. next + Cardinality(b) - 1 <= MaxUuid
      BY <2>2 DEF Fits
    <3> QED BY <2>3, <3>1, NumberingFacts
  <2>5. board' \in [Uuids -> Places \cup {NoPlace}]
    <3>1. Drawn(board, f) \in [Uuids -> Places \cup {NoPlace}]
      BY <2>3, <2>4, DrawnType DEF TypeOK
    <3> QED BY <2>2, <3>1 DEF TypeOK
  <2>6. next' \in 1 .. MaxUuid + 1 /\ drawn' \subseteq Uuids
    BY <2>2, <2>3, <2>4, BoundsAssumption DEF Fits, TypeOK
  <2>7. refused' \in 0 .. MaxRefused
    BY <1>14, BoundsAssumption DEF DrawBatchRaises, Refuse, TypeOK
  <2> QED BY <1>14, <2>5, <2>6, <2>7, RunEndsTypes
          DEF DrawBatchRaises, TypeOK, TodoPlanned, configVars
<1>15. CASE RecordCreated
  <2>1. PICK p \in pending :
          Save([entries EXCEPT ![p[1]] = p[2]]) /\ pending' = pending \ {p}
    BY <1>15 DEF RecordCreated
  <2>2. p[1] \in Keys /\ p[2] \in Uuids
    BY <2>1 DEF TypeOK
  <2>3. pc' \in {"draw", "record"}
    BY <1>15 DEF RecordCreated
  <2> QED BY <1>15, <2>1, <2>2, <2>3
          DEF RecordCreated, Save, TypeOK, TodoPlanned, Steps, AtRest, RunKeys, boardVars,
              configVars, runVars, faultVars
<1>16. CASE Finish
  BY <1>16, EmptyRegistryType DEF Finish, TypeOK, TodoPlanned, Steps, AtRest, RunKeys,
     boardVars, configVars, runVars, planVars, faultVars
<1>17. ASSUME NEW torn \in BOOLEAN, Crash(torn) PROVE TypeInv'
  <2>1. crashes' \in 0 .. MaxCrashes
    BY <1>17, BoundsAssumption DEF Crash, TypeOK
  <2> QED BY <1>17, <2>1, RunEndsTypes, EmptyRegistryType
          DEF Crash, TypeOK, TodoPlanned, boardVars, configVars
<1>18. ASSUME Edit PROVE edits' \in 0 .. MaxEdits
  BY <1>18, BoundsAssumption DEF Edit, TypeOK
<1>19. CASE EditCell
  <2>1. cell' \in [Keys -> Slots \cup {NoSlot}]
    BY <1>19, LayoutsAssumption DEF EditCell, TypeOK, Keys
  <2> QED BY <1>18, <1>19, <2>1, RunEndsTypes
          DEF EditCell, Edit, TypeOK, TodoPlanned, boardVars, faultVars
<1>20. CASE EditTarget
  BY <1>18, <1>20, RunEndsTypes DEF EditTarget, Edit, TypeOK, TodoPlanned, boardVars, faultVars
<1>21. CASE EditRecords
  BY <1>18, <1>21, RunEndsTypes DEF EditRecords, Edit, TypeOK, TodoPlanned, boardVars, faultVars
<1>22. CASE HandMove
  BY <1>18, <1>22, RunEndsTypes
     DEF HandMove, Edit, TypeOK, TodoPlanned, boardVars, configVars, faultVars
<1>23. CASE HandDraw
  <2>1. next' \in 1 .. MaxUuid + 1
    BY <1>23, BoundsAssumption DEF HandDraw, Fits, TypeOK
  <2> QED BY <1>18, <1>23, <2>1, RunEndsTypes
          DEF HandDraw, Edit, TypeOK, TodoPlanned, configVars, faultVars
<1>24. CASE HandDelete
  BY <1>18, <1>24, RunEndsTypes DEF HandDelete, Edit, TypeOK, TodoPlanned, configVars, faultVars
<1>25. CASE UNCHANGED vars
  BY <1>25 DEF vars, TypeOK, TodoPlanned, AtRest, RunKeys
<1> QED
  BY <1>1, <1>2, <1>3, <1>4, <1>5, <1>6, <1>7, <1>8, <1>10, <1>11, <1>12, <1>13, <1>14,
     <1>15, <1>16, <1>17, <1>19, <1>20, <1>21, <1>22, <1>23, <1>24, <1>25 DEF Next

\* Type correctness of every reachable state, for any number of clusters,
\* records, poses, edits, crashes and refused calls.
THEOREM TypeCorrect == Spec => []TypeOK
<1>1. TypeInv => TypeOK
  BY DEF TypeInv
<1> QED BY InitTypeInv, TypeStep, <1>1, PTL DEF Spec

-----------------------------------------------------------------------------
(* What a step of drawing does.                                            *)

\* The records of b are drawn as the pairs of `new`: fresh uuids, one each, at
\* the records' places, and nothing else on the board changes.
Drawing(b, new) ==
  /\ b \subseteq todo /\ new \subseteq b \X Uuids
  /\ \A p \in new : next <= p[2] /\ p[2] < next'
  /\ \A p, q \in new : p[2] = q[2] => p = q
  /\ \A u \in Uuids : board'[u] = board[u]
                      \/ \E p \in new : u = p[2] /\ board'[u] = PlaceOf(p[1], target)
  /\ drawn' \subseteq drawn \cup {p[2] : p \in new}
  /\ next <= next'

\* ... all of which wait to be recorded, the last of each record in place.
AllDrawn(b, new) ==
  /\ pending' = new /\ todo' = todo \ b
  /\ \A k \in b : \E p \in new :
       /\ p[1] = k /\ board'[p[2]] = PlaceOf(k, target)
       /\ \A q \in new : q[1] = k => q[2] <= p[2]
  /\ refused' = 0 => \A p, q \in new : p[1] = q[1] => p = q

LEMMA NumberingDraws ==
  ASSUME TypeInv, NEW b \in Batches, NEW from \in Nat \ {0}, next <= from,
         from + Cardinality(b) - 1 <= MaxUuid, NEW f \in Numberings(b, from),
         NEW brd \in [Uuids -> Places \cup {NoPlace}]
  PROVE  /\ DOMAIN f = b
         /\ \A k \in b : f[k] \in Uuids /\ from <= f[k] /\ f[k] < from + Cardinality(b)
         /\ \A j, k \in b : f[j] = f[k] => j = k
         /\ Pairs(f) \subseteq b \X Uuids
         /\ \A k \in b : <<k, f[k]>> \in Pairs(f) /\ Drawn(brd, f)[f[k]] = PlaceOf(k, target)
         /\ \A p \in Pairs(f) : p[1] \in b /\ p[2] = f[p[1]] /\ p = <<p[1], f[p[1]]>>
         /\ \A u \in Uuids : Drawn(brd, f)[u] = brd[u] \/ \E k \in b : u = f[k]
         /\ Range(f) = {p[2] : p \in Pairs(f)}
         /\ Drawn(brd, f) \in [Uuids -> Places \cup {NoPlace}]
<1>1. Cardinality(b) \in Nat /\ b \subseteq todo
  BY BatchFacts
<1>2. f \in [b -> from .. (from + Cardinality(b) - 1)] /\ IsInjective(f)
  BY DEF Numberings, Injection
<1>3. \A k \in b : f[k] \in Uuids /\ from <= f[k] /\ f[k] < from + Cardinality(b)
  BY <1>1, <1>2, BoundsAssumption DEF Uuids
<1>4. \A j, k \in b : f[j] = f[k] => j = k
  BY <1>2 DEF IsInjective
<1>5. \A p \in Pairs(f) : p[1] \in b /\ p[2] = f[p[1]] /\ p = <<p[1], f[p[1]]>>
  BY <1>2 DEF Pairs
<1>6. Pairs(f) \subseteq b \X Uuids
  BY <1>2, <1>3 DEF Pairs
<1>7. \A k \in b : f[k] \in Range(f) /\ <<k, f[k]>> \in Pairs(f)
  BY <1>2 DEF Range, Pairs
<1>8. \A k \in b : Drawn(brd, f)[f[k]] = PlaceOf(k, target)
  <2> SUFFICES ASSUME NEW k \in b PROVE Drawn(brd, f)[f[k]] = PlaceOf(k, target)
    OBVIOUS
  <2>1. (CHOOSE j \in DOMAIN f : f[j] = f[k]) = k
    BY <1>2, <1>4
  <2> QED BY <1>3, <1>7, <2>1 DEF Drawn
<1>9. \A u \in Uuids : Drawn(brd, f)[u] = brd[u] \/ \E k \in b : u = f[k]
  BY <1>2 DEF Drawn, Range
<1>10. Range(f) = {p[2] : p \in Pairs(f)}
  <2>1. ASSUME NEW u \in Range(f) PROVE \E p \in Pairs(f) : p[2] = u
    <3>1. PICK k \in b : f[k] = u
      BY <1>2, <2>1 DEF Range
    <3>2. <<k, f[k]>> \in Pairs(f) /\ <<k, f[k]>>[2] = u
      BY <1>7, <3>1
    <3> QED BY <3>2
  <2>2. \A p \in Pairs(f) : p[2] \in Range(f)
    BY <1>5, <1>7
  <2> QED BY <2>1, <2>2
<1>11. Drawn(brd, f) \in [Uuids -> Places \cup {NoPlace}]
  BY <1>1, <1>2, DrawnType
<1> QED BY <1>2, <1>3, <1>4, <1>5, <1>6, <1>7, <1>8, <1>9, <1>10, <1>11

LEMMA BatchDraws ==
  ASSUME TypeInv, DrawBatch
  PROVE  \E b \in SUBSET Keys, new \in SUBSET (Keys \X Uuids) : Drawing(b, new) /\ AllDrawn(b, new)
<1>1. PICK b \in Batches : \E f \in Numberings(b, next) :
        /\ Fits(Cardinality(b))
        /\ board' = Drawn(board, f) /\ pending' = Pairs(f)
        /\ next' = next + Cardinality(b) /\ todo' = todo \ b
        /\ drawn' = drawn \cup Range(f)
  BY DEF DrawBatch
<1>2. PICK f \in Numberings(b, next) :
        /\ Fits(Cardinality(b))
        /\ board' = Drawn(board, f) /\ pending' = Pairs(f)
        /\ next' = next + Cardinality(b) /\ todo' = todo \ b
        /\ drawn' = drawn \cup Range(f)
  BY <1>1
<1>3. /\ Cardinality(b) \in Nat /\ b \subseteq todo /\ next \in Nat \ {0} /\ todo \subseteq Keys
      /\ board \in [Uuids -> Places \cup {NoPlace}] /\ next + Cardinality(b) - 1 <= MaxUuid
  BY <1>2, BatchFacts, BoundsAssumption DEF TypeInv, TypeOK, Fits
<1>4. /\ DOMAIN f = b
      /\ \A k \in b : f[k] \in Uuids /\ next <= f[k] /\ f[k] < next + Cardinality(b)
      /\ \A j, k \in b : f[j] = f[k] => j = k
      /\ Pairs(f) \subseteq b \X Uuids
      /\ \A k \in b : <<k, f[k]>> \in Pairs(f) /\ Drawn(board, f)[f[k]] = PlaceOf(k, target)
      /\ \A p \in Pairs(f) : p[1] \in b /\ p[2] = f[p[1]] /\ p = <<p[1], f[p[1]]>>
      /\ \A u \in Uuids : Drawn(board, f)[u] = board[u] \/ \E k \in b : u = f[k]
      /\ Range(f) = {p[2] : p \in Pairs(f)}
  BY <1>3, NumberingDraws
<1>5. Drawing(b, Pairs(f))
  <2>1. \A p, q \in Pairs(f) : p[2] = q[2] => p = q
    BY <1>4
  <2>2. \A u \in Uuids : board'[u] = board[u]
                         \/ \E p \in Pairs(f) : u = p[2] /\ board'[u] = PlaceOf(p[1], target)
    <3> SUFFICES ASSUME NEW u \in Uuids, NEW k \in b, u = f[k]
                 PROVE  \E p \in Pairs(f) : u = p[2] /\ board'[u] = PlaceOf(p[1], target)
      BY <1>2, <1>4
    <3>1. <<k, f[k]>> \in Pairs(f) /\ board'[f[k]] = PlaceOf(k, target)
      BY <1>2, <1>4
    <3> QED BY <3>1
  <2>3. \A p \in Pairs(f) : next <= p[2] /\ p[2] < next'
    BY <1>2, <1>4
  <2>4. next <= next'
    BY <1>2, <1>3
  <2> QED BY <1>2, <1>3, <1>4, <2>1, <2>2, <2>3, <2>4 DEF Drawing
<1>6. AllDrawn(b, Pairs(f))
  <2>1. \A p, q \in Pairs(f) : p[1] = q[1] => p = q
    BY <1>4
  <2>2. ASSUME NEW k \in b
        PROVE  \E p \in Pairs(f) : /\ p[1] = k /\ board'[p[2]] = PlaceOf(k, target)
                                   /\ \A q \in Pairs(f) : q[1] = k => q[2] <= p[2]
    <3> DEFINE p == <<k, f[k]>>
    <3>1. p \in Pairs(f) /\ p[1] = k /\ board'[p[2]] = PlaceOf(k, target)
      BY <1>2, <1>4
    <3>2. f[k] \in Nat
      BY <1>4 DEF Uuids
    <3>3. \A q \in Pairs(f) : q[1] = k => q[2] = f[k] /\ q[2] <= p[2]
      BY <1>4, <3>2
    <3> QED BY <3>1, <3>3
  <2> QED BY <1>2, <2>1, <2>2 DEF AllDrawn
<1>7. b \in SUBSET Keys /\ Pairs(f) \in SUBSET (Keys \X Uuids)
  BY <1>3, <1>4
<1> QED BY <1>5, <1>6, <1>7

LEMMA RetryDraws ==
  ASSUME TypeInv, DrawBatchRetried
  PROVE  \E b \in SUBSET Keys, new \in SUBSET (Keys \X Uuids) : Drawing(b, new) /\ AllDrawn(b, new)
<1> DEFINE Both(b, f, g) ==
      /\ \/ board' = Drawn(board, g)
         \/ board' = Drawn(Drawn(board, f), g)
      /\ pending' = Pairs(f) \cup Pairs(g)
      /\ drawn' = drawn \cup Range(f) \cup Range(g)
<1>1. PICK b \in Batches :
        /\ Fits(2 * Cardinality(b))
        /\ \E f \in Numberings(b, next), g \in Numberings(b, next + Cardinality(b)) :
              Both(b, f, g)
        /\ next' = next + 2 * Cardinality(b) /\ todo' = todo \ b
  BY DEF DrawBatchRetried
<1>2. PICK f \in Numberings(b, next), g \in Numberings(b, next + Cardinality(b)) : Both(b, f, g)
  BY <1>1
<1> DEFINE n == Cardinality(b)
           new == Pairs(f) \cup Pairs(g)
<1>3. /\ n \in Nat /\ b \subseteq todo /\ next \in Nat \ {0} /\ todo \subseteq Keys
      /\ board \in [Uuids -> Places \cup {NoPlace}] /\ refused \in Nat
  BY BatchFacts, BoundsAssumption DEF TypeInv, TypeOK
<1>4. /\ next + n \in Nat \ {0} /\ next <= next + n /\ next + n - 1 <= MaxUuid
      /\ (next + n) + n - 1 <= MaxUuid
  BY <1>1, <1>3, BoundsAssumption DEF Fits
<1>5. /\ DOMAIN f = b
      /\ \A k \in b : f[k] \in Uuids /\ next <= f[k] /\ f[k] < next + n
      /\ \A j, k \in b : f[j] = f[k] => j = k
      /\ Pairs(f) \subseteq b \X Uuids
      /\ \A k \in b : <<k, f[k]>> \in Pairs(f) /\ Drawn(board, f)[f[k]] = PlaceOf(k, target)
      /\ \A p \in Pairs(f) : p[1] \in b /\ p[2] = f[p[1]] /\ p = <<p[1], f[p[1]]>>
      /\ \A u \in Uuids : Drawn(board, f)[u] = board[u] \/ \E k \in b : u = f[k]
      /\ Range(f) = {p[2] : p \in Pairs(f)}
      /\ Drawn(board, f) \in [Uuids -> Places \cup {NoPlace}]
  BY <1>3, <1>4, NumberingDraws
<1>6. ASSUME NEW brd \in [Uuids -> Places \cup {NoPlace}]
      PROVE  /\ DOMAIN g = b
             /\ \A k \in b : g[k] \in Uuids /\ next + n <= g[k] /\ g[k] < (next + n) + n
             /\ \A j, k \in b : g[j] = g[k] => j = k
             /\ Pairs(g) \subseteq b \X Uuids
             /\ \A k \in b : <<k, g[k]>> \in Pairs(g) /\ Drawn(brd, g)[g[k]] = PlaceOf(k, target)
             /\ \A p \in Pairs(g) : p[1] \in b /\ p[2] = g[p[1]] /\ p = <<p[1], g[p[1]]>>
             /\ \A u \in Uuids : Drawn(brd, g)[u] = brd[u] \/ \E k \in b : u = g[k]
             /\ Range(g) = {p[2] : p \in Pairs(g)}
  <2> DEFINE at == next + n
  <2>1. at \in Nat \ {0} /\ next <= at /\ at + Cardinality(b) - 1 <= MaxUuid
    BY <1>4
  <2>2. g \in Numberings(b, at)
    OBVIOUS
  <2>3. \A k \in b : g[k] < at + Cardinality(b) => g[k] < (next + n) + n
    OBVIOUS
  <2> HIDE DEF at
  <2>4. /\ DOMAIN g = b
        /\ \A k \in b : g[k] \in Uuids /\ at <= g[k] /\ g[k] < at + Cardinality(b)
        /\ \A j, k \in b : g[j] = g[k] => j = k
        /\ Pairs(g) \subseteq b \X Uuids
        /\ \A k \in b : <<k, g[k]>> \in Pairs(g) /\ Drawn(brd, g)[g[k]] = PlaceOf(k, target)
        /\ \A p \in Pairs(g) : p[1] \in b /\ p[2] = g[p[1]] /\ p = <<p[1], g[p[1]]>>
        /\ \A u \in Uuids : Drawn(brd, g)[u] = brd[u] \/ \E k \in b : u = g[k]
        /\ Range(g) = {p[2] : p \in Pairs(g)}
    BY <1>6, <2>1, <2>2, NumberingDraws
  <2> QED BY <2>3, <2>4 DEF at
<1>7. /\ \A k \in b : board'[g[k]] = PlaceOf(k, target)
      /\ \A u \in Uuids : \/ board'[u] = board[u]
                          \/ \E k \in b : u = g[k]
                          \/ \E k \in b : u = f[k] /\ board'[u] = PlaceOf(k, target)
  <2>1. CASE board' = Drawn(board, g)
    BY <1>3, <1>6, <2>1
  <2>2. CASE board' = Drawn(Drawn(board, f), g)
    <3> DEFINE mid == Drawn(board, f)
    <3>0. mid \in [Uuids -> Places \cup {NoPlace}]
      BY <1>5
    <3>1. /\ \A k \in b : Drawn(mid, g)[g[k]] = PlaceOf(k, target)
          /\ \A u \in Uuids : Drawn(mid, g)[u] = mid[u] \/ \E k \in b : u = g[k]
      <4> HIDE DEF mid
      <4> QED BY <1>6, <3>0
    <3>2. \A u \in Uuids : mid[u] = board[u] \/ \E k \in b : u = f[k] /\ mid[u] = PlaceOf(k, target)
      <4> SUFFICES ASSUME NEW u \in Uuids, NEW k \in b, u = f[k]
                   PROVE  mid[u] = PlaceOf(k, target)
        BY <1>5
      <4> QED BY <1>5
    <3>3. board' = Drawn(mid, g)
      BY <2>2
    <3> HIDE DEF mid
    <3> QED BY <3>1, <3>2, <3>3
  <2> QED BY <1>2, <2>1, <2>2
<1>8. /\ DOMAIN g = b
      /\ \A k \in b : g[k] \in Uuids /\ next + n <= g[k] /\ g[k] < (next + n) + n
      /\ \A j, k \in b : g[j] = g[k] => j = k
      /\ Pairs(g) \subseteq b \X Uuids
      /\ \A k \in b : <<k, g[k]>> \in Pairs(g)
      /\ \A p \in Pairs(g) : p[1] \in b /\ p[2] = g[p[1]] /\ p = <<p[1], g[p[1]]>>
      /\ Range(g) = {p[2] : p \in Pairs(g)}
  BY <1>3, <1>6
<1>9. next' = (next + n) + n
  BY <1>1, <1>3
<1>10. \A j, k \in b : f[j] < g[k] /\ f[j] \in Nat /\ g[k] \in Nat
  BY <1>3, <1>5, <1>8 DEF Uuids
<1> HIDE DEF n
<1>11. Drawing(b, new)
  <2>1. \A p \in new : \/ p[1] \in b /\ p[2] = f[p[1]] /\ p = <<p[1], f[p[1]]>>
                       \/ p[1] \in b /\ p[2] = g[p[1]] /\ p = <<p[1], g[p[1]]>>
    BY <1>5, <1>8
  <2>2. \A p, q \in new : p[2] = q[2] => p = q
    <3> SUFFICES ASSUME NEW p \in new, NEW q \in new, p[2] = q[2] PROVE p = q
      OBVIOUS
    <3> QED BY <1>5, <1>8, <1>10, <2>1
  <2>3. \A p \in new : next <= p[2] /\ p[2] < next'
    <3> SUFFICES ASSUME NEW p \in new PROVE next <= p[2] /\ p[2] < next'
      OBVIOUS
    <3>1. CASE p[1] \in b /\ p[2] = f[p[1]]
      BY <1>3, <1>5, <1>9, <1>10, <3>1
    <3>2. CASE p[1] \in b /\ p[2] = g[p[1]]
      BY <1>3, <1>8, <1>9, <1>10, <3>2
    <3> QED BY <2>1, <3>1, <3>2
  <2>4. ASSUME NEW u \in Uuids
        PROVE  board'[u] = board[u] \/ \E p \in new : u = p[2] /\ board'[u] = PlaceOf(p[1], target)
    <3>1. ASSUME NEW k \in b, u = g[k]
          PROVE \E p \in new : u = p[2] /\ board'[u] = PlaceOf(p[1], target)
      <4>1. <<k, g[k]>> \in new
        BY <1>8
      <4> QED BY <1>7, <3>1, <4>1
    <3>2. ASSUME NEW k \in b, u = f[k], board'[u] = PlaceOf(k, target)
          PROVE \E p \in new : u = p[2] /\ board'[u] = PlaceOf(p[1], target)
      <4>1. <<k, f[k]>> \in new
        BY <1>5
      <4> QED BY <3>2, <4>1
    <3> QED BY <1>7, <3>1, <3>2
  <2>5. new \subseteq b \X Uuids /\ next <= next'
    BY <1>3, <1>5, <1>8, <1>9
  <2>6. drawn' \subseteq drawn \cup {p[2] : p \in new}
    BY <1>2, <1>5, <1>8
  <2> HIDE DEF new
  <2> QED BY <1>3, <2>2, <2>3, <2>4, <2>5, <2>6 DEF Drawing
<1>12. AllDrawn(b, new)
  <2>1. ASSUME NEW k \in b
        PROVE  \E p \in new : /\ p[1] = k /\ board'[p[2]] = PlaceOf(k, target)
                              /\ \A q \in new : q[1] = k => q[2] <= p[2]
    <3> DEFINE p == <<k, g[k]>>
    <3>1. p \in new /\ p[1] = k /\ board'[p[2]] = PlaceOf(k, target)
      BY <1>7, <1>8
    <3>2. \A q \in new : q[1] = k => q[2] = f[k] \/ q[2] = g[k]
      BY <1>5, <1>8
    <3>3. \A q \in new : q[1] = k => q[2] <= p[2]
      BY <1>10, <3>2
    <3> QED BY <3>1, <3>3
  <2>2. refused' # 0
    BY <1>3 DEF DrawBatchRetried, Refuse
  <2>3. pending' = new /\ todo' = todo \ b
    BY <1>1, <1>2
  <2> HIDE DEF new
  <2> QED BY <2>1, <2>2, <2>3 DEF AllDrawn
<1>13. b \in SUBSET Keys /\ new \in SUBSET (Keys \X Uuids)
  BY <1>3, <1>5, <1>8
<1> QED BY <1>11, <1>12, <1>13

LEMMA RaiseDraws ==
  ASSUME TypeInv, DrawBatchRaises
  PROVE  \E b \in SUBSET Keys, new \in SUBSET (Keys \X Uuids) : Drawing(b, new)
<1>1. PICK b \in Batches : \E f \in Numberings(b, next) :
        /\ Fits(Cardinality(b))
        /\ board' \in {board, Drawn(board, f)}
        /\ next' = next + Cardinality(b) /\ drawn' = drawn \cup Range(f)
  BY DEF DrawBatchRaises
<1>2. PICK f \in Numberings(b, next) :
        /\ Fits(Cardinality(b))
        /\ board' \in {board, Drawn(board, f)}
        /\ next' = next + Cardinality(b) /\ drawn' = drawn \cup Range(f)
  BY <1>1
<1>3. /\ Cardinality(b) \in Nat /\ b \subseteq todo /\ next \in Nat \ {0} /\ todo \subseteq Keys
      /\ board \in [Uuids -> Places \cup {NoPlace}] /\ next + Cardinality(b) - 1 <= MaxUuid
  BY <1>2, BatchFacts, BoundsAssumption DEF TypeInv, TypeOK, Fits
<1>4. /\ DOMAIN f = b
      /\ \A k \in b : f[k] \in Uuids /\ next <= f[k] /\ f[k] < next + Cardinality(b)
      /\ \A j, k \in b : f[j] = f[k] => j = k
      /\ Pairs(f) \subseteq b \X Uuids
      /\ \A k \in b : <<k, f[k]>> \in Pairs(f) /\ Drawn(board, f)[f[k]] = PlaceOf(k, target)
      /\ \A p \in Pairs(f) : p[1] \in b /\ p[2] = f[p[1]] /\ p = <<p[1], f[p[1]]>>
      /\ \A u \in Uuids : Drawn(board, f)[u] = board[u] \/ \E k \in b : u = f[k]
      /\ Range(f) = {p[2] : p \in Pairs(f)}
  BY <1>3, NumberingDraws
<1>5. \A p, q \in Pairs(f) : p[2] = q[2] => p = q
  BY <1>4
<1>6. ASSUME NEW u \in Uuids
      PROVE  board'[u] = board[u]
             \/ \E p \in Pairs(f) : u = p[2] /\ board'[u] = PlaceOf(p[1], target)
  <2>1. ASSUME NEW k \in b, u = f[k], board' = Drawn(board, f)
        PROVE  \E p \in Pairs(f) : u = p[2] /\ board'[u] = PlaceOf(p[1], target)
    <3>1. <<k, f[k]>> \in Pairs(f) /\ board'[f[k]] = PlaceOf(k, target)
      BY <1>4, <2>1
    <3> QED BY <2>1, <3>1
  <2> QED BY <1>2, <1>4, <2>1
<1>7. (\A p \in Pairs(f) : next <= p[2] /\ p[2] < next') /\ next <= next'
  BY <1>2, <1>3, <1>4
<1>8. Drawing(b, Pairs(f))
  BY <1>2, <1>3, <1>4, <1>5, <1>6, <1>7 DEF Drawing
<1>9. b \in SUBSET Keys /\ Pairs(f) \in SUBSET (Keys \X Uuids)
  BY <1>3, <1>4
<1> QED BY <1>8, <1>9

-----------------------------------------------------------------------------
(* What every run keeps, whatever fails: the invariants the others rest on. *)

\* A run works on the registry it has just saved, and on anchors of the config.
Running == only \subseteq known /\ (~AtRest => entries = file)

\* What one step decides and a later one carries out is there in between only.
Planned ==
  /\ pc # "bind" => binds = {} /\ drops = {}
  /\ pc # "record" => pending = {}
  /\ pc # "delete" => doomed = {}
  /\ \A p \in pending : p[1] \in RunKeys

\* A uuid KiCad has not given out yet is nowhere.
FreshUuids ==
  /\ \A u \in Uuids : u >= next => board[u] = NoPlace
  /\ \A k \in Keys : file[k] < next
  /\ \A u \in drawn : u < next
  /\ \A c \in binds \cup pending : c[2] < next

\* A live item held for record number k[2] lies in a slot that some list gives
\* that number.
InSlot(k, u) == u \in Live => \E l \in Layouts : l[k[2]] # NoSlot /\ board[u][2] = l[k[2]]

Slotted ==
  /\ cell \in Cells
  /\ \A k \in Keys : InSlot(k, file[k])
  /\ \A c \in binds \cup pending : InSlot(c[1], c[2])

RunInv == Running /\ Planned /\ FreshUuids /\ Slotted

Base == TypeInv /\ RunInv

-----------------------------------------------------------------------------
(* The steps by what they leave alone.                                     *)

\* A step of a run that goes on, or finishes.
RunStep ==
  \/ DecideAdoption \/ AdoptLive \/ ForgetKey \/ MoveComponents \/ ClaimUnowned
  \/ Reconcile \/ Delete \/ DeleteRefused \/ DrawBatch \/ DrawBatchRetried
  \/ RecordCreated \/ Finish

EndStep == MovesRaise \/ DrawBatchRaises \/ \E torn \in BOOLEAN : Crash(torn)

EditStep == EditCell \/ EditTarget \/ EditRecords \/ HandMove \/ HandDraw \/ HandDelete

LEMMA NextSplit ==
  Next => \/ \E sel \in SUBSET known : \E rig \in SUBSET sel : Start(sel, rig)
          \/ RunStep \/ EndStep \/ EditStep
BY DEF Next, RunStep, EndStep, EditStep

LEMMA RunFrame ==
  ASSUME RunStep
  PROVE  /\ ~AtRest /\ cell' = cell /\ known' = known /\ target' = target
         /\ only' = only /\ rigid' = rigid /\ again' = again /\ heldBefore' = heldBefore
         /\ edits' = edits /\ crashes' = crashes
         /\ RunKeys' = RunKeys /\ SeenAnchors' = SeenAnchors
<1>1. /\ ~AtRest /\ cell' = cell /\ known' = known /\ target' = target
      /\ only' = only /\ rigid' = rigid /\ again' = again /\ heldBefore' = heldBefore
      /\ edits' = edits /\ crashes' = crashes
  BY DEF RunStep, DecideAdoption, AdoptLive, ForgetKey, MoveComponents, ClaimUnowned,
         Reconcile, Delete, DeleteRefused, RemoveByIds, DrawBatch, DrawBatchRetried,
         RecordCreated, Finish, AtRest, configVars, runVars, faultVars
<1> QED BY <1>1 DEF RunKeys, SeenAnchors

LEMMA EndFrame ==
  ASSUME EndStep \/ EditStep
  PROVE  /\ RunEnds /\ AtRest' /\ pc' = "idle" /\ only' = {} /\ again' = FALSE /\ RunKeys' = {}
         /\ todo' = {} /\ pending' = {} /\ binds' = {} /\ drops' = {} /\ doomed' = {}
         /\ packet' = "clean" /\ heldBefore' = {}
<1>1. RunEnds
  BY DEF EndStep, EditStep, MovesRaise, DrawBatchRaises, Crash, EditCell, EditTarget, EditRecords,
         HandMove, HandDraw, HandDelete, Edit
<1> QED BY <1>1 DEF RunEnds, NothingPlanned, AtRest, RunKeys

\* A batch is drawn, in one attempt or two, and waits to be recorded; or the
\* run ends over it.
LEMMA DrawFrame ==
  ASSUME TypeInv, DrawBatch \/ DrawBatchRetried \/ DrawBatchRaises
  PROVE  /\ pc = "draw" /\ file' = file /\ pose' = pose
         /\ cell' = cell /\ target' = target /\ known' = known
         /\ \E b \in SUBSET Keys, new \in SUBSET (Keys \X Uuids) :
               /\ Drawing(b, new)
               /\ ~DrawBatchRaises => /\ AllDrawn(b, new) /\ pc' = "record" /\ entries' = entries
                                      /\ binds' = binds /\ drops' = drops /\ doomed' = doomed
                                      /\ packet' = packet
<1>1. /\ pc = "draw" /\ file' = file /\ pose' = pose
      /\ cell' = cell /\ target' = target /\ known' = known
  BY DEF DrawBatch, DrawBatchRetried, DrawBatchRaises, configVars
<1>2. CASE DrawBatchRaises
  BY <1>1, <1>2, RaiseDraws
<1>3. CASE ~DrawBatchRaises
  <2>1. /\ pc' = "record" /\ entries' = entries
        /\ binds' = binds /\ drops' = drops /\ doomed' = doomed /\ packet' = packet
    BY <1>3 DEF DrawBatch, DrawBatchRetried
  <2>2. \E b \in SUBSET Keys, new \in SUBSET (Keys \X Uuids) : Drawing(b, new) /\ AllDrawn(b, new)
    BY <1>3, BatchDraws, RetryDraws
  <2> QED BY <1>1, <1>3, <2>1, <2>2
<1> QED BY <1>2, <1>3

\* Pairs are finitely many, so the last one recorded leaves none.
LEMMA RecordFrame ==
  ASSUME TypeInv, RecordCreated
  PROVE  \E p \in pending :
           /\ p[1] \in Keys /\ p[2] \in Uuids
           /\ \A q \in pending : p[2] <= q[2]
           /\ pending' = pending \ {p} /\ file' = entries'
           /\ \A k \in Keys : entries'[k] = IF k = p[1] THEN p[2] ELSE entries[k]
           /\ pc = "record" /\ pc' \in {"draw", "record"}
           /\ pc' # "record" => pending' = {}
           /\ board' = board /\ next' = next /\ drawn' = drawn /\ pose' = pose
           /\ binds' = binds /\ drops' = drops /\ doomed' = doomed /\ packet' = packet
           /\ todo' = todo /\ refused' = refused
<1>1. PICK p \in pending :
        /\ \A q \in pending : p[2] <= q[2]
        /\ Save([entries EXCEPT ![p[1]] = p[2]])
        /\ pending' = pending \ {p}
  BY DEF RecordCreated
<1>2. p[1] \in Keys /\ p[2] \in Uuids
  BY <1>1 DEF TypeInv, TypeOK
<1>3. file' = entries' /\ \A k \in Keys : entries'[k] = IF k = p[1] THEN p[2] ELSE entries[k]
  BY <1>1, <1>2 DEF Save, TypeInv, TypeOK
<1>4. pc' \in {"draw", "record"} /\ (pc' # "record" => pending' = {})
  <2>1. pc' = IF Cardinality(pending) = 1 THEN "draw" ELSE "record"
    BY DEF RecordCreated
  <2>2. IsFiniteSet(pending)
    <3>1. IsFiniteSet(Keys)
      BY FinitenessAssumption, FS_Product DEF Keys
    <3>2. IsFiniteSet(Uuids)
      BY BoundsAssumption, FS_Interval DEF Uuids
    <3>3. IsFiniteSet(Keys \X Uuids)
      BY <3>1, <3>2, FS_Product
    <3> QED BY <3>3, FS_Subset DEF TypeInv, TypeOK
  <2>3. Cardinality(pending) = 1 => pending' = {}
    BY <1>1, <2>2, FS_Singleton
  <2> QED BY <2>1, <2>3
<1>5. /\ pc = "record" /\ board' = board /\ next' = next /\ drawn' = drawn /\ pose' = pose
      /\ binds' = binds /\ drops' = drops /\ doomed' = doomed /\ packet' = packet
      /\ todo' = todo /\ refused' = refused
  BY DEF RecordCreated, boardVars, faultVars
<1> QED BY <1>1, <1>2, <1>3, <1>4, <1>5

\* Every step but a hand edit and a draw leaves each item where it is, or
\* takes it off the board.
LEMMA BoardFrame ==
  ASSUME TypeInv, Next
  PROVE  /\ \/ \A u \in Uuids : board'[u] = board[u] \/ board'[u] = NoPlace
            \/ DrawBatch \/ DrawBatchRetried \/ DrawBatchRaises \/ HandDraw
         /\ \/ next' = next /\ drawn' = drawn
            \/ DrawBatch \/ DrawBatchRetried \/ DrawBatchRaises \/ HandDraw
<1>1. CASE Delete \/ DeleteRefused
  BY <1>1 DEF Delete, DeleteRefused, RemoveByIds, TypeInv, TypeOK
<1>2. CASE HandDelete
  BY <1>2 DEF HandDelete, TypeInv, TypeOK, Live
<1>3. CASE \/ \E sel \in SUBSET known, rig \in SUBSET known : Start(sel, rig)
           \/ DecideAdoption \/ AdoptLive \/ ForgetKey \/ MoveComponents \/ MovesRaise
           \/ ClaimUnowned \/ Reconcile \/ RecordCreated \/ Finish
           \/ \E torn \in BOOLEAN : Crash(torn)
           \/ EditCell \/ EditTarget \/ EditRecords \/ HandMove
  BY <1>3 DEF Start, DecideAdoption, AdoptLive, ForgetKey, MoveComponents, MovesRaise,
     ClaimUnowned, Reconcile, RecordCreated, Finish, Crash, EditCell, EditTarget, EditRecords,
     HandMove, boardVars
<1> QED BY <1>1, <1>2, <1>3 DEF Next

-----------------------------------------------------------------------------
(* The invariants of every run are inductive.                              *)

LEMMA InitRunInv == Init => RunInv
<1> SUFFICES ASSUME Init PROVE RunInv
  OBVIOUS
<1>1. FreshUuids
  BY DEF Init, FreshUuids, EmptyRegistry, NoUuid
<1>2. Slotted
  <2>1. Live = {}
    BY DEF Init, Live
  <2> QED BY <2>1 DEF Init, Slotted, InSlot
<1> QED BY <1>1, <1>2 DEF Init, RunInv, Running, Planned, AtRest

LEMMA RunningStep ==
  ASSUME Base, Next
  PROVE  Running' /\ Planned'
<1> USE DEF Base, RunInv
<1>1. ASSUME NEW sel \in SUBSET known, NEW rig \in SUBSET sel, Start(sel, rig)
      PROVE  Running' /\ Planned'
  BY <1>1 DEF Start, Running, Planned, AtRest, configVars, planVars
<1>2. CASE EndStep \/ EditStep
  BY <1>2, EndFrame DEF Running, Planned
<1>3. CASE DecideAdoption
  BY <1>3 DEF DecideAdoption, Running, Planned, AtRest, configVars, runVars
<1>4. CASE AdoptLive \/ ForgetKey
  BY <1>4 DEF AdoptLive, ForgetKey, Save, Running, Planned, AtRest, configVars, runVars
<1>5. CASE MoveComponents
  BY <1>5 DEF MoveComponents, Running, Planned, AtRest, configVars, runVars, planVars
<1>6. CASE ClaimUnowned
  BY <1>6 DEF ClaimUnowned, Save, Running, Planned, AtRest, configVars, runVars, planVars
<1>7. CASE Reconcile
  BY <1>7 DEF Reconcile, Save, Running, Planned, AtRest, configVars, runVars
<1>8. CASE Delete \/ DeleteRefused
  BY <1>8 DEF Delete, DeleteRefused, RemoveByIds, Running, Planned, AtRest, configVars, runVars
<1>9. CASE DrawBatch \/ DrawBatchRetried
  <2>1. ~DrawBatchRaises \/ EndStep
    BY DEF EndStep
  <2>2. CASE ~DrawBatchRaises
    <3>1. PICK b \in SUBSET Keys, new \in SUBSET (Keys \X Uuids) :
            /\ Drawing(b, new) /\ AllDrawn(b, new) /\ pc' = "record" /\ entries' = entries
            /\ binds' = binds /\ drops' = drops /\ doomed' = doomed
      BY <1>9, <2>2, DrawFrame
    <3>2. RunKeys' = RunKeys /\ only' = only /\ known' = known /\ file' = file /\ pc = "draw"
      BY <1>9, RunFrame, DrawFrame DEF RunStep
    <3>3. \A p \in pending' : p[1] \in RunKeys
      BY <3>1 DEF Drawing, AllDrawn, TypeInv, TodoPlanned
    <3> QED BY <3>1, <3>2, <3>3 DEF Running, Planned, AtRest
  <2> QED BY <1>2, <2>1, <2>2
<1>10. CASE RecordCreated
  <2>1. RunKeys' = RunKeys /\ only' = only /\ known' = known /\ ~AtRest
    BY <1>10, RunFrame DEF RunStep
  <2> QED BY <1>10, <2>1, RecordFrame DEF Running, Planned, AtRest
<1>11. CASE Finish
  BY <1>11 DEF Finish, Running, Planned, AtRest, configVars, runVars, planVars
<1> QED
  BY <1>1, <1>2, <1>3, <1>4, <1>5, <1>6, <1>7, <1>8, <1>9, <1>10, <1>11, NextSplit DEF RunStep

\* What a binding or a claim takes is on the board.
LEMMA ClaimFrame ==
  ASSUME TypeInv, ClaimUnowned
  PROVE  /\ pc = "claim" /\ pc' = "reconcile" /\ file' = entries'
         /\ \A k \in Keys : \/ entries'[k] = entries[k]
                            \/ /\ k \in RunKeys /\ entries[k] = NoUuid
                               /\ entries'[k] \in Claimable(k) \cup {NoUuid}
         /\ \A j, k \in Keys :
               entries'[j] = entries'[k] /\ entries'[j] # NoUuid /\ entries'[j] # entries[j]
               => j = k
         /\ board' = board /\ pose' = pose /\ next' = next /\ drawn' = drawn
         /\ binds' = binds /\ drops' = drops /\ doomed' = doomed /\ packet' = packet
         /\ todo' = todo /\ pending' = pending /\ refused' = refused
<1>1. PICK take \in [Unregistered -> Uuids \cup {NoUuid}] :
        /\ Claiming(take)
        /\ Save([k \in Keys |-> IF k \in Unregistered THEN take[k] ELSE entries[k]])
  BY DEF ClaimUnowned
<1>2. \A k \in Keys : entries'[k] = IF k \in Unregistered THEN take[k] ELSE entries[k]
  BY <1>1 DEF Save
<1>3. \A k \in Unregistered : /\ k \in RunKeys /\ entries[k] = NoUuid
                              /\ take[k] \in Claimable(k) \cup {NoUuid}
  BY <1>1 DEF Claiming, Unregistered
<1>4. \A j, k \in Unregistered : take[j] = take[k] /\ take[j] # NoUuid => j = k
  BY <1>1 DEF Claiming
<1>5. \A j, k \in Keys :
         entries'[j] = entries'[k] /\ entries'[j] # NoUuid /\ entries'[j] # entries[j] => j = k
  <2> SUFFICES ASSUME NEW j \in Keys, NEW k \in Keys, entries'[j] = entries'[k],
                      entries'[j] # NoUuid, entries'[j] # entries[j]
               PROVE  j = k
    OBVIOUS
  <2>1. j \in Unregistered /\ take[j] \in Claimable(j) /\ take[j] # NoUuid
    BY <1>2, <1>3
  <2>2. take[j] \notin Held(entries)
    BY <2>1 DEF Claimable
  <2>3. k \in Unregistered
    BY <1>2, <2>1, <2>2 DEF Held
  <2> QED BY <1>2, <1>4, <2>1, <2>3
<1>6. /\ pc = "claim" /\ pc' = "reconcile" /\ file' = entries'
      /\ board' = board /\ pose' = pose /\ next' = next /\ drawn' = drawn
      /\ binds' = binds /\ drops' = drops /\ doomed' = doomed /\ packet' = packet
      /\ todo' = todo /\ pending' = pending /\ refused' = refused
  BY <1>1 DEF ClaimUnowned, Save, boardVars, planVars, faultVars
<1> QED BY <1>2, <1>3, <1>5, <1>6

\* What the registry says of a key after a step it already said, or the key
\* takes a live item at the record's place, or a pair drawn for it, or nothing.
LEMMA FileFrame ==
  ASSUME Base, Next, NEW k \in Keys
  PROVE  \/ file'[k] = file[k]
         \/ file'[k] = NoUuid
         \/ \E c \in binds \cup pending : c[1] = k /\ file'[k] = c[2]
         \/ k \in RunKeys /\ file'[k] \in Claimable(k) /\ ClaimUnowned
<1> USE DEF Base, RunInv
<1>1. CASE AdoptLive
  <2>1. PICK c \in binds : Save([entries EXCEPT ![c[1]] = c[2]])
    BY <1>1 DEF AdoptLive
  <2>2. entries = file /\ entries \in [Keys -> Uuids \cup {NoUuid}]
    BY <1>1 DEF AdoptLive, Running, AtRest, TypeInv, TypeOK
  <2>3. CASE k = c[1]
    BY <2>1, <2>2, <2>3 DEF Save
  <2>4. CASE k # c[1]
    BY <2>1, <2>2, <2>4 DEF Save
  <2> QED BY <2>3, <2>4
<1>2. CASE ForgetKey
  BY <1>2 DEF ForgetKey, Save, Running, AtRest, TypeInv, TypeOK
<1>3. CASE ClaimUnowned
  <2>1. entries = file
    BY <1>3 DEF ClaimUnowned, Running, AtRest
  <2>2. \/ entries'[k] = entries[k]
        \/ k \in RunKeys /\ entries'[k] \in Claimable(k) \cup {NoUuid}
    BY <1>3, ClaimFrame
  <2>3. file' = entries'
    BY <1>3, ClaimFrame
  <2> QED BY <1>3, <2>1, <2>2, <2>3
<1>4. CASE Reconcile
  BY <1>4 DEF Reconcile, Save, AfterPrune, AfterPlanned, Running, AtRest
<1>5. CASE RecordCreated
  <2>1. entries = file
    BY <1>5 DEF RecordCreated, Running, AtRest
  <2>2. PICK p \in pending :
          file' = entries' /\ \A j \in Keys : entries'[j] = IF j = p[1] THEN p[2] ELSE entries[j]
    BY <1>5, RecordFrame
  <2> QED BY <2>1, <2>2
<1>6. ASSUME NEW torn \in BOOLEAN, Crash(torn)
      PROVE  file'[k] = file[k] \/ file'[k] = NoUuid
  BY <1>6 DEF Crash, EmptyRegistry
<1>7. CASE ~(AdoptLive \/ ForgetKey \/ ClaimUnowned \/ Reconcile \/ RecordCreated
             \/ \E torn \in BOOLEAN : Crash(torn))
  <2>1. file' = file
    BY <1>7 DEF Next, Start, DecideAdoption, MoveComponents, MovesRaise, Delete, DeleteRefused,
       RemoveByIds, DrawBatch, DrawBatchRetried, DrawBatchRaises, Finish, EditCell, EditTarget,
       EditRecords, HandMove, HandDraw, HandDelete, Edit
  <2> QED BY <2>1
<1> QED BY <1>1, <1>2, <1>3, <1>4, <1>5, <1>6, <1>7

\* What the plans of a step may hold next: what they held, an adoption of a
\* live item at the record's place, or a pair drawn for a record of the run.
LEMMA DecideFrame ==
  ASSUME DecideAdoption, NEW c \in binds'
  PROVE  /\ c \in Keys \X Uuids /\ c[1] \in RunKeys /\ c[1][1] \in rigid
         /\ c[2] \in Live /\ StandsAt(c[2], c[1], pose)
         /\ AdoptCandidates(entries, c[1]) = {c[2]}
         /\ ~(entries[c[1]] \in Live \ Released(entries, c[1][1]))
BY DEF DecideAdoption, Bindings, Claims, MayAdopt, AdoptCandidates

LEMMA BindsFrame ==
  ASSUME Next
  PROVE  \/ binds' \subseteq binds
         \/ DecideAdoption
<1>1. CASE EndStep \/ EditStep
  BY <1>1, EndFrame
<1>2. CASE ~(EndStep \/ EditStep \/ DecideAdoption)
  BY <1>2 DEF Next, Start, EndStep, EditStep, AdoptLive, ForgetKey, MoveComponents,
     ClaimUnowned, Reconcile, Delete, DeleteRefused, RemoveByIds, DrawBatch, DrawBatchRetried,
     RecordCreated, Finish, planVars
<1> QED BY <1>1, <1>2

LEMMA PendingFrame ==
  ASSUME Next
  PROVE  \/ pending' \subseteq pending
         \/ DrawBatch \/ DrawBatchRetried
<1>1. CASE EndStep \/ EditStep
  BY <1>1, EndFrame
<1>2. CASE ~(EndStep \/ EditStep \/ DrawBatch \/ DrawBatchRetried)
  BY <1>2 DEF Next, Start, EndStep, EditStep, DecideAdoption, AdoptLive, ForgetKey,
     MoveComponents, ClaimUnowned, Reconcile, Delete, DeleteRefused, RemoveByIds, RecordCreated,
     Finish, planVars
<1> QED BY <1>1, <1>2

LEMMA LiveIsOld ==
  ASSUME TypeInv, FreshUuids
  PROVE  \A u \in Live : u \in Uuids /\ u < next /\ u # NoUuid
BY BoundsAssumption DEF Live, FreshUuids, TypeInv, TypeOK, Uuids, NoUuid

LEMMA FreshStep ==
  ASSUME Base, Next
  PROVE  FreshUuids'
<1> USE DEF Base, RunInv
<1>1. next \in Nat \ {0} /\ \A k \in Keys : file[k] \in Nat
  BY BoundsAssumption DEF TypeInv, TypeOK, Uuids, NoUuid
<1>2. CASE DrawBatch \/ DrawBatchRetried \/ DrawBatchRaises
  <2>1. PICK b \in SUBSET Keys, new \in SUBSET (Keys \X Uuids) :
          /\ Drawing(b, new)
          /\ ~DrawBatchRaises => AllDrawn(b, new) /\ binds' = binds
    BY <1>2, DrawFrame
  <2>2. /\ next' \in Int /\ next <= next'
        /\ \A u \in Nat : u < next => u < next'
        /\ \A u \in Nat : u >= next' => u >= next
    <3>1. next' \in Int
      BY <1>1, TypeStep, BoundsAssumption DEF TypeInv, TypeOK
    <3>2. next <= next'
      BY <2>1 DEF Drawing
    <3> QED BY <1>1, <3>1, <3>2
  <2>3. \A u \in Uuids : u >= next' => board'[u] = NoPlace
    <3> SUFFICES ASSUME NEW u \in Uuids, u >= next' PROVE board'[u] = NoPlace
      OBVIOUS
    <3>1. u \in Nat
      BY BoundsAssumption DEF Uuids
    <3>2. ~\E p \in new : u = p[2]
      BY <2>1, <2>2, <3>1 DEF Drawing
    <3> QED BY <2>1, <2>2, <3>1, <3>2 DEF Drawing, FreshUuids
  <2>4. \A k \in Keys : file'[k] < next'
    BY <1>1, <1>2, <2>2, DrawFrame DEF FreshUuids
  <2>5. \A u \in drawn' : u < next'
    <3>1. \A u \in drawn : u \in Nat
      BY BoundsAssumption DEF TypeInv, TypeOK, Uuids
    <3> QED BY <2>1, <2>2, <3>1 DEF Drawing, FreshUuids
  <2>6. \A c \in binds' \cup pending' : c[2] < next'
    <3>1. CASE DrawBatchRaises
      BY <3>1, EndFrame DEF EndStep
    <3>2. CASE ~DrawBatchRaises
      <4>1. binds = {}
        BY <1>2, DrawFrame DEF Planned
      <4> QED BY <2>1, <3>2, <4>1 DEF Drawing, AllDrawn
    <3> QED BY <3>1, <3>2
  <2> QED BY <2>3, <2>4, <2>5, <2>6 DEF FreshUuids
<1>3. CASE HandDraw
  <2>1. next' = next + 1 /\ drawn' = drawn /\ file' = file
    BY <1>3 DEF HandDraw, Edit
  <2>2. \A u \in Uuids : u >= next' => board'[u] = board[u] /\ u >= next
    BY <1>1, <1>3, <2>1, BoundsAssumption DEF HandDraw, Uuids, TypeInv, TypeOK
  <2>3. \A u \in drawn : u \in Nat
    BY BoundsAssumption DEF TypeInv, TypeOK, Uuids
  <2>4. binds' = {} /\ pending' = {}
    BY <1>3, EndFrame DEF EditStep
  <2> QED BY <1>1, <2>1, <2>2, <2>3, <2>4 DEF FreshUuids
<1>4. CASE ~(DrawBatch \/ DrawBatchRetried \/ DrawBatchRaises \/ HandDraw)
  <2>1. next' = next /\ drawn' = drawn
        /\ \A u \in Uuids : board'[u] = board[u] \/ board'[u] = NoPlace
    BY <1>4, BoardFrame
  <2>2. \A c \in binds' \cup pending' : c[2] < next
    <3>1. \A c \in binds' : c[2] < next
      BY BindsFrame, DecideFrame, LiveIsOld DEF FreshUuids
    <3>2. \A c \in pending' : c[2] < next
      BY <1>4, PendingFrame DEF FreshUuids
    <3> QED BY <3>1, <3>2
  <2>3. ASSUME NEW k \in Keys PROVE file'[k] < next
    <3>1. Claimable(k) \subseteq Live
      BY DEF Claimable
    <3> QED BY <1>1, <3>1, FileFrame, LiveIsOld DEF FreshUuids, NoUuid
  <2> QED BY <2>1, <2>2, <2>3 DEF FreshUuids
<1> QED BY <1>2, <1>3, <1>4

\* A planned record's place lies in the slot its cell's list gives its number.
LEMMA PlannedSlot ==
  ASSUME TypeInv, cell \in Cells, NEW k \in Keys, cell[k] # NoSlot
  PROVE  \E l \in Layouts : l[k[2]] # NoSlot /\ l[k[2]] = cell[k]
<1> DEFINE l == [i \in Indices |-> cell[<<k[1], i>>]]
<1>1. k[1] \in Anchors /\ k[2] \in Indices /\ k = <<k[1], k[2]>>
  BY DEF Keys
<1>2. l \in Layouts
  BY <1>1 DEF Cells
<1>3. l[k[2]] = cell[k]
  BY <1>1
<1> QED BY <1>2, <1>3

LEMMA CellsStep ==
  ASSUME Base, Next
  PROVE  cell' \in Cells
<1> USE DEF Base, RunInv
<1>1. CASE EditCell
  <2>1. PICK a \in Anchors, slots \in Layouts :
          cell' = [k \in Keys |-> IF k[1] = a THEN slots[k[2]] ELSE cell[k]]
    BY <1>1 DEF EditCell
  <2>2. slots \in [Indices -> Slots \cup {NoSlot}]
    BY LayoutsAssumption
  <2>3. cell' \in [Keys -> Slots \cup {NoSlot}]
    BY TypeStep DEF TypeInv, TypeOK
  <2>4. ASSUME NEW b \in Anchors PROVE [i \in Indices |-> cell'[<<b, i>>]] \in Layouts
    <3>0. \A i \in Indices : <<b, i>> \in Keys
      BY DEF Keys
    <3>1. CASE b = a
      <4>1. [i \in Indices |-> cell'[<<b, i>>]] = slots
        BY <2>1, <2>2, <3>0, <3>1
      <4> QED BY <4>1
    <3>2. CASE b # a
      <4>1. [i \in Indices |-> cell'[<<b, i>>]] = [i \in Indices |-> cell[<<b, i>>]]
        BY <2>1, <3>0, <3>2
      <4> QED BY <4>1 DEF Slotted, Cells
    <3> QED BY <3>1, <3>2
  <2> QED BY <2>3, <2>4 DEF Cells
<1>2. CASE ~EditCell
  <2>1. cell' = cell
    BY <1>2, RunFrame DEF Next, RunStep, Start, MovesRaise, DrawBatchRaises, Crash,
       EditTarget, EditRecords, HandMove, HandDraw, HandDelete, configVars
  <2> QED BY <2>1 DEF Slotted
<1> QED BY <1>1, <1>2

\* An item that was there stays where it is, or goes.
LEMMA OldStays ==
  ASSUME Base, Next, NEW u \in Uuids, u < next, u \in Live'
  PROVE  u \in Live /\ board'[u] = board[u]
<1> USE DEF Base
<1>1. next \in Nat \ {0}
  BY BoundsAssumption DEF TypeInv, TypeOK
<1>2. CASE DrawBatch \/ DrawBatchRetried \/ DrawBatchRaises
  <2>1. PICK new \in SUBSET (Keys \X Uuids) : \E b \in SUBSET Keys : Drawing(b, new)
    BY <1>2, DrawFrame
  <2>2. ~\E p \in new : u = p[2]
    BY <1>1, <2>1, BoundsAssumption DEF Drawing, Uuids
  <2> QED BY <2>1, <2>2 DEF Drawing, Live
<1>3. CASE HandDraw
  <2>1. u # next
    BY <1>1, BoundsAssumption DEF Uuids
  <2> QED BY <1>3, <2>1 DEF HandDraw, Live, TypeInv, TypeOK
<1>4. CASE ~(DrawBatch \/ DrawBatchRetried \/ DrawBatchRaises \/ HandDraw)
  BY <1>4, BoardFrame DEF Live
<1> QED BY <1>2, <1>3, <1>4

LEMMA SlottedStep ==
  ASSUME Base, Next
  PROVE  Slotted'
<1> USE DEF Base, RunInv
<1>1. next \in Nat \ {0} /\ \A k \in Keys : file[k] \in Nat
  BY BoundsAssumption DEF TypeInv, TypeOK, Uuids, NoUuid
<1>2. \A c \in binds \cup pending : c[2] \in Nat /\ c[2] < next /\ c[1] \in Keys
  BY BoundsAssumption DEF FreshUuids, TypeInv, TypeOK, Uuids
<1>3. ASSUME NEW u \in Uuids, u < next
      PROVE  u \in Live' => u \in Live /\ board'[u] = board[u]
  BY <1>3, OldStays
<1>4. ASSUME NEW k, NEW u, InSlot(k, u), u \in Nat, u < next PROVE InSlot(k, u)'
  BY <1>3, <1>4 DEF InSlot, Live
<1>5. ASSUME NEW k \in Keys, cell[k] # NoSlot, NEW u \in Live, board[u][2] = cell[k]
      PROVE  InSlot(k, u)
  BY <1>5, PlannedSlot DEF InSlot, Slotted
<1>6. ASSUME NEW k \in Keys, NEW u, u = file'[k] PROVE InSlot(k, u)'
  <2>1. CASE u = file[k]
    BY <1>1, <1>4, <2>1 DEF Slotted, FreshUuids
  <2>2. CASE u = NoUuid
    BY <2>2, BoundsAssumption DEF InSlot, Live, Uuids, NoUuid
  <2>3. CASE \E c \in binds \cup pending : c[1] = k /\ u = c[2]
    BY <1>2, <1>4, <2>3 DEF Slotted
  <2>4. CASE k \in RunKeys /\ u \in Claimable(k)
    <3>1. u \in Live /\ board[u] = PlaceOf(k, target) /\ cell[k] # NoSlot
      BY <2>4 DEF Claimable, RunKeys
    <3>2. InSlot(k, u)
      BY <1>5, <3>1 DEF PlaceOf
    <3>3. u \in Nat /\ u < next
      BY <3>1, LiveIsOld, BoundsAssumption DEF Uuids
    <3> QED BY <1>4, <3>2, <3>3
  <2> QED BY <1>6, <2>1, <2>2, <2>3, <2>4, FileFrame
<1>7. ASSUME NEW c \in binds' PROVE InSlot(c[1], c[2])'
  <2>1. CASE c \in binds
    BY <1>2, <1>4, <2>1 DEF Slotted
  <2>2. CASE DecideAdoption
    <3>1. /\ c[1] \in Keys /\ cell[c[1]] # NoSlot /\ c[2] \in Live
          /\ board[c[2]] = PlaceOf(c[1], pose)
      BY <2>2, DecideFrame DEF StandsAt, RunKeys
    <3>2. InSlot(c[1], c[2])
      BY <1>5, <3>1 DEF PlaceOf
    <3>3. c[2] \in Nat /\ c[2] < next
      BY <3>1, LiveIsOld, BoundsAssumption DEF Uuids
    <3> QED BY <1>4, <3>2, <3>3
  <2> QED BY <2>1, <2>2, BindsFrame
<1>8. ASSUME NEW c \in pending' PROVE InSlot(c[1], c[2])'
  <2>1. CASE c \in pending
    BY <1>2, <1>4, <2>1 DEF Slotted
  <2>2. CASE DrawBatch \/ DrawBatchRetried
    <3>1. CASE DrawBatchRaises
      BY <1>8, <3>1, EndFrame DEF EndStep
    <3>2. CASE ~DrawBatchRaises
      <4>1. PICK b \in SUBSET Keys, new \in SUBSET (Keys \X Uuids) :
              Drawing(b, new) /\ AllDrawn(b, new)
        BY <2>2, <3>2, DrawFrame
      <4>2. c \in new /\ c[2] \in Uuids /\ c[2] >= next /\ c[1] \in b
        BY <1>1, <4>1, BoundsAssumption DEF Drawing, AllDrawn, Uuids
      <4>3. board[c[2]] = NoPlace
        BY <4>2 DEF FreshUuids
      <4>4. board'[c[2]] = board[c[2]] \/ board'[c[2]] = PlaceOf(c[1], target)
        BY <4>1, <4>2 DEF Drawing
      <4>5. c[1] \in RunKeys /\ c[1] \in Keys /\ cell[c[1]] # NoSlot
        BY <4>1, <4>2 DEF Drawing, TypeInv, TypeOK, TodoPlanned, RunKeys
      <4>6. PICK l \in Layouts : l[c[1][2]] # NoSlot /\ l[c[1][2]] = cell[c[1]]
        BY <4>5, PlannedSlot DEF Slotted
      <4> QED BY <4>3, <4>4, <4>6 DEF InSlot, Live, PlaceOf
    <3> QED BY <3>1, <3>2
  <2> QED BY <2>1, <2>2, PendingFrame
<1> QED BY <1>6, <1>7, <1>8, CellsStep DEF Slotted, InSlot, Live

LEMMA BaseStep == Base /\ [Next]_vars => Base'
<1>1. CASE Base /\ Next
  BY <1>1, TypeStep, RunningStep, FreshStep, SlottedStep DEF Base, RunInv
<1>2. CASE Base /\ UNCHANGED vars
  BY <1>2, TypeStep
     DEF Base, RunInv, vars, Running, Planned, FreshUuids, Slotted, InSlot, Live, AtRest, RunKeys
<1> QED BY <1>1, <1>2

LEMMA BaseAlways == Spec => []Base
<1>1. Init => Base
  BY InitTypeInv, InitRunInv DEF Base
<1> QED BY <1>1, BaseStep, PTL DEF Spec

-----------------------------------------------------------------------------
(* No stale key: what a completed run leaves in the registry.              *)

\* No cell is emptied: every list a user writes has a record.
Listed == \A l \in Layouts : \E i \in Indices : l[i] # NoSlot

StaleInv ==
  pc \in {"delete", "draw", "record", "done"} =>
     \A k \in Keys : file[k] # NoUuid /\ k[1] \in only => cell[k] # NoSlot

\* With a record in every list, every anchor of the run has a planned key.
LEMMA AllSeen ==
  ASSUME TypeInv, cell \in Cells, Listed, NEW a \in only
  PROVE  a \in SeenAnchors
<1>1. a \in Anchors
  BY DEF TypeInv, TypeOK
<1>2. PICK i \in Indices : [j \in Indices |-> cell[<<a, j>>]][i] # NoSlot
  BY <1>1 DEF Cells, Listed
<1>3. <<a, i>> \in RunKeys /\ <<a, i>>[1] = a
  BY <1>1, <1>2 DEF RunKeys, Keys
<1> QED BY <1>3 DEF SeenAnchors

LEMMA StaleStep ==
  ASSUME Listed
  PROVE  Base /\ StaleInv /\ [Next]_vars => StaleInv'
<1> SUFFICES ASSUME Base, StaleInv, [Next]_vars PROVE StaleInv'
  OBVIOUS
<1>1. CASE EndStep \/ EditStep
  BY <1>1, EndFrame DEF StaleInv
<1>2. ASSUME NEW sel \in SUBSET known, NEW rig \in SUBSET sel, Start(sel, rig)
      PROVE  StaleInv'
  BY <1>2 DEF Start, StaleInv
<1>3. CASE DecideAdoption \/ AdoptLive \/ ForgetKey \/ MoveComponents \/ ClaimUnowned
  BY <1>3 DEF DecideAdoption, AdoptLive, ForgetKey, MoveComponents, ClaimUnowned, StaleInv
<1>4. CASE Reconcile
  <2>1. cell' = cell /\ only' = only /\ file' = AfterPrune
    BY <1>4, RunFrame DEF RunStep, Reconcile, Save
  <2>2. ASSUME NEW k \in Keys, AfterPrune[k] # NoUuid, k[1] \in only, cell[k] = NoSlot
        PROVE  FALSE
    <3>1. k \in Keys \ RunKeys /\ k \notin Stale /\ entries[k] # NoUuid
      BY <2>2 DEF AfterPrune, AfterPlanned, RunKeys, ToDraw
    <3>2. k[1] \in SeenAnchors
      BY <2>2, AllSeen DEF Base, RunInv, Slotted
    <3> QED BY <3>1, <3>2 DEF Stale
  <2> QED BY <2>1, <2>2 DEF StaleInv
<1>5. CASE Delete \/ DeleteRefused \/ DrawBatch \/ DrawBatchRetried \/ Finish
  <2>1. cell' = cell /\ only' = only
    BY <1>5, RunFrame DEF RunStep
  <2>2. file' = file /\ pc \in {"delete", "draw"}
    BY <1>5 DEF Delete, DeleteRefused, RemoveByIds, DrawBatch, DrawBatchRetried, Finish
  <2> QED BY <2>1, <2>2 DEF StaleInv
<1>6. CASE RecordCreated
  <2>1. cell' = cell /\ only' = only /\ RunKeys' = RunKeys
    BY <1>6, RunFrame DEF RunStep
  <2>2. PICK p \in pending :
          /\ file' = entries' /\ pc = "record"
          /\ \A k \in Keys : entries'[k] = IF k = p[1] THEN p[2] ELSE entries[k]
    BY <1>6, RecordFrame DEF Base
  <2>3. entries = file /\ cell[p[1]] # NoSlot
    BY <2>2 DEF Base, RunInv, Running, Planned, AtRest, RunKeys
  <2> QED BY <2>1, <2>2, <2>3 DEF StaleInv
<1>7. CASE UNCHANGED vars
  BY <1>7 DEF vars, StaleInv
<1> QED BY <1>1, <1>2, <1>3, <1>4, <1>5, <1>6, <1>7, NextSplit DEF RunStep

\* After a completed run the registry holds no key, under the clusters it
\* processed, that the config no longer has -- as long as no cell is emptied,
\* and whatever is refused, lost or killed on the way.
THEOREM StaleGoneHolds ==
  ASSUME Listed
  PROVE  Spec => []StaleGone
<1>1. Init => StaleInv
  BY DEF Init, StaleInv
<1>2. StaleInv => StaleGone
  BY DEF StaleInv, StaleGone
<1> QED BY <1>1, <1>2, StaleStep, BaseAlways, PTL DEF Spec

-----------------------------------------------------------------------------
(* One item, one key: why CopperRegistry never gives an item two owners    *)
(* and never deletes the copper of a cluster outside the run.              *)

\* There is one cluster.
OneCluster == \A a, b \in Anchors : a = b

\* A record's number stands for one slot, whatever the user writes: the lists
\* only grow and shrink at their end.
FixedSlots ==
  \A l, m \in Layouts, i \in Indices : l[i] # NoSlot /\ m[i] # NoSlot => l[i] = m[i]

\* Where an item has one key between runs: in any number of clusters when no
\* anchor is hidden from the adoption pass by --only (every anchor is an
\* entity's) and nothing fails; in one cluster whatever KiCad refuses; and in
\* one cluster whose lists keep their numbers whatever dies, too.
Orderly ==
  \/ Entities = Anchors /\ MaxRefused = 0 /\ MaxCrashes = 0
  \/ OneCluster /\ (MaxCrashes = 0 \/ FixedSlots)

\* What the registry will say of key k when the adoption pass is through.
Destined(k) ==
  IF \E c \in binds : c[1] = k THEN (CHOOSE c \in binds : c[1] = k)[2]
  ELSE IF k \in drops THEN NoUuid ELSE entries[k]

\* Until the orphans are pruned, an item may have two keys: one of a record
\* of the run and one of an anchor the config no longer has.
OwnersApart ==
  \A j, k \in Keys :
     Destined(j) = Destined(k) /\ Destined(j) # NoUuid /\ j # k
     => \/ j \in RunKeys /\ k[1] \notin known
        \/ k \in RunKeys /\ j[1] \notin known

BindsApart ==
  /\ \A c, d \in binds : c[1] = d[1] \/ c[2] = d[2] => c = d
  /\ \A c \in binds : c[1] \in RunKeys \ drops
  /\ drops \subseteq RunKeys

PendingApart ==
  /\ \A p, q \in pending : p[2] = q[2] => p = q
  /\ \A p \in pending : p[2] \notin Held(entries)

OneKeyEach == \A j, k \in Keys : file[j] = file[k] /\ file[j] # NoUuid => j = k

\* Where numbers keep their slots, the adoption pass only ever binds items
\* nobody holds: the run may die between any two of its saves.
Sure ==
  OneCluster /\ FixedSlots =>
     drops = {} /\ OneKeyEach /\ \A c \in binds : c[2] \notin Held(entries)

OwnerInv ==
  /\ BindsApart /\ PendingApart
  /\ IF pc \in {"bind", "claim", "reconcile"} THEN OwnersApart ELSE OneKeyEach
  /\ doomed \cap Held(entries) = {}
  /\ Sure

IInv == Base /\ OwnerInv

-----------------------------------------------------------------------------

LEMMA InitOwnerInv == Init => OwnerInv
<1> SUFFICES ASSUME Init PROVE OwnerInv
  OBVIOUS
<1>1. OneKeyEach
  BY DEF Init, OneKeyEach, EmptyRegistry
<1> QED BY <1>1 DEF Init, OwnerInv, BindsApart, PendingApart, Sure

\* With nothing left to adopt, one cluster's items have one key each.
LEMMA AloneOwns ==
  ASSUME TypeInv, Running, OneCluster, OwnersApart, binds = {}, drops = {}, ~AtRest
  PROVE  OneKeyEach
<1>1. entries = file /\ only \subseteq known
  BY DEF Running
<1>2. \A k \in Keys : Destined(k) = file[k]
  BY <1>1 DEF Destined
<1>3. \A j, k \in Keys : j[1] = k[1]
  BY DEF OneCluster, Keys
<1>4. \A k \in RunKeys : k \in Keys /\ k[1] \in known
  BY <1>1 DEF RunKeys
<1> QED BY <1>2, <1>3, <1>4 DEF OwnersApart, OneKeyEach

\* A number that keeps its slot is never shifted.
LEMMA NothingShifts ==
  ASSUME TypeInv, FixedSlots, Slotted, entries = file, NEW a
  PROVE  Shifted(entries, a) = {}
<1> SUFFICES ASSUME NEW k \in Shifted(entries, a) PROVE FALSE
  OBVIOUS
<1>1. /\ k \in Keys /\ cell[k] # NoSlot /\ k[1] = a /\ entries[k] \in Live
      /\ ~StandsAt(entries[k], k, pose)
  BY DEF Shifted, RunKeys
<1>2. PICK o \in Keys : o[1] = a /\ StandsAt(entries[k], o, pose)
  BY DEF Shifted
<1>3. board[entries[k]] = <<pose[a], cell[o]>>
  BY <1>2 DEF StandsAt, PlaceOf
<1>4. PICK l \in Layouts : l[k[2]] # NoSlot /\ board[entries[k]][2] = l[k[2]]
  BY <1>1 DEF Slotted, InSlot
<1>5. PICK m \in Layouts : m[k[2]] # NoSlot /\ m[k[2]] = cell[k]
  BY <1>1, PlannedSlot DEF Slotted
<1>6. l[k[2]] = m[k[2]]
  BY <1>1, <1>4, <1>5 DEF FixedSlots, Keys
<1>7. cell[o] = cell[k]
  BY <1>3, <1>4, <1>5, <1>6
<1> QED BY <1>1, <1>3, <1>7 DEF StandsAt, PlaceOf

\* What the adoption pass decides keeps every item at one key of the config:
\* a binding takes an item nobody holds, an orphan's, or one its holder gives up.
LEMMA DecisionKeepsOwnersApart ==
  ASSUME TypeInv, OneKeyEach, entries = file, only \subseteq known, Orderly
  PROVE  LET B == Bindings(entries, rigid)
             D == Forgotten(entries, rigid)
             After(k) == IF \E c \in B : c[1] = k THEN (CHOOSE c \in B : c[1] = k)[2]
                         ELSE IF k \in D THEN NoUuid ELSE entries[k]
         IN  /\ \A c, d \in B : c[1] = d[1] \/ c[2] = d[2] => c = d
             /\ \A c \in B : c[1] \in RunKeys \ D
             /\ D \subseteq RunKeys
             /\ \A j, k \in Keys :
                   After(j) = After(k) /\ After(j) # NoUuid /\ j # k
                   => \/ j \in RunKeys /\ k[1] \notin known
                      \/ k \in RunKeys /\ j[1] \notin known
<1> DEFINE B == Bindings(entries, rigid)
           D == Forgotten(entries, rigid)
           After(k) == IF \E c \in B : c[1] = k THEN (CHOOSE c \in B : c[1] = k)[2]
                       ELSE IF k \in D THEN NoUuid ELSE entries[k]
<1>1. \A c \in B : /\ c \in Keys \X Uuids /\ c[1] \in RunKeys /\ c[1][1] \in rigid
                   /\ AdoptCandidates(entries, c[1]) = {c[2]}
  BY DEF Bindings, Claims, MayAdopt
<1>0. \A c \in B, j \in Keys : j[1] \in known => j[1] \in NarrowedAnchors
  <2>1. CASE Entities = Anchors
    BY <2>1 DEF NarrowedAnchors, TypeInv, TypeOK
  <2>2. CASE OneCluster
    <3> SUFFICES ASSUME NEW c \in B, NEW j \in Keys, j[1] \in known PROVE j[1] \in only
      BY DEF NarrowedAnchors
    <3>1. c[1][1] \in only /\ c[1][1] \in Anchors /\ j[1] \in Anchors
      BY <1>1 DEF RunKeys, Keys
    <3> QED BY <2>2, <3>1 DEF OneCluster
  <2> QED BY <2>1, <2>2 DEF Orderly
<1>2. \A c, d \in B : c[2] = d[2] => c = d
  BY DEF Bindings
<1>3. \A c, d \in B : c[1] = d[1] => c = d
  BY <1>1, <1>2
<1>4. \A c \in B : c[1] \notin D
  BY DEF Forgotten
<1>6. D \subseteq RunKeys
  BY DEF Forgotten, Shifted
<1>7. \A c \in B, j \in Keys :
         entries[j] = c[2] /\ j[1] \in known
         => j \in D \/ \E d \in B : d[1] = j
  <2> SUFFICES ASSUME NEW c \in B, NEW j \in Keys, entries[j] = c[2], j[1] \in known
               PROVE  j \in D \/ \E d \in B : d[1] = j
    OBVIOUS
  <2>1. c[2] \in Uuids /\ c[2] # NoUuid
    BY <1>1 DEF Uuids, NoUuid, TypeInv, TypeOK
  <2>2. c[2] \in Held(entries) \ OrphanUuids(entries)
    BY <1>0, <2>1 DEF Held, OrphanUuids
  <2>3. c[2] \notin (Held(entries) \ OrphanUuids(entries)) \ Released(entries, c[1][1])
    BY <1>1 DEF AdoptCandidates
  <2>4. c[2] \in Released(entries, c[1][1])
    BY <2>2, <2>3
  <2>5. PICK s \in Shifted(entries, c[1][1]) : entries[s] = c[2]
    BY <2>4 DEF Released
  <2>6. s \in Keys
    BY <2>5 DEF Shifted, RunKeys
  <2>7. s = j
    BY <2>1, <2>5, <2>6 DEF OneKeyEach
  <2>8. c[1][1] \in rigid /\ c[1][1] \in only
    BY <1>1 DEF RunKeys
  <2> QED BY <2>5, <2>7, <2>8 DEF Forgotten
<1>8. \A c \in B : After(c[1]) = c[2]
  BY <1>3
<1>9. \A j, k \in Keys :
         After(j) = After(k) /\ After(j) # NoUuid /\ j # k
         => \/ j \in RunKeys /\ k[1] \notin known
            \/ k \in RunKeys /\ j[1] \notin known
  <2> SUFFICES ASSUME NEW j \in Keys, NEW k \in Keys,
                      After(j) = After(k), After(j) # NoUuid, j # k
               PROVE  \/ j \in RunKeys /\ k[1] \notin known
                      \/ k \in RunKeys /\ j[1] \notin known
    OBVIOUS
  <2>1. CASE \E c \in B : c[1] = j
    <3>1. PICK c \in B : c[1] = j
      BY <2>1
    <3>2. After(j) = c[2] /\ j \in RunKeys
      BY <1>1, <1>8, <3>1
    <3>3. ~\E d \in B : d[1] = k
      BY <1>2, <1>8, <3>1, <3>2
    <3>4. k \notin D /\ entries[k] = c[2]
      BY <3>2, <3>3
    <3>5. k[1] \notin known
      BY <1>7, <3>3, <3>4
    <3> QED BY <3>2, <3>5
  <2>2. CASE \E c \in B : c[1] = k
    <3>1. PICK c \in B : c[1] = k
      BY <2>2
    <3>2. After(k) = c[2] /\ k \in RunKeys
      BY <1>1, <1>8, <3>1
    <3>3. ~\E d \in B : d[1] = j
      BY <1>2, <1>8, <3>1, <3>2
    <3>4. j \notin D /\ entries[j] = c[2]
      BY <3>2, <3>3
    <3>5. j[1] \notin known
      BY <1>7, <3>3, <3>4
    <3> QED BY <3>2, <3>5
  <2>3. CASE /\ ~\E c \in B : c[1] = j
             /\ ~\E c \in B : c[1] = k
    <3>1. entries[j] = entries[k] /\ entries[j] # NoUuid
      BY <2>3
    <3> QED BY <3>1 DEF OneKeyEach
  <2> QED BY <2>1, <2>2, <2>3
<1> QED BY <1>1, <1>2, <1>3, <1>4, <1>6, <1>9

-----------------------------------------------------------------------------
(* One lemma per group of actions.                                         *)

\* What OwnerInv comes to outside the steps that adopt and claim.
LEMMA OwnerElsewhere ==
  ASSUME pc' \notin {"bind", "claim", "reconcile"}, OneKeyEach', PendingApart',
         binds' = {}, drops' = {}, doomed' \cap Held(entries') = {}
  PROVE  OwnerInv'
BY DEF OwnerInv, BindsApart, Sure, Held

LEMMA StartOwner ==
  ASSUME IInv, NEW sel \in SUBSET known, NEW rig \in SUBSET sel, Start(sel, rig)
  PROVE  OwnerInv'
<1>1. /\ pc' = "adopt" /\ OneKeyEach /\ file' = file
      /\ binds' = {} /\ drops' = {} /\ pending' = {} /\ doomed' = {}
  BY DEF IInv, Base, RunInv, Start, AtRest, OwnerInv, Planned, planVars
<1>2. OneKeyEach' /\ PendingApart'
  BY <1>1 DEF OneKeyEach, PendingApart
<1> QED BY <1>1, <1>2, OwnerElsewhere

\* In one cluster an orphan's item has an owner in the run, or there is no run.
LEMMA NoOrphans ==
  ASSUME TypeInv, OneCluster, only \subseteq known, only # {}
  PROVE  \A reg : OrphanUuids(reg) = {}
<1>1. \A x \in Keys : x[1] \in NarrowedAnchors
  BY DEF OneCluster, NarrowedAnchors, Keys, TypeInv, TypeOK
<1> QED BY <1>1 DEF OrphanUuids

LEMMA DecideOwner ==
  ASSUME IInv, Orderly, DecideAdoption
  PROVE  OwnerInv'
<1>1. /\ pc = "adopt" /\ pc' = "bind" /\ OneKeyEach /\ entries = file /\ only \subseteq known
      /\ TypeInv /\ Slotted /\ pending = {} /\ doomed = {} /\ file' = file /\ entries' = entries
      /\ pending' = {} /\ doomed' = {}
  BY DEF IInv, Base, RunInv, DecideAdoption, AtRest, OwnerInv, Running, Planned
<1>2. /\ \A c, d \in binds' : c[1] = d[1] \/ c[2] = d[2] => c = d
      /\ \A c \in binds' : c[1] \in RunKeys \ drops'
      /\ drops' \subseteq RunKeys
      /\ \A j, k \in Keys :
            Destined(j)' = Destined(k)' /\ Destined(j)' # NoUuid /\ j # k
            => \/ j \in RunKeys /\ k[1] \notin known
               \/ k \in RunKeys /\ j[1] \notin known
  BY <1>1, DecisionKeepsOwnersApart DEF DecideAdoption, Destined
<1>3. RunKeys' = RunKeys /\ known' = known
  BY RunFrame DEF RunStep
<1>4. BindsApart' /\ OwnersApart'
  BY <1>2, <1>3 DEF BindsApart, OwnersApart
<1>5. Sure'
  <2> SUFFICES ASSUME OneCluster, FixedSlots
               PROVE  drops' = {} /\ \A c \in binds' : c[2] \notin Held(entries)
    BY <1>1 DEF Sure, OneKeyEach, Held
  <2>1. drops' = {}
    BY <1>1, NothingShifts DEF DecideAdoption, Forgotten
  <2>2. ASSUME NEW c \in binds', c[2] \in Held(entries) PROVE FALSE
    <3>1. /\ c[1] \in RunKeys /\ AdoptCandidates(entries, c[1]) = {c[2]}
      BY DecideFrame
    <3>2. only # {}
      BY <3>1 DEF RunKeys
    <3>3. OrphanUuids(entries) = {}
      BY <1>1, <3>2, NoOrphans
    <3>4. Released(entries, c[1][1]) = {}
      BY <1>1, NothingShifts DEF Released
    <3> QED BY <2>2, <3>1, <3>3, <3>4 DEF AdoptCandidates
  <2> QED BY <2>1, <2>2
<1> QED BY <1>1, <1>4, <1>5 DEF OwnerInv, PendingApart

\* A binding is written: it was already decided, so nothing changes hands.
LEMMA AdoptOwner ==
  ASSUME IInv, AdoptLive
  PROVE  OwnerInv'
<1>1. PICK c \in binds : Save([entries EXCEPT ![c[1]] = c[2]]) /\ binds' = binds \ {c}
  BY DEF AdoptLive
<1>2. /\ pc = "bind" /\ pc' = "bind" /\ OwnersApart /\ entries = file
      /\ TypeInv /\ BindsApart /\ Sure /\ drops' = drops
      /\ pending' = {} /\ doomed' = {}
  BY DEF IInv, Base, RunInv, AdoptLive, AtRest, OwnerInv, Running, Planned
<1>3. /\ c[1] \in Keys /\ c[2] \in Uuids /\ c[1] \notin drops
      /\ \A k \in Keys : entries'[k] = IF k = c[1] THEN c[2] ELSE entries[k]
      /\ file' = entries'
  BY <1>1, <1>2 DEF TypeInv, TypeOK, BindsApart, Save
<1>4. \A k \in Keys : Destined(k)' = Destined(k)
  <2> SUFFICES ASSUME NEW k \in Keys PROVE Destined(k)' = Destined(k)
    OBVIOUS
  <2>1. CASE k = c[1]
    <3>1. Destined(k) = c[2]
      BY <1>2, <2>1 DEF Destined, BindsApart
    <3>2. ~\E d \in binds' : d[1] = k
      BY <1>1, <1>2, <2>1 DEF BindsApart
    <3> QED BY <1>2, <1>3, <2>1, <3>1, <3>2 DEF Destined
  <2>2. CASE k # c[1]
    <3>1. entries'[k] = entries[k]
      BY <1>3, <2>2
    <3>2. \A d : d[1] = k => (d \in binds' <=> d \in binds)
      BY <1>1, <2>2
    <3> QED BY <1>2, <3>1, <3>2 DEF Destined
  <2> QED BY <2>1, <2>2
<1>5. RunKeys' = RunKeys /\ known' = known
  BY RunFrame DEF RunStep
<1>6. OwnersApart' /\ BindsApart'
  BY <1>1, <1>2, <1>4, <1>5 DEF OwnersApart, BindsApart
<1>7. Sure'
  <2> SUFFICES ASSUME OneCluster, FixedSlots
               PROVE  drops' = {} /\ OneKeyEach' /\ \A d \in binds' : d[2] \notin Held(entries')
    BY DEF Sure, Held
  <2>1. drops = {} /\ OneKeyEach /\ \A d \in binds : d[2] \notin Held(entries)
    BY <1>2 DEF Sure
  <2>2. \A k \in Keys : entries[k] # c[2]
    BY <1>3, <2>1, BoundsAssumption DEF Held, Uuids, NoUuid
  <2>3. OneKeyEach'
    BY <1>2, <1>3, <2>1, <2>2 DEF OneKeyEach
  <2>4. \A d \in binds' : d[2] \notin Held(entries')
    <3> SUFFICES ASSUME NEW d \in binds', NEW k \in Keys, entries'[k] # NoUuid,
                        d[2] = entries'[k]
                 PROVE  FALSE
      BY DEF Held
    <3>1. d \in binds /\ d # c /\ d[2] # c[2]
      BY <1>1, <1>2 DEF BindsApart
    <3> QED BY <1>3, <2>1, <3>1 DEF Held
  <2> QED BY <1>2, <2>1, <2>3, <2>4
<1> QED BY <1>2, <1>6, <1>7 DEF OwnerInv, PendingApart

LEMMA ForgetOwner ==
  ASSUME IInv, ForgetKey
  PROVE  OwnerInv'
<1>1. PICK k \in drops : Save([entries EXCEPT ![k] = NoUuid]) /\ drops' = drops \ {k}
  BY DEF ForgetKey
<1>2. /\ pc = "bind" /\ pc' = "bind" /\ OwnersApart
      /\ TypeInv /\ BindsApart /\ Sure /\ binds = {} /\ binds' = {}
      /\ pending' = {} /\ doomed' = {}
  BY DEF IInv, Base, RunInv, ForgetKey, AtRest, OwnerInv, Planned
<1>3. k \in Keys
  BY <1>2 DEF TypeInv, TypeOK
<1>4. \A j \in Keys : Destined(j)' = Destined(j)
  BY <1>1, <1>2, <1>3 DEF Destined, Save, TypeInv, TypeOK
<1>5. RunKeys' = RunKeys /\ known' = known
  BY RunFrame DEF RunStep
<1>6. OwnersApart' /\ BindsApart'
  BY <1>1, <1>2, <1>4, <1>5 DEF OwnersApart, BindsApart
<1>7. Sure'
  BY <1>1, <1>2 DEF Sure
<1> QED BY <1>2, <1>6, <1>7 DEF OwnerInv, PendingApart

LEMMA MoveOwner ==
  ASSUME IInv, MoveComponents
  PROVE  OwnerInv'
<1>1. /\ pc = "bind" /\ pc' = "claim" /\ OwnersApart /\ TypeInv /\ Running /\ ~AtRest
      /\ binds = {} /\ drops = {} /\ binds' = {} /\ drops' = {} /\ pending' = {} /\ doomed' = {}
  BY DEF IInv, Base, RunInv, MoveComponents, AtRest, OwnerInv, Planned, planVars
<1>2. \A k \in Keys : Destined(k)' = Destined(k)
  BY DEF MoveComponents, Destined, planVars
<1>3. RunKeys' = RunKeys /\ known' = known /\ file' = file
  BY RunFrame DEF RunStep, MoveComponents
<1>4. OwnersApart'
  BY <1>1, <1>2, <1>3 DEF OwnersApart
<1>5. Sure'
  BY <1>1, <1>3, AloneOwns DEF Sure, OneKeyEach
<1> QED BY <1>1, <1>4, <1>5 DEF OwnerInv, BindsApart, PendingApart

\* A claimed item had no key, and no two records claim one item.
LEMMA ClaimOwner ==
  ASSUME IInv, ClaimUnowned
  PROVE  OwnerInv'
<1>1. /\ pc = "claim" /\ OwnersApart /\ entries = file /\ TypeInv /\ Running /\ ~AtRest
      /\ binds = {} /\ drops = {} /\ pending = {} /\ doomed = {}
  BY DEF IInv, Base, RunInv, ClaimUnowned, AtRest, OwnerInv, Running, Planned
<1>2. /\ pc' = "reconcile" /\ file' = entries'
      /\ binds' = {} /\ drops' = {} /\ pending' = {} /\ doomed' = {}
      /\ \A j, k \in Keys :
            entries'[j] = entries'[k] /\ entries'[j] # NoUuid /\ entries'[j] # entries[j]
            => j = k
  BY <1>1, ClaimFrame
<1>3. RunKeys' = RunKeys /\ known' = known
  BY RunFrame DEF RunStep
<1>4. \A k \in Keys : Destined(k) = entries[k] /\ Destined(k)' = entries'[k]
  BY <1>1, <1>2 DEF Destined
<1>5. OwnersApart'
  BY <1>2, <1>3, <1>4, <1>1 DEF OwnersApart
<1>6. Sure'
  <2> SUFFICES ASSUME OneCluster PROVE OneKeyEach'
    BY <1>2 DEF Sure
  <2>1. OneKeyEach
    BY <1>1, AloneOwns
  <2> QED BY <1>1, <1>2, <2>1 DEF OneKeyEach
<1> QED BY <1>2, <1>5, <1>6 DEF OwnerInv, BindsApart, PendingApart

\* Reconciling prunes every orphan, so what is left has one key each, and no
\* item it names for deletion is still held by a key.
LEMMA ReconcileOwner ==
  ASSUME IInv, Reconcile
  PROVE  OwnerInv'
<1>1. /\ pc = "reconcile" /\ pc' = "delete" /\ OwnersApart /\ entries = file
      /\ only \subseteq known
      /\ binds = {} /\ drops = {} /\ binds' = {} /\ drops' = {} /\ pending' = {}
      /\ entries' = AfterPrune /\ file' = AfterPrune /\ doomed' = ToDelete
  BY DEF IInv, Base, RunInv, Reconcile, Save, AtRest, OwnerInv, Running, Planned
<1>3. \A k \in Keys : Destined(k) = entries[k]
  BY <1>1 DEF Destined
<1>4. \A k \in Keys : AfterPrune[k] # NoUuid =>
         AfterPrune[k] = entries[k] /\ k \notin Stale /\ k \notin ToDraw
  BY DEF AfterPrune, AfterPlanned
<1>5. \A k \in RunKeys : k \in Keys /\ k[1] \in known
  BY <1>1 DEF RunKeys
<1>6. \A k \in Keys : AfterPrune[k] # NoUuid => k[1] \in known
  <2> SUFFICES ASSUME NEW k \in Keys, AfterPrune[k] # NoUuid, k[1] \notin known PROVE FALSE
    OBVIOUS
  <2>1. entries[k] # NoUuid /\ k \notin Stale /\ k \notin RunKeys
    BY <1>4, <1>5
  <2> QED BY <2>1 DEF Stale
<1>7. OneKeyEach'
  <2> SUFFICES ASSUME NEW j \in Keys, NEW k \in Keys,
                      AfterPrune[j] = AfterPrune[k], AfterPrune[j] # NoUuid, j # k
               PROVE  FALSE
    BY <1>1 DEF OneKeyEach
  <2>1. entries[j] = entries[k] /\ entries[j] # NoUuid
    BY <1>4
  <2> QED BY <1>1, <1>3, <1>6, <2>1 DEF OwnersApart
<1>8. ToDelete \cap Held(AfterPrune) = {}
  <2> SUFFICES ASSUME NEW k \in Keys, AfterPrune[k] # NoUuid, AfterPrune[k] \in ToDelete
               PROVE  FALSE
    BY DEF Held
  <2>1. /\ AfterPrune[k] = entries[k] /\ k \notin Stale /\ k \notin ToDraw /\ k[1] \in known
        /\ entries[k] # NoUuid
    BY <1>4, <1>6
  <2>2. ASSUME NEW j \in Moved, entries[j] = entries[k]
        PROVE  FALSE
    <3>1. j \in RunKeys /\ j \in ToDraw /\ j # k
      BY <2>1 DEF Moved, ToDraw
    <3> QED BY <1>1, <1>3, <1>5, <2>1, <2>2, <3>1 DEF OwnersApart
  <2>3. ASSUME NEW j \in Stale, entries[j] = entries[k],
               entries[j] \notin {AfterPlanned[x] : x \in RunKeys}
        PROVE  FALSE
    <3>1. j \in Keys \ RunKeys /\ j # k
      BY <2>1 DEF Stale
    <3>2. CASE k \in RunKeys
      BY <1>5, <2>1, <2>3, <3>2 DEF AfterPlanned
    <3>3. CASE k \notin RunKeys
      BY <1>1, <1>3, <2>1, <2>3, <3>1, <3>3 DEF OwnersApart
    <3> QED BY <3>2, <3>3
  <2> QED BY <2>1, <2>2, <2>3 DEF ToDelete
<1>9. PendingApart'
  BY <1>1 DEF PendingApart
<1>10. doomed' \cap Held(entries') = {}
  BY <1>1, <1>8
<1> QED BY <1>1, <1>7, <1>9, <1>10, OwnerElsewhere

LEMMA DeleteOwner ==
  ASSUME IInv, Delete \/ DeleteRefused
  PROVE  OwnerInv'
<1>1. /\ OneKeyEach /\ pc' = "draw" /\ file' = file /\ doomed' = {}
      /\ binds' = {} /\ drops' = {} /\ pending' = {}
  BY DEF IInv, Base, RunInv, Delete, DeleteRefused, RemoveByIds, OwnerInv, Planned
<1>2. OneKeyEach' /\ PendingApart'
  BY <1>1 DEF OneKeyEach, PendingApart
<1> QED BY <1>1, <1>2, OwnerElsewhere

\* What is drawn for a batch has uuids nobody holds, one each, in one attempt
\* or in two.
LEMMA DrawOwner ==
  ASSUME IInv, DrawBatch \/ DrawBatchRetried
  PROVE  OwnerInv'
<1> USE DEF IInv, Base, RunInv
<1>1. /\ OneKeyEach /\ entries = file /\ binds = {} /\ drops = {} /\ doomed = {}
      /\ \A k \in Keys : file[k] < next /\ file[k] \in Nat
      /\ next \in Nat
  BY BoundsAssumption DEF DrawBatch, DrawBatchRetried, AtRest, OwnerInv, Running, Planned,
     FreshUuids, TypeInv, TypeOK, Uuids, NoUuid
<1>2. CASE DrawBatchRaises
  <2>1. /\ OneKeyEach' /\ PendingApart'
    BY <1>1, <1>2, EndFrame DEF EndStep, DrawBatchRaises, OneKeyEach, PendingApart
  <2> QED BY <1>2, <2>1, EndFrame, OwnerElsewhere DEF EndStep
<1>3. CASE ~DrawBatchRaises
  <2>1. PICK b \in SUBSET Keys, new \in SUBSET (Keys \X Uuids) :
          /\ Drawing(b, new) /\ AllDrawn(b, new) /\ pc' = "record" /\ entries' = entries
          /\ file' = file /\ binds' = binds /\ drops' = drops /\ doomed' = doomed
    BY <1>3, DrawFrame
  <2>2. \A p \in new : next <= p[2] /\ p[2] \in Nat
    BY <2>1, BoundsAssumption DEF Drawing, Uuids
  <2>3. PendingApart'
    <3>1. \A p, q \in pending' : p[2] = q[2] => p = q
      BY <2>1 DEF Drawing, AllDrawn
    <3>2. \A p \in pending' : p[2] \notin Held(entries)
      BY <1>1, <2>1, <2>2 DEF AllDrawn, Held
    <3> QED BY <2>1, <3>1, <3>2 DEF PendingApart, Held
  <2>4. OneKeyEach'
    BY <1>1, <2>1 DEF OneKeyEach
  <2> QED BY <1>1, <2>1, <2>3, <2>4, OwnerElsewhere
<1> QED BY <1>2, <1>3

LEMMA RecordOwner ==
  ASSUME IInv, RecordCreated
  PROVE  OwnerInv'
<1>1. PICK p \in pending :
        /\ p[1] \in Keys /\ p[2] \in Uuids
        /\ pending' = pending \ {p} /\ file' = entries'
        /\ \A k \in Keys : entries'[k] = IF k = p[1] THEN p[2] ELSE entries[k]
        /\ pc = "record" /\ pc' \in {"draw", "record"}
        /\ binds' = binds /\ drops' = drops /\ doomed' = doomed
  BY RecordFrame DEF IInv, Base
<1>2. OneKeyEach /\ entries = file /\ PendingApart /\ binds = {} /\ drops = {} /\ doomed = {}
  BY <1>1 DEF IInv, Base, RunInv, AtRest, OwnerInv, Running, Planned
<1>3. \A x \in Keys : entries[x] # p[2]
  BY <1>1, <1>2, BoundsAssumption DEF PendingApart, Held, Uuids, NoUuid
<1>4. OneKeyEach'
  BY <1>1, <1>2, <1>3 DEF OneKeyEach
<1>5. PendingApart'
  <2>1. \A q \in pending' : q \in pending /\ q[2] # p[2]
    BY <1>1, <1>2 DEF PendingApart
  <2>2. \A q \in pending' : q[2] \notin Held(entries')
    BY <1>1, <1>2, <2>1 DEF PendingApart, Held
  <2> QED BY <1>2, <2>1, <2>2 DEF PendingApart, Held
<1> QED BY <1>1, <1>2, <1>4, <1>5, OwnerElsewhere

LEMMA FinishOwner ==
  ASSUME IInv, Finish
  PROVE  OwnerInv'
<1>1. /\ OneKeyEach /\ pc' = "done" /\ file' = file /\ doomed' = {}
      /\ binds' = {} /\ drops' = {} /\ pending' = {}
  BY DEF IInv, Base, RunInv, Finish, OwnerInv, Planned, planVars
<1>2. OneKeyEach' /\ PendingApart'
  BY <1>1 DEF OneKeyEach, PendingApart
<1> QED BY <1>1, <1>2, OwnerElsewhere

\* Whatever ends a run leaves one key each, and nothing changes it in between.
LEMMA EndOwner ==
  ASSUME IInv, Orderly, EndStep \/ EditStep
  PROVE  OwnerInv'
<1> USE DEF IInv, Base, RunInv
<1>1. OneKeyEach'
  <2>1. CASE MovesRaise
    <3>1. MaxRefused # 0
      BY <2>1, BoundsAssumption DEF MovesRaise, Refuse, TypeInv, TypeOK
    <3>2. OneCluster
      BY <3>1 DEF Orderly
    <3>3. OneKeyEach
      BY <2>1, <3>2, AloneOwns DEF MovesRaise, OwnerInv, AtRest
    <3> QED BY <2>1, <3>3 DEF MovesRaise, OneKeyEach
  <2>2. CASE DrawBatchRaises
    BY <2>2 DEF DrawBatchRaises, OwnerInv, OneKeyEach
  <2>3. ASSUME NEW torn \in BOOLEAN, Crash(torn) PROVE OneKeyEach'
    <3>1. MaxCrashes # 0
      BY <2>3, BoundsAssumption DEF Crash, TypeInv, TypeOK
    <3>2. OneKeyEach
      BY <3>1 DEF Orderly, OwnerInv, Sure
    <3> QED BY <2>3, <3>2 DEF Crash, OneKeyEach, EmptyRegistry
  <2>4. CASE EditStep
    BY <2>4 DEF EditStep, EditCell, EditTarget, EditRecords, HandMove, HandDraw, HandDelete,
       Edit, AtRest, OwnerInv, OneKeyEach
  <2> QED BY <2>1, <2>2, <2>3, <2>4 DEF EndStep
<1>2. PendingApart'
  BY EndFrame DEF PendingApart
<1> QED BY <1>1, <1>2, EndFrame, OwnerElsewhere

LEMMA OwnerStep ==
  ASSUME Orderly
  PROVE  IInv /\ [Next]_vars => OwnerInv'
<1>1. CASE UNCHANGED vars
  BY <1>1
     DEF vars, IInv, OwnerInv, BindsApart, PendingApart, OwnersApart, Sure,
         OneKeyEach, Destined, RunKeys, Held
<1> QED
  BY <1>1, StartOwner, DecideOwner, AdoptOwner, ForgetOwner, MoveOwner, ClaimOwner,
     ReconcileOwner, DeleteOwner, DrawOwner, RecordOwner, FinishOwner, EndOwner, NextSplit
     DEF RunStep

LEMMA OwnerAlways ==
  ASSUME Orderly
  PROVE  Spec => []IInv
<1>1. Init => IInv
  BY InitTypeInv, InitRunInv, InitOwnerInv DEF IInv, Base
<1>2. IInv /\ [Next]_vars => IInv'
  BY BaseStep, OwnerStep DEF IInv
<1> QED BY <1>1, <1>2, PTL DEF Spec

\* Between runs no two keys of the registry file hold one item, whatever the
\* narrowings, the edits of the lists and of the board, and the adoptions.
THEOREM OneOwnerHolds ==
  ASSUME Orderly
  PROVE  Spec => []OneOwner
<1>1. IInv => OneOwner
  BY DEF IInv, OwnerInv, OneOwner, OneKeyEach, AtRest
<1> QED BY <1>1, OwnerAlways, PTL

-----------------------------------------------------------------------------
(* What a run deletes, and what it leaves.                                 *)

\* Reconciling names no item that a key outside the run holds: the keys it
\* names items of are of the run or stale, and their items have no other key.
LEMMA ReconcileSpares ==
  ASSUME IInv, Reconcile, NEW u \in ToDelete, NEW k \in Keys, k[1] \in known \ only
  PROVE  entries[k] # u
<1>1. /\ OwnersApart /\ only \subseteq known
      /\ \A x \in Keys : Destined(x) = entries[x]
  BY DEF IInv, Base, RunInv, Reconcile, OwnerInv, Running, Planned, Destined
<1>2. k \notin RunKeys /\ k \notin Stale
  BY DEF RunKeys, Stale, SeenAnchors
<1>3. PICK j \in Moved \cup Stale : entries[j] = u
  BY DEF ToDelete
<1>4. /\ j \in Keys /\ entries[j] # NoUuid
      /\ j \in RunKeys \/ j \in Stale
  <2>1. NoUuid \notin Uuids
    BY BoundsAssumption DEF Uuids, NoUuid
  <2> QED BY <1>3, <2>1 DEF Moved, Stale, RunKeys, Live
<1>5. j # k
  BY <1>2, <1>4
<1> SUFFICES ASSUME entries[k] = entries[j] PROVE FALSE
  BY <1>3
<1>6. \/ j \in RunKeys /\ k[1] \notin known
      \/ k \in RunKeys /\ j[1] \notin known
  BY <1>1, <1>4, <1>5 DEF OwnersApart
<1> QED BY <1>2, <1>6

\* No step names for deletion an item that a key of a cluster outside the run
\* holds.
THEOREM ProtectedSurvivesHolds ==
  ASSUME Orderly
  PROVE  Spec => ProtectedSurvives
<1> DEFINE Spares == \A u \in doomed', k \in Keys : k[1] \in known \ only => entries[k] # u
<1>1. IInv /\ [Next]_vars => [Spares]_vars
  <2> SUFFICES ASSUME IInv, Next PROVE Spares
    BY DEF vars
  <2>1. CASE Reconcile
    BY <2>1, ReconcileSpares DEF Reconcile
  <2>2. CASE ~Reconcile
    <3> SUFFICES doomed' = {} \/ (doomed' = doomed /\ pc # "delete")
      BY DEF IInv, Base, RunInv, Planned
    <3>1. CASE \E sel, rig \in SUBSET known : Start(sel, rig)
      BY <3>1 DEF Start, AtRest, planVars
    <3>2. CASE DecideAdoption \/ AdoptLive \/ ForgetKey \/ MoveComponents \/ ClaimUnowned
      BY <3>2 DEF DecideAdoption, AdoptLive, ForgetKey, MoveComponents, ClaimUnowned, planVars
    <3>3. CASE Delete \/ DeleteRefused
      BY <3>3 DEF Delete, DeleteRefused, RemoveByIds
    <3>4. CASE DrawBatch \/ DrawBatchRetried \/ RecordCreated \/ Finish
      BY <3>4 DEF DrawBatch, DrawBatchRetried, RecordCreated, Finish, planVars
    <3>5. CASE EndStep \/ EditStep
      BY <3>5, EndFrame
    <3> QED BY <2>2, <3>1, <3>2, <3>3, <3>4, <3>5, NextSplit DEF RunStep
  <2> QED BY <2>1, <2>2
<1> QED BY <1>1, OwnerAlways, PTL DEF Spec, ProtectedSurvives

-----------------------------------------------------------------------------
(* A completed run leaves copper at every place it planned.                *)

OnPlace(u, k) == u \in Live /\ board[u] = PlaceOf(k, target)
Planted(k) == \E u \in Live : board[u] = PlaceOf(k, target)

\* A record that is not to be drawn has its own item in place when the run
\* comes to delete, and some item in place from then on.
SettleInv ==
  /\ pc = "delete" => \A k \in RunKeys \ todo : OnPlace(entries[k], k)
  /\ pc \in {"draw", "record", "done"} => \A k \in RunKeys \ todo : Planted(k)

\* A place is where a record lies by the config, which no run changes.
LEMMA PlaceStays ==
  ASSUME RunStep
  PROVE  \A k : PlaceOf(k, target)' = PlaceOf(k, target)
BY RunFrame DEF PlaceOf

\* Drawing disturbs no item that is on the board.
LEMMA DrawingSpares ==
  ASSUME Base, NEW b, NEW new \in SUBSET (Keys \X Uuids), Drawing(b, new), NEW u \in Live
  PROVE  u \in Live' /\ board'[u] = board[u]
<1>1. u \in Uuids /\ u < next /\ board[u] # NoPlace
  BY LiveIsOld DEF Base, RunInv, Live
<1>2. ~\E p \in new : u = p[2]
  BY <1>1, BoundsAssumption DEF Base, TypeInv, TypeOK, Drawing, Uuids
<1>3. board'[u] = board[u]
  BY <1>1, <1>2 DEF Drawing
<1> QED BY <1>1, <1>3 DEF Live

\* A batch puts an item in place for each of its records.
LEMMA DrawingPlants ==
  ASSUME Base, NEW b \in SUBSET Keys, NEW new \in SUBSET (Keys \X Uuids),
         Drawing(b, new), AllDrawn(b, new), NEW k \in b
  PROVE  \E p \in new : /\ p[1] = k /\ p[2] \in Live' /\ board'[p[2]] = PlaceOf(k, target)
                        /\ \A q \in new : q[1] = k => q[2] <= p[2]
<1>1. PICK p \in new : /\ p[1] = k /\ board'[p[2]] = PlaceOf(k, target)
                       /\ \A q \in new : q[1] = k => q[2] <= p[2]
  BY DEF AllDrawn
<1>2. PlaceOf(k, target) \in Places
  BY DEF Drawing, Base, TypeInv, TodoPlanned, TypeOK, RunKeys, PlaceOf, Places, Keys
<1>3. p[2] \in Live'
  BY <1>1, <1>2, MarkersAssumption DEF Live
<1> QED BY <1>1, <1>3

LEMMA SettleStep == IInv /\ SettleInv /\ [Next]_vars => SettleInv'
<1> SUFFICES ASSUME IInv, SettleInv, [Next]_vars PROVE SettleInv'
  OBVIOUS
<1> USE DEF IInv, Base
<1>1. CASE EndStep \/ EditStep
  BY <1>1, EndFrame DEF SettleInv
<1>2. ASSUME NEW sel \in SUBSET known, NEW rig \in SUBSET sel, Start(sel, rig)
      PROVE  SettleInv'
  BY <1>2 DEF Start, SettleInv
<1>3. CASE DecideAdoption \/ AdoptLive \/ ForgetKey \/ MoveComponents \/ ClaimUnowned
  BY <1>3 DEF DecideAdoption, AdoptLive, ForgetKey, MoveComponents, ClaimUnowned, SettleInv
<1>4. CASE Reconcile
  <2>1. /\ RunKeys' = RunKeys /\ \A k : PlaceOf(k, target)' = PlaceOf(k, target)
        /\ board' = board /\ todo' = ToDraw /\ entries' = AfterPrune /\ pc' = "delete"
    BY <1>4, RunFrame, PlaceStays DEF RunStep, Reconcile, Save, boardVars
  <2>2. ASSUME NEW k \in RunKeys \ ToDraw PROVE OnPlace(AfterPrune[k], k)
    BY <2>2 DEF ToDraw, InPlace, AfterPrune, AfterPlanned, Stale, OnPlace, RunKeys
  <2> QED BY <2>1, <2>2 DEF SettleInv, OnPlace, Live
<1>5. CASE Delete \/ DeleteRefused
  <2>1. /\ RunKeys' = RunKeys /\ \A k : PlaceOf(k, target)' = PlaceOf(k, target)
        /\ pc = "delete" /\ pc' = "draw" /\ todo' = Missing(todo, doomed)
        /\ \A u \in Live \ doomed : u \in Live' /\ board'[u] = board[u]
    BY <1>5, RunFrame, PlaceStays
       DEF RunStep, Delete, DeleteRefused, RemoveByIds, Live, TypeInv, TypeOK
  <2>2. ASSUME NEW k \in RunKeys \ Missing(todo, doomed)
        PROVE  \E u \in Live \ doomed : board[u] = PlaceOf(k, target)
    <3>1. CASE k \in todo
      BY <2>2, <3>1 DEF Missing
    <3>2. CASE k \notin todo
      <4>1. OnPlace(entries[k], k) /\ k \in Keys
        BY <2>1, <3>2 DEF SettleInv, RunKeys
      <4>2. entries[k] \in Held(entries)
        BY <4>1, BoundsAssumption DEF OnPlace, Live, Held, Uuids, NoUuid
      <4> QED BY <4>1, <4>2 DEF OwnerInv, OnPlace
    <3> QED BY <3>1, <3>2
  <2>3. ASSUME NEW k \in RunKeys \ Missing(todo, doomed) PROVE Planted(k)'
    BY <2>1, <2>2 DEF Planted
  <2> QED BY <2>1, <2>3 DEF SettleInv
<1>6. CASE (DrawBatch \/ DrawBatchRetried) /\ ~EndStep
  <2>1. PICK b \in SUBSET Keys, new \in SUBSET (Keys \X Uuids) :
          Drawing(b, new) /\ AllDrawn(b, new) /\ pc' = "record"
    BY <1>6, DrawFrame DEF EndStep
  <2>2. /\ RunKeys' = RunKeys /\ \A k : PlaceOf(k, target)' = PlaceOf(k, target)
        /\ todo' = todo \ b /\ pc = "draw"
    BY <1>6, <2>1, RunFrame, PlaceStays, DrawFrame DEF RunStep, AllDrawn
  <2>3. ASSUME NEW k \in RunKeys \ (todo \ b) PROVE Planted(k)'
    <3>1. CASE k \in b
      BY <2>1, <2>2, <3>1, DrawingPlants DEF Planted
    <3>2. CASE k \notin b
      <4>1. Planted(k)
        BY <2>2, <3>2, <2>3 DEF SettleInv
      <4> QED BY <2>1, <2>2, <4>1, DrawingSpares DEF Planted
    <3> QED BY <3>1, <3>2
  <2> QED BY <2>1, <2>2, <2>3 DEF SettleInv
<1>7. CASE RecordCreated \/ Finish
  <2>1. /\ RunKeys' = RunKeys /\ \A k : PlaceOf(k, target)' = PlaceOf(k, target)
        /\ board' = board /\ todo' = todo /\ pc \in {"draw", "record"} /\ pc' # "delete"
    BY <1>7, RunFrame, PlaceStays DEF RunStep, RecordCreated, Finish, boardVars, planVars
  <2> QED BY <2>1 DEF SettleInv, Planted, Live
<1>8. CASE UNCHANGED vars
  BY <1>8 DEF vars, SettleInv, RunKeys, OnPlace, Planted, Live, PlaceOf
<1> QED BY <1>1, <1>2, <1>3, <1>4, <1>5, <1>6, <1>7, <1>8, NextSplit DEF RunStep

LEMMA SettleAlways ==
  ASSUME Orderly
  PROVE  Spec => [](IInv /\ SettleInv)
<1>1. Init => SettleInv
  BY DEF Init, SettleInv
<1> QED BY <1>1, SettleStep, OwnerAlways, PTL DEF Spec

\* A completed run leaves copper at every place it planned: no item is deleted
\* under one key and counted "already in place" under another.
THEOREM SettledHolds ==
  ASSUME Orderly
  PROVE  Spec => []Settled
<1>1. IInv /\ SettleInv => Settled
  BY DEF IInv, Base, TypeInv, TodoPlanned, AtRest, SettleInv, Settled, Planted
<1> QED BY <1>1, SettleAlways, PTL

-----------------------------------------------------------------------------
(* Repeating a completed run.                                              *)

\* Nothing in the registry is left for a run to prune.
NoneStale(reg) ==
  \A k \in Keys \ RunKeys : reg[k] # NoUuid => k[1] \notin SeenAnchors /\ k[1] \in known

\* The components of the run stand where they are planned.
Arrived == \A a \in only : pose[a] = target[a]

\* Once a run has reconciled, a planned key has no item, its own in place, or
\* one in place still to be recorded; and the last pair recorded for a key is
\* of an item in place.
Reconciled ==
  /\ NoneStale(file)
  /\ \A k \in RunKeys : \/ file[k] = NoUuid \/ OnPlace(file[k], k)
                        \/ \E q \in pending : q[1] = k /\ OnPlace(q[2], k)
  /\ \A p \in pending : \E q \in pending :
        q[1] = p[1] /\ p[2] <= q[2] /\ OnPlace(q[2], p[1])

\* A repetition finds every place taken, and every key empty or in place.
Repeating ==
  /\ Arrived /\ NoneStale(file) /\ drops = {} /\ doomed = {}
  /\ \A k \in RunKeys : Planted(k) /\ (file[k] = NoUuid \/ OnPlace(file[k], k))
  /\ \A c \in binds : OnPlace(c[2], c[1])
  /\ pc # "record" /\ (pc = "draw" => todo = {})

QuietInv ==
  /\ pc \in {"claim", "reconcile", "delete", "draw", "record", "done"} => Arrived
  /\ pc \in {"delete", "draw", "record", "done"} => Reconciled
  /\ again /\ ~AtRest => Repeating

QInv == IInv /\ SettleInv /\ QuietInv

LEMMA StartQuiet ==
  ASSUME QInv, NEW sel \in SUBSET known, NEW rig \in SUBSET sel, Start(sel, rig)
  PROVE  QuietInv'
<1>1. /\ pc' = "adopt" /\ only' = sel /\ board' = board /\ file' = file /\ cell' = cell
      /\ known' = known /\ target' = target /\ pose' = pose
      /\ binds' = binds /\ drops' = drops /\ doomed' = doomed
      /\ again' = (pc = "done" /\ sel \subseteq only) /\ AtRest
  BY DEF Start, boardVars, configVars, planVars
<1>2. binds = {} /\ drops = {} /\ doomed = {} /\ pending = {} /\ todo = {} /\ only \subseteq known
  BY <1>1 DEF QInv, IInv, Base, TypeInv, TodoPlanned, RunInv, Planned, Running, AtRest
<1> SUFFICES ASSUME pc = "done", sel \subseteq only PROVE Repeating'
  BY <1>1 DEF QuietInv
<1>3. Arrived /\ Reconciled /\ \A k \in RunKeys : Planted(k)
  BY <1>2 DEF QInv, QuietInv, SettleInv
<1>4. RunKeys' \subseteq RunKeys /\ SeenAnchors' \subseteq SeenAnchors
      /\ \A k \in RunKeys : k[1] \in sel => k \in RunKeys'
  BY <1>1 DEF RunKeys, SeenAnchors
<1>5. NoneStale(file)'
  <2> SUFFICES ASSUME NEW k \in Keys \ RunKeys', file[k] # NoUuid
               PROVE  k[1] \notin SeenAnchors' /\ k[1] \in known
    BY <1>1 DEF NoneStale
  <2>1. CASE k \in RunKeys
    <3>1. k[1] \notin sel /\ k[1] \in only
      BY <1>4, <2>1 DEF RunKeys
    <3>2. SeenAnchors' \subseteq sel
      BY <1>1 DEF SeenAnchors, RunKeys
    <3> QED BY <1>2, <3>1, <3>2
  <2>2. CASE k \notin RunKeys
    BY <1>3, <1>4, <2>2 DEF Reconciled, NoneStale
  <2> QED BY <2>1, <2>2
<1>6. \A k \in RunKeys' : Planted(k) /\ (file[k] = NoUuid \/ OnPlace(file[k], k))
  BY <1>2, <1>3, <1>4 DEF Reconciled
<1>7. \A k \in RunKeys' : Planted(k)' /\ (file'[k] = NoUuid \/ (OnPlace(file[k], k))')
  BY <1>1, <1>6 DEF Planted, OnPlace, PlaceOf, Live
<1> QED BY <1>1, <1>2, <1>3, <1>5, <1>7 DEF Repeating, Arrived

\* In a repetition nothing is shifted, and what is bound is in place.
LEMMA DecideQuiet ==
  ASSUME QInv, DecideAdoption
  PROVE  QuietInv'
<1> USE DEF QInv, IInv, Base
<1>1. /\ pc = "adopt" /\ pc' = "bind" /\ ~AtRest /\ entries = file
      /\ board' = board /\ file' = file /\ pose' = pose /\ doomed' = doomed
  BY DEF DecideAdoption, boardVars, AtRest, RunInv, Running
<1>2. /\ RunKeys' = RunKeys /\ SeenAnchors' = SeenAnchors /\ known' = known /\ again' = again
      /\ target' = target /\ only' = only /\ cell' = cell
  BY RunFrame DEF RunStep
<1> SUFFICES ASSUME again PROVE Repeating'
  BY <1>1, <1>2 DEF QuietInv
<1>3. Repeating
  BY <1>1 DEF QuietInv
<1>4. \A k \in Keys : k[1] \in only => PlaceOf(k, pose) = PlaceOf(k, target)
  BY <1>3 DEF Repeating, Arrived, PlaceOf
<1>5. drops' = {}
  <2>1. \A a : Shifted(entries, a) = {}
    <3> SUFFICES ASSUME NEW a, NEW k \in Shifted(entries, a) PROVE FALSE
      OBVIOUS
    <3>1. k \in RunKeys /\ k \in Keys /\ entries[k] \in Live /\ ~StandsAt(entries[k], k, pose)
      BY DEF Shifted, RunKeys
    <3>2. OnPlace(entries[k], k)
      BY <1>1, <1>3, <3>1, BoundsAssumption DEF Repeating, Live, Uuids, NoUuid
    <3> QED BY <1>4, <3>1, <3>2 DEF OnPlace, StandsAt, RunKeys
  <2> QED BY <2>1 DEF DecideAdoption, Forgotten
<1>6. ASSUME NEW c \in binds' PROVE OnPlace(c[2], c[1])
  BY <1>4, DecideFrame DEF StandsAt, OnPlace, RunKeys
<1>7. \A c \in binds' : OnPlace(c[2], c[1])'
  BY <1>1, <1>2, <1>6 DEF OnPlace, PlaceOf, Live
<1> QED BY <1>1, <1>2, <1>3, <1>5, <1>7
        DEF Repeating, Arrived, NoneStale, Planted, OnPlace, PlaceOf, Live

LEMMA AdoptQuiet ==
  ASSUME QInv, AdoptLive
  PROVE  QuietInv'
<1> USE DEF QInv, IInv, Base
<1>1. PICK c \in binds : Save([entries EXCEPT ![c[1]] = c[2]]) /\ binds' = binds \ {c}
  BY DEF AdoptLive
<1>2. /\ pc = "bind" /\ pc' = "bind" /\ ~AtRest /\ entries = file
      /\ board' = board /\ pose' = pose /\ doomed' = doomed /\ drops' = drops
      /\ c[1] \in RunKeys /\ c[1] \in Keys
      /\ \A k \in Keys : file'[k] = IF k = c[1] THEN c[2] ELSE file[k]
  BY <1>1 DEF AdoptLive, Save, boardVars, AtRest, RunInv, Running, OwnerInv, BindsApart, RunKeys,
     TypeInv, TypeOK
<1>3. /\ RunKeys' = RunKeys /\ SeenAnchors' = SeenAnchors /\ known' = known /\ again' = again
      /\ target' = target /\ only' = only /\ cell' = cell
  BY RunFrame DEF RunStep
<1> SUFFICES ASSUME again PROVE Repeating'
  BY <1>2, <1>3 DEF QuietInv
<1>4. Repeating
  BY <1>2 DEF QuietInv
<1>5. NoneStale(file)'
  BY <1>2, <1>3, <1>4 DEF Repeating, NoneStale
<1>6. \A k \in RunKeys : Planted(k) /\ (file'[k] = NoUuid \/ OnPlace(file'[k], k))
  BY <1>2, <1>4 DEF Repeating, RunKeys
<1>7. \A k \in RunKeys' : Planted(k)' /\ (file'[k] = NoUuid \/ (OnPlace(file[k], k))')
  BY <1>2, <1>3, <1>6 DEF Planted, OnPlace, PlaceOf, Live
<1> QED BY <1>1, <1>2, <1>3, <1>4, <1>5, <1>7
        DEF Repeating, Arrived, OnPlace, PlaceOf, Live

LEMMA ForgetQuiet ==
  ASSUME QInv, ForgetKey
  PROVE  QuietInv'
<1>1. pc = "bind" /\ pc' = "bind" /\ again' = again /\ drops # {}
  BY RunFrame DEF RunStep, ForgetKey
<1>2. ~again
  BY <1>1 DEF QInv, QuietInv, Repeating, AtRest
<1> QED BY <1>1, <1>2 DEF QuietInv

LEMMA MoveQuiet ==
  ASSUME QInv, MoveComponents
  PROVE  QuietInv'
<1> USE DEF QInv, IInv, Base
<1>1. /\ pc = "bind" /\ pc' = "claim" /\ ~AtRest /\ board' = board /\ file' = file
      /\ doomed' = doomed /\ drops' = drops /\ binds' = {}
      /\ \A a \in only : pose'[a] = target[a]
  BY DEF MoveComponents, boardVars, planVars, AtRest, TypeInv, TypeOK
<1>2. /\ RunKeys' = RunKeys /\ SeenAnchors' = SeenAnchors /\ known' = known /\ again' = again
      /\ target' = target /\ only' = only /\ cell' = cell
  BY RunFrame DEF RunStep
<1>3. Arrived'
  BY <1>1, <1>2 DEF Arrived
<1>4. again => Repeating
  BY <1>1 DEF QuietInv
<1>5. again => Repeating'
  BY <1>1, <1>2, <1>3, <1>4 DEF Repeating, NoneStale, Planted, OnPlace, PlaceOf, Live
<1> QED BY <1>1, <1>2, <1>3, <1>5 DEF QuietInv

LEMMA ClaimQuiet ==
  ASSUME QInv, ClaimUnowned
  PROVE  QuietInv'
<1> USE DEF QInv, IInv, Base
<1>1. /\ pc = "claim" /\ pc' = "reconcile" /\ ~AtRest /\ entries = file
      /\ board' = board /\ pose' = pose /\ file' = entries'
      /\ binds' = binds /\ doomed' = doomed /\ drops' = drops /\ binds = {}
      /\ \A k \in Keys : \/ file'[k] = file[k]
                         \/ k \in RunKeys /\ file'[k] \in Claimable(k) \cup {NoUuid}
  BY ClaimFrame DEF AtRest, RunInv, Running, Planned
<1>2. /\ RunKeys' = RunKeys /\ SeenAnchors' = SeenAnchors /\ known' = known /\ again' = again
      /\ target' = target /\ only' = only /\ cell' = cell
  BY RunFrame DEF RunStep
<1>3. Arrived'
  BY <1>1, <1>2 DEF QuietInv, Arrived
<1>4. again => Repeating
  BY <1>1 DEF QuietInv
<1>5. ASSUME again PROVE Repeating'
  <2>1. \A k \in RunKeys : Planted(k) /\ (file'[k] = NoUuid \/ OnPlace(file'[k], k))
    BY <1>1, <1>4, <1>5 DEF Repeating, RunKeys, Claimable, OnPlace
  <2>2. \A k \in RunKeys' : Planted(k)' /\ (file'[k] = NoUuid \/ (OnPlace(file[k], k))')
    BY <1>1, <1>2, <2>1 DEF Planted, OnPlace, PlaceOf, Live
  <2>3. NoneStale(file)'
    BY <1>1, <1>2, <1>4, <1>5 DEF Repeating, NoneStale
  <2> QED BY <1>1, <1>2, <1>3, <1>4, <1>5, <2>2, <2>3 DEF Repeating
<1> QED BY <1>1, <1>2, <1>3, <1>5 DEF QuietInv

\* Reconciling prunes what is stale, and in a repetition there is nothing to.
LEMMA ReconcileQuiet ==
  ASSUME QInv, Reconcile
  PROVE  QuietInv'
<1> USE DEF QInv, IInv, Base
<1>1. /\ pc = "reconcile" /\ pc' = "delete" /\ ~AtRest /\ entries = file
      /\ board' = board /\ pose' = pose /\ file' = AfterPrune /\ doomed' = ToDelete
      /\ binds' = {} /\ drops' = {} /\ pending' = {}
  BY DEF Reconcile, Save, boardVars, AtRest, RunInv, Running, Planned
<1>2. /\ RunKeys' = RunKeys /\ SeenAnchors' = SeenAnchors /\ known' = known /\ again' = again
      /\ target' = target /\ only' = only /\ cell' = cell
  BY RunFrame DEF RunStep
<1>3. Arrived'
  BY <1>1, <1>2 DEF QuietInv, Arrived
<1>4. NoneStale(file)'
  <2> SUFFICES ASSUME NEW k \in Keys \ RunKeys, AfterPrune[k] # NoUuid
               PROVE  k[1] \notin SeenAnchors /\ k[1] \in known
    BY <1>1, <1>2 DEF NoneStale
  <2> QED BY DEF AfterPrune, AfterPlanned, ToDraw, Stale
<1>5. \A k \in RunKeys : AfterPrune[k] = NoUuid \/ OnPlace(AfterPrune[k], k)
  BY DEF AfterPrune, AfterPlanned, ToDraw, InPlace, OnPlace, RunKeys
<1>6. \A k \in RunKeys' : file'[k] = NoUuid \/ (OnPlace(file[k], k))'
  BY <1>1, <1>2, <1>5 DEF OnPlace, PlaceOf, Live
<1>7. Reconciled'
  BY <1>1, <1>4, <1>6 DEF Reconciled
<1>8. ASSUME again PROVE Repeating'
  <2>1. Repeating
    BY <1>1, <1>8 DEF QuietInv
  <2>2. Moved = {}
    BY <1>1, <2>1, BoundsAssumption
       DEF Repeating, Moved, InPlace, OnPlace, Live, Uuids, NoUuid
  <2>3. Stale = {}
    BY <1>1, <2>1 DEF Repeating, NoneStale, Stale
  <2>4. ToDelete = {}
    BY <2>2, <2>3 DEF ToDelete
  <2>5. \A k \in RunKeys' : Planted(k)'
    BY <1>1, <1>2, <2>1 DEF Repeating, Planted, PlaceOf, Live
  <2> QED BY <1>1, <1>3, <1>4, <1>6, <2>4, <2>5 DEF Repeating
<1> QED BY <1>1, <1>2, <1>3, <1>7, <1>8 DEF QuietInv

\* A deletion spares the items in place, which keys hold.
LEMMA DeleteQuiet ==
  ASSUME QInv, Delete \/ DeleteRefused
  PROVE  QuietInv'
<1> USE DEF QInv, IInv, Base
<1>1. /\ pc = "delete" /\ pc' = "draw" /\ ~AtRest /\ entries = file
      /\ pose' = pose /\ file' = file /\ doomed' = {} /\ todo' = Missing(todo, doomed)
      /\ binds' = {} /\ drops' = {} /\ pending' = {} /\ pending = {}
      /\ \A u \in Live \ doomed : u \in Live' /\ board'[u] = board[u]
  BY DEF Delete, DeleteRefused, RemoveByIds, AtRest, RunInv, Running, Planned, Live, TypeInv, TypeOK
<1>2. /\ RunKeys' = RunKeys /\ SeenAnchors' = SeenAnchors /\ known' = known /\ again' = again
      /\ target' = target /\ only' = only /\ cell' = cell
  BY RunFrame DEF RunStep
<1>3. Arrived' /\ Reconciled
  BY <1>1, <1>2 DEF QuietInv, Arrived
<1>4. ASSUME NEW k \in RunKeys PROVE file'[k] = NoUuid \/ (OnPlace(file[k], k))'
  <2>1. CASE file[k] = NoUuid
    BY <1>1, <2>1
  <2>2. CASE file[k] # NoUuid
    <3>1. OnPlace(file[k], k) /\ file[k] \in Held(entries)
      BY <1>1, <1>3, <2>2 DEF Reconciled, Held, RunKeys
    <3>2. file[k] \in Live \ doomed
      BY <3>1 DEF OnPlace, OwnerInv
    <3> QED BY <1>1, <1>2, <3>1, <3>2 DEF OnPlace, PlaceOf
  <2> QED BY <2>1, <2>2
<1>5. NoneStale(file)'
  BY <1>1, <1>2, <1>3 DEF Reconciled, NoneStale
<1>6. Reconciled'
  BY <1>1, <1>2, <1>4, <1>5 DEF Reconciled
<1>7. ASSUME again PROVE Repeating'
  <2>1. Repeating
    BY <1>1, <1>7 DEF QuietInv
  <2>2. Missing(todo, doomed) = {}
    BY <2>1 DEF Repeating, Missing, Planted, TypeInv, TodoPlanned
  <2>3. \A k \in RunKeys' : Planted(k)'
    BY <1>1, <1>2, <2>1 DEF Repeating, Planted, PlaceOf
  <2> QED BY <1>1, <1>2, <1>3, <1>4, <1>5, <2>2, <2>3 DEF Repeating
<1> QED BY <1>1, <1>2, <1>3, <1>6, <1>7 DEF QuietInv

LEMMA DrawQuiet ==
  ASSUME QInv, DrawBatch \/ DrawBatchRetried, ~EndStep
  PROVE  QuietInv'
<1> USE DEF QInv, IInv, Base
<1>1. PICK b \in SUBSET Keys, new \in SUBSET (Keys \X Uuids) :
        Drawing(b, new) /\ AllDrawn(b, new) /\ pc' = "record"
  BY DrawFrame DEF EndStep
<1>2. /\ RunKeys' = RunKeys /\ SeenAnchors' = SeenAnchors /\ known' = known /\ again' = again
      /\ target' = target /\ only' = only /\ cell' = cell
  BY RunFrame DEF RunStep
<1>3. /\ pc = "draw" /\ ~AtRest /\ file' = file /\ pose' = pose /\ pending = {} /\ todo # {}
  <2>1. \E bb \in Batches : TRUE
    BY DEF DrawBatch, DrawBatchRetried
  <2>2. todo # {}
    BY <2>1, BatchFacts
  <2> QED BY <2>2, DrawFrame DEF AtRest, RunInv, Planned
<1>4. Arrived' /\ Reconciled
  BY <1>2, <1>3 DEF QuietInv, Arrived
<1>5. \A k \in RunKeys : file'[k] = NoUuid \/ (OnPlace(file[k], k))'
  BY <1>1, <1>2, <1>3, <1>4, DrawingSpares DEF Reconciled, OnPlace, PlaceOf
<1>6. NoneStale(file)'
  BY <1>2, <1>3, <1>4 DEF Reconciled, NoneStale
<1>7. ASSUME NEW p \in new
      PROVE  \E q \in new : q[1] = p[1] /\ p[2] <= q[2] /\ OnPlace(q[2], p[1])'
  <2>1. p[1] \in b
    BY <1>1 DEF Drawing
  <2>2. PICK q \in new : /\ q[1] = p[1] /\ q[2] \in Live' /\ board'[q[2]] = PlaceOf(p[1], target)
                         /\ \A r \in new : r[1] = p[1] => r[2] <= q[2]
    BY <1>1, <2>1, DrawingPlants
  <2> QED BY <1>2, <2>2 DEF OnPlace, PlaceOf
<1>8. pending' = new
  BY <1>1 DEF AllDrawn
<1>9. Reconciled'
  BY <1>2, <1>5, <1>6, <1>7, <1>8 DEF Reconciled
<1>10. ~again
  BY <1>3 DEF QuietInv, Repeating
<1> QED BY <1>1, <1>2, <1>4, <1>9, <1>10 DEF QuietInv

\* Pairs are recorded in the order they were drawn, so the last one of a key
\* overwrites the one of an attempt that was rolled back.
LEMMA RecordQuiet ==
  ASSUME QInv, RecordCreated
  PROVE  QuietInv'
<1> USE DEF QInv, IInv, Base
<1>1. PICK p \in pending :
        /\ p[1] \in Keys /\ p[2] \in Uuids
        /\ \A q \in pending : p[2] <= q[2]
        /\ pending' = pending \ {p} /\ file' = entries'
        /\ \A k \in Keys : entries'[k] = IF k = p[1] THEN p[2] ELSE entries[k]
        /\ pc = "record" /\ pc' \in {"draw", "record"}
        /\ board' = board /\ pose' = pose
  BY RecordFrame
<1>2. /\ RunKeys' = RunKeys /\ SeenAnchors' = SeenAnchors /\ known' = known /\ again' = again
      /\ target' = target /\ only' = only /\ cell' = cell
  BY RunFrame DEF RunStep
<1>3. /\ entries = file /\ Arrived' /\ Reconciled /\ ~again /\ PendingApart
      /\ p[1] \in RunKeys
  BY <1>1, <1>2 DEF AtRest, RunInv, Running, Planned, QuietInv, Arrived, Repeating, OwnerInv
<1>4. \A k \in Keys : file'[k] = IF k = p[1] THEN p[2] ELSE file[k]
  BY <1>1, <1>3
<1>5. \A q \in pending : q[2] \in Nat
  BY BoundsAssumption DEF TypeInv, TypeOK, Uuids
<1>6. ASSUME NEW r \in pending'
      PROVE  \E q \in pending' : q[1] = r[1] /\ r[2] <= q[2] /\ OnPlace(q[2], r[1])
  <2>1. r \in pending /\ r # p
    BY <1>1
  <2>2. PICK q \in pending : q[1] = r[1] /\ r[2] <= q[2] /\ OnPlace(q[2], r[1])
    BY <1>3, <2>1 DEF Reconciled
  <2>3. q # p
    BY <1>1, <1>3, <1>5, <2>1, <2>2 DEF PendingApart
  <2> QED BY <1>1, <2>2, <2>3
<1>7. ASSUME NEW k \in RunKeys
      PROVE  \/ file'[k] = NoUuid \/ OnPlace(file'[k], k)
             \/ \E q \in pending' : q[1] = k /\ OnPlace(q[2], k)
  <2>1. CASE k = p[1]
    <3>1. PICK q \in pending : q[1] = p[1] /\ OnPlace(q[2], p[1])
      BY <1>3 DEF Reconciled
    <3> QED BY <1>1, <1>4, <2>1, <3>1
  <2>2. CASE k # p[1]
    BY <1>1, <1>3, <1>4, <2>2 DEF Reconciled, RunKeys
  <2> QED BY <2>1, <2>2
<1>8. \A u, k : OnPlace(u, k)' <=> OnPlace(u, k)
  BY <1>1, <1>2 DEF OnPlace, PlaceOf, Live
<1>9. NoneStale(file)'
  BY <1>2, <1>3, <1>4 DEF Reconciled, NoneStale
<1>10. \A k \in RunKeys : (OnPlace(file[k], k))' <=> OnPlace(file'[k], k)
  BY <1>1, <1>2 DEF OnPlace, PlaceOf, Live
<1>11. Reconciled'
  BY <1>2, <1>6, <1>7, <1>8, <1>9, <1>10 DEF Reconciled
<1> QED BY <1>1, <1>2, <1>3, <1>11 DEF QuietInv

LEMMA QuietStep == QInv /\ [Next]_vars => QuietInv'
<1> SUFFICES ASSUME QInv, [Next]_vars PROVE QuietInv'
  OBVIOUS
<1>1. CASE EndStep \/ EditStep
  BY <1>1, EndFrame DEF QuietInv
<1>2. CASE Finish
  <2>1. /\ RunKeys' = RunKeys /\ SeenAnchors' = SeenAnchors /\ known' = known
        /\ target' = target /\ only' = only /\ cell' = cell
    BY <1>2, RunFrame DEF RunStep
  <2>2. /\ pc = "draw" /\ pc' = "done" /\ AtRest' /\ board' = board /\ pose' = pose
        /\ file' = file /\ pending' = pending
    BY <1>2 DEF Finish, AtRest, boardVars, planVars
  <2> QED BY <2>1, <2>2
          DEF QInv, QuietInv, Arrived, Reconciled, NoneStale, OnPlace, PlaceOf, Live
<1>3. CASE UNCHANGED vars
  <2>1. RunKeys' = RunKeys /\ SeenAnchors' = SeenAnchors /\ (Arrived' <=> Arrived)
    BY <1>3 DEF vars, RunKeys, SeenAnchors, Arrived
  <2>2. \A u, k : (OnPlace(u, k)' <=> OnPlace(u, k)) /\ (Planted(k)' <=> Planted(k))
    BY <1>3 DEF vars, OnPlace, Planted, PlaceOf, Live
  <2>3. \A k : (OnPlace(file[k], k))' <=> OnPlace(file[k], k)
    BY <1>3 DEF vars, OnPlace, PlaceOf, Live
  <2>4. NoneStale(file)' <=> NoneStale(file)
    BY <1>3, <2>1 DEF vars, NoneStale
  <2>5. Reconciled' <=> Reconciled
    BY <1>3, <2>1, <2>2, <2>3, <2>4 DEF vars, Reconciled
  <2>6. Repeating' <=> Repeating
    BY <1>3, <2>1, <2>2, <2>3, <2>4 DEF vars, Repeating
  <2> QED BY <1>3, <2>1, <2>5, <2>6 DEF vars, QInv, QuietInv, AtRest
<1> QED
  BY <1>1, <1>2, <1>3, StartQuiet, DecideQuiet, AdoptQuiet, ForgetQuiet, MoveQuiet, ClaimQuiet,
     ReconcileQuiet, DeleteQuiet, DrawQuiet, RecordQuiet, NextSplit DEF RunStep

\* Repeating a completed run, narrowed or not, with nothing changed between the
\* two deletes nothing and draws nothing.
THEOREM RepeatIsQuietHolds ==
  ASSUME Orderly
  PROVE  Spec => []RepeatIsQuiet
<1>1. Init => QuietInv
  BY DEF Init, QuietInv
<1>2. QInv => RepeatIsQuiet
  BY DEF QInv, QuietInv, Repeating, IInv, Base, RunInv, Planned, AtRest, RepeatIsQuiet
<1>3. IInv /\ SettleInv /\ QuietInv => QInv
  BY DEF QInv
<1> QED BY <1>1, <1>2, <1>3, QuietStep, SettleAlways, PTL DEF Spec, QInv

-----------------------------------------------------------------------------
(* Keeping track of copper, while nothing is refused.                      *)

\* As long as no call was refused there was no retry and no end over a batch,
\* and a deletion is refused for a packet that repeats a uuid only.
LEMMA RefusedFrame ==
  ASSUME TypeInv, Next, refused' = 0
  PROVE  /\ refused = 0 /\ ~DrawBatchRetried /\ ~DrawBatchRaises
         /\ DeleteRefused => packet = "repeats"
<1>1. refused \in Nat /\ ~Refuse
  BY BoundsAssumption DEF TypeInv, TypeOK, Refuse
<1>2. CASE EndStep
  BY <1>1, <1>2 DEF EndStep, MovesRaise, DrawBatchRaises, Crash, DrawBatchRetried, DeleteRefused,
     RemoveByIds, RunEnds, AtRest
<1>3. CASE ~EndStep
  BY <1>1, <1>3 DEF Next, Start, DecideAdoption, AdoptLive, ForgetKey, MoveComponents,
     ClaimUnowned, Reconcile, Delete, DeleteRefused, RemoveByIds, DrawBatch, DrawBatchRetried,
     EndStep, RecordCreated, Finish, EditCell, EditTarget, EditRecords, HandMove, HandDraw,
     HandDelete, Edit, faultVars
<1> QED BY <1>2, <1>3

\* Keys of the run share no item by the time it reconciles.
LEMMA PacketStep == IInv /\ CleanPacket /\ [Next]_vars => CleanPacket'
<1> SUFFICES ASSUME IInv, CleanPacket, [Next]_vars PROVE packet' = "clean"
  BY DEF CleanPacket
<1> USE DEF CleanPacket
<1>1. CASE EndStep \/ EditStep
  BY <1>1, EndFrame
<1>2. CASE Reconcile
  <2>1. OwnersApart /\ only \subseteq known /\ \A k \in Keys : Destined(k) = entries[k]
    BY <1>2 DEF IInv, Base, RunInv, Reconcile, OwnerInv, Running, Planned, Destined
  <2>2. \A k \in Moved : k \in RunKeys /\ k \in Keys /\ entries[k] # NoUuid /\ k[1] \in known
    BY <2>1, BoundsAssumption DEF Moved, RunKeys, Live, Uuids, NoUuid
  <2>3. ~NamedTwice
    BY <2>1, <2>2 DEF NamedTwice, OwnersApart
  <2> QED BY <1>2, <2>3 DEF Reconcile
<1>3. CASE ~(EndStep \/ EditStep \/ Reconcile)
  BY <1>3 DEF Next, Start, EndStep, EditStep, DecideAdoption, AdoptLive, ForgetKey,
     MoveComponents, ClaimUnowned, Delete, DeleteRefused, RemoveByIds, DrawBatch,
     DrawBatchRetried, RecordCreated, Finish, planVars, vars
<1> QED BY <1>1, <1>2, <1>3

LEMMA PacketAlways ==
  ASSUME Orderly
  PROVE  Spec => [](IInv /\ CleanPacket)
<1>1. Init => CleanPacket
  BY DEF Init, CleanPacket
<1> QED BY <1>1, PacketStep, OwnerAlways, PTL DEF Spec

\* No packet names a uuid twice, so KiCad never refuses one for that: it takes
\* a run that died between two saves of a shifted list.
THEOREM PacketsClean ==
  ASSUME Orderly
  PROVE  Spec => []CleanPacket
BY PacketAlways, PTL

\* What is still to be drawn or recorded has no item yet, one pair each, and
\* what the registry knew when the run began it knows, or is about to delete.
Tracked ==
  /\ \A p, q \in pending : p[1] = q[1] => p = q
  /\ pc \in {"delete", "draw", "record"} =>
       \A k \in Keys : k \in todo \/ (\E p \in pending : p[1] = k) => file[k] = NoUuid
  /\ \A p \in pending : p[1] \notin todo
  /\ ~AtRest => \A u \in heldBefore \cap Live : u \in Held(file) \/ u \in doomed
  /\ pc = "done" => heldBefore \cap Live \subseteq Held(file)

TrackInv ==
  /\ \A u \in heldBefore : u < next
  /\ drops = {} /\ \A c \in binds : file[c[1]] \notin Live
  /\ refused = 0 => Tracked

\* What a step makes of the plans of an adoption pass that only binds keys
\* whose items are gone.
LEMMA BindsTrack ==
  ASSUME FixedSlots, IInv, TrackInv, Next
  PROVE  drops' = {} /\ \A c \in binds' : file'[c[1]] \notin Live'
<1> USE DEF IInv, Base
<1>1. CASE DecideAdoption
  <2>1. entries = file /\ file' = file /\ board' = board
    BY <1>1 DEF DecideAdoption, RunInv, Running, AtRest, boardVars
  <2>2. \A a : Shifted(entries, a) = {}
    BY <2>1, NothingShifts DEF RunInv
  <2>3. drops' = {}
    BY <1>1, <2>2 DEF DecideAdoption, Forgotten
  <2>4. \A c \in binds' : entries[c[1]] \notin Live
    BY <1>1, <2>2, DecideFrame DEF Released
  <2> QED BY <2>1, <2>3, <2>4 DEF Live
<1>2. CASE AdoptLive
  <2>1. PICK c \in binds : Save([entries EXCEPT ![c[1]] = c[2]]) /\ binds' = binds \ {c}
    BY <1>2 DEF AdoptLive
  <2>2. drops' = drops /\ entries = file /\ board' = board /\ BindsApart
    BY <1>2 DEF AdoptLive, RunInv, Running, AtRest, boardVars, OwnerInv
  <2>3. \A d \in binds' : d \in binds /\ d[1] # c[1] /\ d[1] \in Keys
    BY <2>1, <2>2 DEF BindsApart, RunKeys
  <2> QED BY <2>1, <2>2, <2>3 DEF TrackInv, Save, Live, TypeInv, TypeOK
<1>3. CASE EndStep \/ EditStep
  BY <1>3, EndFrame
<1>4. CASE ~(DecideAdoption \/ AdoptLive \/ EndStep \/ EditStep)
  <2>1. drops' = {}
    BY <1>4 DEF Next, EndStep, EditStep, Start, ForgetKey, MoveComponents,
       ClaimUnowned, Reconcile, Delete, DeleteRefused, RemoveByIds, DrawBatch, DrawBatchRetried,
       RecordCreated, Finish, planVars, TrackInv
  <2>2. binds' = {} \/ (binds' = binds /\ file' = file)
    <3>1. CASE \E sel, rig \in SUBSET known : Start(sel, rig)
      BY <3>1 DEF Start, planVars
    <3>2. CASE RunStep
      BY <1>4, <3>2, <2>1, RunningStep
         DEF RunStep, ForgetKey, MoveComponents, ClaimUnowned, Reconcile, Delete, DeleteRefused,
         RemoveByIds, DrawBatch, DrawBatchRetried, RecordCreated, Finish, planVars, RunInv, Planned,
         TrackInv
    <3> QED BY <1>4, <3>1, <3>2, NextSplit
  <2>3. ASSUME NEW c \in binds, file' = file PROVE file'[c[1]] \notin Live'
    <3>1. c[1] \in Keys /\ file[c[1]] \in Uuids \cup {NoUuid} /\ file[c[1]] < next
      BY DEF RunInv, FreshUuids, TypeInv, TypeOK
    <3> QED BY <2>3, <3>1, OldStays DEF TrackInv, Live
  <2> QED BY <2>1, <2>2, <2>3
<1> QED BY <1>1, <1>2, <1>3, <1>4

LEMMA HeldTrack ==
  ASSUME IInv, TrackInv, Next
  PROVE  \A u \in heldBefore' : u < next'
<1> USE DEF IInv, Base, RunInv
<1>1. next <= next' /\ next \in Nat /\ next' \in Nat
  <2>1. next \in Nat /\ next' \in Nat
    BY TypeStep, BoundsAssumption DEF TypeInv, TypeOK
  <2>2. CASE DrawBatch \/ DrawBatchRetried \/ DrawBatchRaises
    <3>1. PICK b \in SUBSET Keys, new \in SUBSET (Keys \X Uuids) : Drawing(b, new)
      BY <2>2, DrawFrame
    <3> QED BY <2>1, <3>1 DEF Drawing
  <2>3. CASE ~(DrawBatch \/ DrawBatchRetried \/ DrawBatchRaises)
    BY <2>1, <2>3, BoardFrame DEF HandDraw
  <2> QED BY <2>1, <2>2, <2>3
<1>2. \A u \in heldBefore' : u \in heldBefore \/ \E k \in Keys : u = file[k]
  BY RunFrame, EndFrame, NextSplit DEF Start, Held
<1>3. \A u \in Uuids : u \in Nat
  BY BoundsAssumption DEF Uuids
<1>4. \A u \in heldBefore' : u \in Nat
  BY <1>3, TypeStep DEF TypeInv, TypeOK
<1> QED BY <1>1, <1>2, <1>4 DEF TrackInv, FreshUuids

LEMMA TrackedStep ==
  ASSUME FixedSlots, IInv, TrackInv, CleanPacket, Next, refused' = 0
  PROVE  Tracked'
<1> USE DEF IInv, Base
<1>1. /\ Tracked /\ ~DrawBatchRetried /\ ~DrawBatchRaises /\ ~DeleteRefused
  BY RefusedFrame DEF TrackInv, CleanPacket
<1>2. \A u \in heldBefore : u \in Live' => u \in Live
  BY OldStays DEF TrackInv, TypeInv, TypeOK
<1>3. ASSUME NEW sel \in SUBSET known, NEW rig \in SUBSET sel, Start(sel, rig)
      PROVE  Tracked'
  BY <1>3 DEF Start, Tracked, AtRest, planVars, RunInv, Planned
<1>4. CASE EndStep \/ EditStep
  BY <1>4, EndFrame DEF Tracked
<1>5. CASE DecideAdoption \/ MoveComponents
  <2>1. /\ pc \in {"adopt", "bind"} /\ pc' \in {"bind", "claim"} /\ file' = file
        /\ pending' = pending /\ pending = {} /\ doomed' = doomed /\ heldBefore' = heldBefore
    BY <1>5, RunFrame DEF RunStep, DecideAdoption, MoveComponents, planVars, RunInv, Planned
  <2> QED BY <1>1, <1>2, <2>1 DEF Tracked, AtRest, Held
<1>6. CASE AdoptLive
  <2>1. PICK c \in binds : Save([entries EXCEPT ![c[1]] = c[2]])
    BY <1>6 DEF AdoptLive
  <2>2. /\ pc = "bind" /\ pc' = "bind" /\ pending' = {} /\ doomed = {}
        /\ heldBefore' = heldBefore /\ entries = file
    BY <1>6, RunFrame DEF RunStep, AdoptLive, RunInv, Running, Planned, AtRest
  <2>3. \A k \in Keys : k # c[1] => file'[k] = file[k]
    BY <2>1, <2>2 DEF Save, TypeInv, TypeOK
  <2>4. ASSUME NEW u \in heldBefore, u \in Live' PROVE u \in Held(file')
    <3>1. PICK k \in Keys : u = file[k] /\ u # NoUuid
      BY <1>1, <1>2, <2>2, <2>4 DEF Tracked, AtRest, Held
    <3>2. k # c[1]
      BY <1>2, <2>4, <3>1 DEF TrackInv
    <3> QED BY <2>3, <3>1, <3>2 DEF Held
  <2> QED BY <2>2, <2>4 DEF Tracked, AtRest, Held
<1>7. CASE ForgetKey
  BY <1>7 DEF ForgetKey, TrackInv
<1>8. CASE ClaimUnowned
  <2>1. /\ pc = "claim" /\ pc' = "reconcile" /\ file' = entries' /\ entries = file
        /\ pending' = {} /\ doomed = {} /\ heldBefore' = heldBefore
        /\ \A k \in Keys : entries'[k] = entries[k] \/ entries[k] = NoUuid
    BY <1>8, RunFrame, ClaimFrame DEF RunStep, RunInv, Running, Planned, AtRest
  <2>2. ASSUME NEW u \in heldBefore, u \in Live' PROVE u \in Held(file')
    <3>1. PICK k \in Keys : u = file[k] /\ u # NoUuid
      BY <1>1, <1>2, <2>1, <2>2 DEF Tracked, AtRest, Held
    <3> QED BY <2>1, <3>1 DEF Held
  <2> QED BY <2>1, <2>2 DEF Tracked, AtRest, Held
\* What a key of the plan gives up is deleted, or is another key's by now.
<1>9. CASE Reconcile
  <2>1. /\ pc = "reconcile" /\ pc' = "delete" /\ entries = file /\ file' = AfterPrune
        /\ pending' = {} /\ doomed = {} /\ doomed' = ToDelete /\ todo' = ToDraw
        /\ heldBefore' = heldBefore
    BY <1>9, RunFrame DEF RunStep, Reconcile, Save, RunInv, Running, Planned, AtRest
  <2>2. ASSUME NEW u \in heldBefore, u \in Live' PROVE u \in Held(AfterPrune) \/ u \in ToDelete
    <3>1. PICK k \in Keys : u = entries[k] /\ u # NoUuid /\ u \in Live
      BY <1>1, <1>2, <2>1, <2>2 DEF Tracked, AtRest, Held
    <3>2. CASE k \in ToDraw
      BY <3>1, <3>2 DEF ToDraw, Moved, ToDelete
    <3>3. CASE k \in Stale /\ \E x \in RunKeys : AfterPlanned[x] = u
      <4>1. PICK x \in RunKeys : AfterPlanned[x] = u
        BY <3>3
      <4>2. x \in Keys /\ AfterPrune[x] = u
        BY <4>1 DEF RunKeys, Stale, AfterPrune
      <4> QED BY <3>1, <4>2 DEF Held
    <3>4. CASE k \in Stale /\ ~\E x \in RunKeys : AfterPlanned[x] = u
      BY <3>1, <3>4 DEF ToDelete
    <3>5. CASE k \notin ToDraw /\ k \notin Stale
      BY <3>1, <3>5 DEF Held, AfterPrune, AfterPlanned
    <3> QED BY <3>2, <3>3, <3>4, <3>5
  <2>3. \A k \in Keys : k \in ToDraw => AfterPrune[k] = NoUuid
    BY DEF AfterPrune, AfterPlanned
  <2> QED BY <2>1, <2>2, <2>3 DEF Tracked, AtRest, Held
<1>10. CASE Delete
  <2>1. /\ pc = "delete" /\ pc' = "draw" /\ file' = file /\ todo' \subseteq todo
        /\ pending' = {} /\ heldBefore' = heldBefore /\ \A u \in doomed : u \notin Live'
    BY <1>10, RunFrame DEF RunStep, Delete, RemoveByIds, RunInv, Planned, Live, Missing
  <2> QED BY <1>1, <1>2, <2>1 DEF Tracked, AtRest, Held
<1>11. CASE DrawBatch
  <2>1. PICK b \in SUBSET Keys, new \in SUBSET (Keys \X Uuids) :
          /\ Drawing(b, new) /\ AllDrawn(b, new) /\ pc' = "record" /\ doomed' = doomed
    BY <1>1, <1>11, DrawFrame
  <2>2. /\ pc = "draw" /\ file' = file /\ heldBefore' = heldBefore /\ b \subseteq todo
        /\ todo' = todo \ b /\ pending' = new /\ \A p \in new : p[1] \in b
        /\ \A p, q \in new : p[1] = q[1] => p = q
    BY <1>1, <1>11, <2>1, RunFrame, DrawFrame DEF RunStep, Drawing, AllDrawn
  <2> QED BY <1>1, <1>2, <2>1, <2>2 DEF Tracked, AtRest, Held
<1>12. CASE RecordCreated
  <2>1. PICK p \in pending :
          /\ p[1] \in Keys /\ pending' = pending \ {p} /\ file' = entries'
          /\ \A k \in Keys : entries'[k] = IF k = p[1] THEN p[2] ELSE entries[k]
          /\ pc = "record" /\ pc' \in {"draw", "record"} /\ doomed' = doomed /\ todo' = todo
    BY <1>12, RecordFrame
  <2>2. heldBefore' = heldBefore /\ entries = file /\ file[p[1]] = NoUuid
    BY <1>1, <1>12, <2>1, RunFrame DEF RunStep, RunInv, Running, AtRest, Tracked
  <2>3. \A k \in Keys : file[k] # NoUuid => file'[k] = file[k]
    BY <2>1, <2>2
  <2>4. \A k \in Keys : k \in todo' \/ (\E q \in pending' : q[1] = k) => k # p[1]
    BY <1>1, <2>1 DEF Tracked
  <2>5. \A k \in Keys : k \in todo' \/ (\E q \in pending' : q[1] = k) => file'[k] = NoUuid
    BY <1>1, <2>1, <2>2, <2>4 DEF Tracked
  <2>6. Held(file) \subseteq Held(file')
    BY <2>3 DEF Held
  <2>7. \A q, r \in pending' : q[1] = r[1] => q = r
    BY <1>1, <2>1 DEF Tracked
  <2>8. \A q \in pending' : q[1] \notin todo'
    BY <1>1, <2>1 DEF Tracked
  <2>9. \A u \in heldBefore \cap Live' : u \in Held(file') \/ u \in doomed'
    BY <1>1, <1>2, <2>1, <2>2, <2>6 DEF Tracked, AtRest
  <2> QED BY <2>1, <2>2, <2>5, <2>7, <2>8, <2>9 DEF Tracked, AtRest, Held
<1>13. CASE Finish
  <2>1. /\ pc = "draw" /\ pc' = "done" /\ file' = file /\ pending' = {} /\ doomed = {}
        /\ heldBefore' = heldBefore
    BY <1>13, RunFrame DEF RunStep, Finish, planVars, RunInv, Planned
  <2> QED BY <1>1, <1>2, <2>1 DEF Tracked, AtRest, Held
<1> QED
  BY <1>1, <1>3, <1>4, <1>5, <1>6, <1>7, <1>8, <1>9, <1>10, <1>11, <1>12, <1>13, NextSplit
     DEF RunStep

LEMMA TrackStep ==
  ASSUME FixedSlots
  PROVE  IInv /\ CleanPacket /\ TrackInv /\ [Next]_vars => TrackInv'
<1>1. CASE IInv /\ CleanPacket /\ TrackInv /\ Next
  BY <1>1, BindsTrack, HeldTrack, TrackedStep DEF TrackInv
<1>2. CASE TrackInv /\ UNCHANGED vars
  BY <1>2 DEF vars, TrackInv, Tracked, AtRest, Held, Live
<1> QED BY <1>1, <1>2

\* As long as no call was refused, a run never loses sight of copper the
\* registry knew when the run began: where every number keeps its slot, what
\* is still on the board is held by a key.
THEOREM KeepsTrackHolds ==
  ASSUME Orderly, FixedSlots
  PROVE  Spec => []KeepsTrack
<1>1. Init => TrackInv
  BY DEF Init, TrackInv, Tracked, AtRest
<1>2. TrackInv => KeepsTrack
  BY DEF TrackInv, Tracked, KeepsTrack
<1> QED BY <1>1, <1>2, TrackStep, PacketAlways, PTL DEF Spec

-----------------------------------------------------------------------------
(* No second item at a place, however often runs die and are repeated.     *)

\* No list puts two records into one slot.
Spread == \A l \in Layouts, i, j \in Indices : l[i] = l[j] => i = j \/ l[i] = NoSlot

\* No two items the tool drew lie at one place, and what is about to be drawn
\* has no item in place yet.
Single ==
  /\ \A u, v \in drawn \cap Live : board[u] = board[v] => u = v
  /\ pc \in {"draw", "record"} => \A k \in todo : ~Planted(k)

SingleInv == refused = 0 => Single

\* Two records of one cluster never lie at one place.
LEMMA PlacesApart ==
  ASSUME TypeInv, cell \in Cells, OneCluster, Spread, NEW j \in RunKeys, NEW k \in RunKeys,
         PlaceOf(j, target) = PlaceOf(k, target)
  PROVE  j = k
<1>1. /\ j \in Keys /\ k \in Keys /\ cell[j] # NoSlot /\ cell[j] = cell[k]
  BY DEF RunKeys, PlaceOf
<1>2. /\ j[1] \in Anchors /\ j[2] \in Indices /\ j = <<j[1], j[2]>>
      /\ k[1] \in Anchors /\ k[2] \in Indices /\ k = <<k[1], k[2]>>
      /\ j[1] = k[1]
  BY <1>1 DEF Keys, OneCluster
<1> DEFINE l == [i \in Indices |-> cell[<<j[1], i>>]]
<1>3. l \in Layouts
  BY <1>2 DEF Cells
<1>4. l[j[2]] = cell[j] /\ l[k[2]] = cell[k]
  BY <1>2
<1>5. j[2] = k[2]
  <2> HIDE DEF l
  <2> QED BY <1>1, <1>2, <1>3, <1>4 DEF Spread
<1> QED BY <1>2, <1>5

LEMMA DrawSingle ==
  ASSUME OneCluster, Spread, Base, Single, DrawBatch, ~DrawBatchRaises, refused' = 0
  PROVE  Single'
<1> USE DEF Base, RunInv
<1>1. PICK b \in SUBSET Keys, new \in SUBSET (Keys \X Uuids) :
        Drawing(b, new) /\ AllDrawn(b, new) /\ pc' = "record"
  BY DrawFrame
<1>2. /\ \A k : PlaceOf(k, target)' = PlaceOf(k, target)
      /\ todo' = todo \ b /\ b \subseteq todo /\ todo \subseteq RunKeys /\ pc = "draw"
  BY <1>1, PlaceStays, DrawFrame DEF RunStep, Drawing, AllDrawn, TypeInv, TodoPlanned
<1>3. next \in Nat /\ \A u \in Uuids : u \in Nat
  BY BoundsAssumption DEF TypeInv, TypeOK, Uuids
\* What lies on the board afterwards was there, or was drawn for a record of b.
<1>4. ASSUME NEW u \in Live'
      PROVE  \/ u \in Live /\ board'[u] = board[u] /\ u < next
             \/ \E p \in new : u = p[2] /\ p[1] \in b /\ board'[u] = PlaceOf(p[1], target)
  <2>1. u \in Uuids /\ board'[u] # NoPlace
    BY DEF Live
  <2>2. CASE board'[u] = board[u]
    BY <2>1, <2>2, LiveIsOld DEF Live
  <2>3. CASE \E p \in new : u = p[2] /\ board'[u] = PlaceOf(p[1], target)
    BY <1>1, <2>3 DEF Drawing
  <2> QED BY <1>1, <2>1, <2>2, <2>3 DEF Drawing
<1>5. ASSUME NEW u \in Live', u \in drawn'
      PROVE  \/ u \in Live /\ board'[u] = board[u] /\ u \in drawn
             \/ \E p \in new : u = p[2] /\ p[1] \in b /\ board'[u] = PlaceOf(p[1], target)
  <2>1. u \in drawn \/ \E p \in new : u = p[2] /\ next <= u
    BY <1>1, <1>5 DEF Drawing
  <2>2. u \in Nat
    BY <1>3 DEF Live
  <2>3. ~(u < next /\ next <= u)
    BY <1>3, <2>2
  <2> QED BY <1>4, <2>1, <2>3
<1>6. ASSUME NEW u \in Live, NEW k \in b PROVE board[u] # PlaceOf(k, target)
  BY <1>2 DEF Single, Planted
<1>7. ASSUME NEW u \in drawn' \cap Live', NEW v \in drawn' \cap Live', board'[u] = board'[v]
      PROVE  u = v
  <2>1. CASE u \in Live /\ board'[u] = board[u] /\ u \in drawn
    <3>1. CASE v \in Live /\ board'[v] = board[v] /\ v \in drawn
      BY <1>7, <2>1, <3>1 DEF Single
    <3>2. CASE \E p \in new : v = p[2] /\ p[1] \in b /\ board'[v] = PlaceOf(p[1], target)
      BY <1>6, <1>7, <2>1, <3>2
    <3> QED BY <1>5, <3>1, <3>2
  <2>2. CASE \E p \in new : u = p[2] /\ p[1] \in b /\ board'[u] = PlaceOf(p[1], target)
    <3>1. PICK p \in new : u = p[2] /\ p[1] \in b /\ board'[u] = PlaceOf(p[1], target)
      BY <2>2
    <3>2. CASE v \in Live /\ board'[v] = board[v]
      BY <1>6, <1>7, <3>1, <3>2
    <3>3. ASSUME NEW q \in new, v = q[2], q[1] \in b, board'[v] = PlaceOf(q[1], target)
          PROVE  u = v
      <4>1. p[1] = q[1]
        BY <1>2, <1>7, <3>1, <3>3, PlacesApart DEF Slotted
      <4> QED BY <1>1, <3>1, <3>3, <4>1 DEF AllDrawn
    <3> QED BY <1>5, <3>2, <3>3
  <2> QED BY <1>5, <2>1, <2>2
<1>8. ASSUME NEW k \in todo', NEW u \in Live', board'[u] = PlaceOf(k, target)
      PROVE  FALSE
  <2>1. k \in todo /\ k \in RunKeys /\ k \notin b
    BY <1>2
  <2>2. CASE u \in Live /\ board'[u] = board[u]
    BY <1>2, <1>8, <2>1, <2>2 DEF Single, Planted
  <2>3. ASSUME NEW p \in new, p[1] \in b, board'[u] = PlaceOf(p[1], target) PROVE FALSE
    <3>1. p[1] = k
      BY <1>2, <1>8, <2>1, <2>3, PlacesApart DEF Slotted
    <3> QED BY <2>1, <2>3, <3>1
  <2> QED BY <1>4, <2>2, <2>3
<1>9. \A k \in todo' : ~Planted(k)'
  BY <1>2, <1>8 DEF Planted
<1> QED BY <1>7, <1>9 DEF Single

LEMMA SingleStep ==
  ASSUME OneCluster, Spread
  PROVE  IInv /\ CleanPacket /\ SingleInv /\ [Next]_vars => SingleInv'
<1> SUFFICES ASSUME IInv, CleanPacket, SingleInv, [Next]_vars, refused' = 0 PROVE Single'
  BY DEF SingleInv
<1> USE DEF IInv, Base
<1>1. CASE UNCHANGED vars
  BY <1>1 DEF vars, SingleInv, Single, Planted, PlaceOf, Live
<1>2. CASE Next
  <2>1. /\ Single /\ ~DrawBatchRetried /\ ~DrawBatchRaises /\ ~DeleteRefused
    BY <1>2, RefusedFrame DEF SingleInv, CleanPacket
  <2>2. CASE DrawBatch
    BY <1>2, <2>1, <2>2, DrawSingle
  <2>3. CASE ~DrawBatch
    <3>1. \A u \in drawn' : u \in drawn /\ u \in Uuids /\ u < next
      BY <1>2, <2>1, <2>3, BoardFrame DEF HandDraw, RunInv, FreshUuids, TypeInv, TypeOK
    <3>2. \A u, v \in drawn' \cap Live' : board'[u] = board'[v] => u = v
      BY <1>2, <2>1, <3>1, OldStays DEF Single
    <3>3. CASE Delete
      <4>1. /\ \A u \in Live' : u \in Live \ doomed /\ board'[u] = board[u]
            /\ todo' = Missing(todo, doomed)
            /\ \A k : PlaceOf(k, target)' = PlaceOf(k, target)
        BY <3>3, PlaceStays DEF RunStep, Delete, RemoveByIds, Live, TypeInv, TypeOK
      <4>2. \A k \in todo' : ~Planted(k)'
        BY <4>1 DEF Missing, Planted
      <4> QED BY <3>2, <4>2 DEF Single
    <3>4. CASE RecordCreated
      <4>1. pc = "record" /\ todo' = todo /\ board' = board
        BY <3>4, RecordFrame
      <4>2. \A k : PlaceOf(k, target)' = PlaceOf(k, target)
        BY <3>4, PlaceStays DEF RunStep
      <4> QED BY <2>1, <3>2, <4>1, <4>2 DEF Single, Planted, Live
    <3>5. CASE ~(Delete \/ RecordCreated)
      <4>1. pc' \notin {"draw", "record"}
        BY <1>2, <2>1, <2>3, <3>5, EndFrame, NextSplit
           DEF RunStep, Start, DecideAdoption, AdoptLive, ForgetKey, MoveComponents,
               ClaimUnowned, Reconcile, Finish
      <4> QED BY <3>2, <4>1 DEF Single
    <3> QED BY <3>3, <3>4, <3>5
  <2> QED BY <2>2, <2>3
<1> QED BY <1>1, <1>2

\* However often runs die and are repeated, a completed run leaves no place
\* with two items drawn by the tool, as long as KiCad refused no call and lost
\* no reply: in one cluster none of whose lists puts two records into one slot.
THEOREM NoDuplicatesHolds ==
  ASSUME Orderly, OneCluster, Spread
  PROVE  Spec => []NoDuplicates
<1>1. Init => SingleInv
  BY DEF Init, SingleInv, Single
<1>2. SingleInv => NoDuplicates
  BY DEF SingleInv, Single, NoDuplicates
<1> QED BY <1>1, <1>2, SingleStep, PacketAlways, PTL DEF Spec
=============================================================================
