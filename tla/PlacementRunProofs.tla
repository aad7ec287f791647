------------------------- MODULE PlacementRunProofs -------------------------
(***************************************************************************)
(* What holds of PlacementRun for every number of footprints, trees,       *)
(* points, runs, refused commits and runs that stop in the middle.         *)
(***************************************************************************)
EXTENDS PlacementRun, FiniteSetTheorems, WellFoundedInduction, SequenceTheorems, TLAPS

-----------------------------------------------------------------------------
(* Chains of points.                                                       *)

\* Induction, for a set of numbers.
LEMMA UpTo ==
  ASSUME NEW m \in Nat, NEW T, 0 \in T, \A n \in 1 .. m : n - 1 \in T => n \in T
  PROVE  0 .. m \subseteq T
<1> SUFFICES ASSUME NEW z \in 0 .. m, z \notin T PROVE FALSE
  OBVIOUS
<1> DEFINE below == {1 .. n : n \in (0 .. m) \ T}
<1>1. below \subseteq FiniteSubsetsOf(Nat) /\ below # {}
  <2>1. ASSUME NEW n \in 0 .. m PROVE 1 .. n \in SUBSET Nat /\ IsFiniteSet(1 .. n)
    <3>1. n \in Int /\ 1 \in Int
      OBVIOUS
    <3>2. 1 .. n \in SUBSET Nat
      BY <3>1
    <3> QED BY <3>1, <3>2, FS_Interval
  <2> QED BY <2>1 DEF FiniteSubsetsOf
<1>2. PICK b \in below : \A c \in below : ~(<<c, b>> \in StrictSubsetOrdering(Nat))
  <2> HIDE DEF below
  <2> QED BY <1>1, FS_StrictSubsetOrderingWellFounded, WFMin
<1>3. PICK x \in (0 .. m) \ T : b = 1 .. x
  BY <1>2
<1>4. x - 1 \in (0 .. m) \ T
  BY <1>3
<1>5. 1 .. (x - 1) \in below /\ 1 .. (x - 1) \subseteq 1 .. x /\ x \in 1 .. x
      /\ x \notin 1 .. (x - 1)
  BY <1>4
<1>6. <<1 .. (x - 1), b>> \in StrictSubsetOrdering(Nat)
  BY <1>5, <1>1, <1>3 DEF StrictSubsetOrdering
<1> QED BY <1>5, <1>6, <1>2

LEMMA PointsCount == Cardinality(Points) \in Nat
BY PlacementAssumption, FS_CardinalityType

NoChains == [q \in Points |-> {}]

\* The recursion of Chains has a solution.
LEMMA ChainsAre ==
  ASSUME NEW at
  PROVE  Chains(at) = [n \in 0 .. Cardinality(Points) |->
                         Hung(IF n = 0 THEN NoChains ELSE Chains(at)[n - 1], at)]
<1> DEFINE Good(f, m) == f = [n \in 0 .. m |-> Hung(IF n = 0 THEN NoChains ELSE f[n - 1], at)]
           T == {m \in Nat : \E f : Good(f, m)}
           N == Cardinality(Points)
<1>1. N \in Nat
  BY PointsCount
<1>2. 0 \in T
  <2> DEFINE f == [n \in 0 .. 0 |-> Hung(NoChains, at)]
  <2>1. \A n \in 0 .. 0 : n = 0
    OBVIOUS
  <2>2. Good(f, 0)
    BY <2>1
  <2> QED BY <2>2
<1>3. ASSUME NEW m \in 1 .. N, m - 1 \in T PROVE m \in T
  <2>1. PICK f : Good(f, m - 1)
    BY <1>3
  <2> DEFINE g == [n \in 0 .. m |-> IF n = m THEN Hung(f[m - 1], at) ELSE f[n]]
  <2>2. ASSUME NEW n \in 0 .. m
        PROVE  g[n] = Hung(IF n = 0 THEN NoChains ELSE g[n - 1], at)
    <3>1. n # 0 => n - 1 \in 0 .. m /\ n - 1 # m /\ g[n - 1] = f[n - 1]
      OBVIOUS
    <3>2. CASE n = m
      <4>1. n # 0 /\ g[n] = Hung(f[n - 1], at)
        BY <3>2
      <4> HIDE DEF g
      <4> QED BY <3>1, <4>1
    <3>3. CASE n # m
      <4>1. n \in 0 .. (m - 1) /\ g[n] = f[n]
        BY <3>3
      <4>2. f[n] = Hung(IF n = 0 THEN NoChains ELSE f[n - 1], at)
        BY <4>1, <2>1
      <4> HIDE DEF g
      <4> QED BY <3>1, <4>1, <4>2
    <3> QED BY <3>2, <3>3
  <2>3. DOMAIN g = 0 .. m /\ g = [n \in 0 .. m |-> g[n]]
    OBVIOUS
  <2>4. Good(g, m)
    <3> HIDE DEF g
    <3> QED BY <2>2, <2>3
  <2> HIDE DEF g
  <2> QED BY <2>4, <1>1
<1>4. N \in T
  <2> HIDE DEF T
  <2>1. 0 .. N \subseteq T
    BY <1>1, <1>2, <1>3, UpTo
  <2> QED BY <1>1, <2>1
<1>5. \E f : Good(f, N)
  BY <1>4
<1>6. Chains(at) = CHOOSE f : Good(f, N)
  BY DEF Chains, NoChains
<1> HIDE DEF Good
<1>7. Good(Chains(at), N)
  BY <1>5, <1>6
<1> QED BY <1>7 DEF Good

LEMMA ChainsOf ==
  ASSUME NEW at
  PROVE  /\ Chains(at)[0] = Hung(NoChains, at)
         /\ \A n \in 1 .. Cardinality(Points) : Chains(at)[n] = Hung(Chains(at)[n - 1], at)
<1>1. 0 \in 0 .. Cardinality(Points)
      /\ \A n \in 1 .. Cardinality(Points) : n \in 0 .. Cardinality(Points) /\ n # 0
  BY PointsCount
<1> QED BY <1>1, ChainsAre

\* The configuration, which no step changes.
Config ==
  /\ parts \in [Trees -> SUBSET Refs] /\ base \in [Trees -> {Origin} \cup Refs \cup Points]
  /\ on \in [Points -> {Origin} \cup Refs \cup Points]
  /\ fixed \subseteq Refs /\ home \in [Refs -> {Origin} \cup Refs \cup Points]

Boards == [Refs -> Places]

LEMMA Put ==
  ASSUME NEW x \in Items \cup Refs, NEW s \in Places
  PROVE  /\ <<x>> \o s \in Places /\ Len(<<x>> \o s) >= 1
         /\ Len(s) >= 1 => (<<x>> \o s)[Len(<<x>> \o s)] = s[Len(s)]
<1>1. <<x>> \in Places /\ Len(<<x>>) = 1 /\ Len(s) \in Nat
  BY DEF Places, Items
<1>2. /\ <<x>> \o s \in Places /\ Len(<<x>> \o s) = 1 + Len(s)
      /\ \A i \in 1 .. 1 + Len(s) : (<<x>> \o s)[i] = IF i <= 1 THEN <<x>>[i] ELSE s[i - 1]
  BY <1>1, ConcatProperties DEF Places
<1> QED BY <1>1, <1>2

\* A chain is in one place at most.
One(c) == c \in SUBSET Places /\ (\A x, y \in c : x = y) /\ \A x \in c : Len(x) >= 1

LEMMA HungOne ==
  ASSUME Config, NEW at \in Boards, NEW above, \A q \in Points : One(above[q])
  PROVE  \A q \in Points : One(Hung(above, at)[q])
<1> SUFFICES ASSUME NEW q \in Points PROVE One(Hung(above, at)[q])
  OBVIOUS
<1>1. on[q] \in {Origin} \cup Refs \cup Points /\ q \in Items
  BY DEF Config, Items
<1>2. CASE on[q] = Origin
  <2>1. Hung(above, at)[q] = {<<q, Origin>>}
    BY <1>2 DEF Hung
  <2>2. <<q, Origin>> \in Places /\ Len(<<q, Origin>>) = 2
    BY <1>1 DEF Places
  <2> QED BY <2>1, <2>2 DEF One
<1>3. CASE on[q] # Origin /\ on[q] \in Refs
  <2>1. /\ Hung(above, at)[q] = IF q \in broken THEN {} ELSE {<<q>> \o at[on[q]]}
        /\ at[on[q]] \in Places
    BY <1>3 DEF Hung, Boards
  <2>2. <<q>> \o at[on[q]] \in Places /\ Len(<<q>> \o at[on[q]]) >= 1
    BY <1>1, <2>1, Put
  <2> QED BY <2>1, <2>2 DEF One
<1>4. CASE on[q] # Origin /\ on[q] \notin Refs
  <2>1. on[q] \in Points /\ Hung(above, at)[q] = {<<q>> \o s : s \in above[on[q]]}
    BY <1>1, <1>4 DEF Hung
  <2>2. One(above[on[q]])
    BY <2>1
  <2>3. \A s \in above[on[q]] : <<q>> \o s \in Places /\ Len(<<q>> \o s) >= 1
    BY <1>1, <2>2, Put DEF One
  <2>4. \A x, y \in Hung(above, at)[q] : x = y
    BY <2>1, <2>2, ZenonT(60) DEF One
  <2>5. \A x \in Hung(above, at)[q] : x \in Places /\ Len(x) >= 1
    BY <2>1, <2>3
  <2> QED BY <2>4, <2>5 DEF One
<1> QED BY <1>2, <1>3, <1>4

LEMMA ChainsOne ==
  ASSUME Config, NEW at \in Boards
  PROVE  \A n \in 0 .. Cardinality(Points) : \A q \in Points : One(Chains(at)[n][q])
<1> DEFINE N == Cardinality(Points)
           T == {n \in 0 .. N : \A q \in Points : One(Chains(at)[n][q])}
<1>1. N \in Nat
  BY PointsCount
<1>2. 0 \in T
  <2>1. \A q \in Points : One(NoChains[q])
    BY DEF NoChains, One
  <2> QED BY <1>1, <2>1, ChainsOf, HungOne
<1>3. ASSUME NEW n \in 1 .. N, n - 1 \in T PROVE n \in T
  BY <1>3, ChainsOf, HungOne
<1>4. 0 .. N \subseteq T
  <2> HIDE DEF T
  <2> QED BY <1>1, <1>2, <1>3, UpTo
<1> QED BY <1>4

\* The footprint at the end of a chain: <<q>> stands where q is in Ends.
Ends == [q \in Refs |-> <<q>>]
LastOf(c) == {r \in Refs : \E above \in c : r = above[Len(above)]}

LEMMA EndsBoard == Ends \in Boards
BY DEF Ends, Boards, Places

LEMMA HungLast ==
  ASSUME Config, NEW q \in Points, NEW above, on[q] \in Points, One(above[on[q]]), NEW at
  PROVE  LastOf(Hung(above, at)[q]) = LastOf(above[on[q]])
<1>1. on[q] # Origin /\ on[q] \notin Refs /\ q \in Items
  BY PlacementAssumption DEF Items
<1>2. Hung(above, at)[q] = {<<q>> \o s : s \in above[on[q]]}
  BY <1>1 DEF Hung
<1>3. \A s \in above[on[q]] : (<<q>> \o s)[Len(<<q>> \o s)] = s[Len(s)]
  BY <1>1, Put DEF One
<1> QED BY <1>2, <1>3 DEF LastOf

\* The boards `at` and `too` agree on the footprint the chain of q ends at, and
\* so, where q hangs on a point, do the chains of that point.
Agree(above, one, two, at, too, q) ==
  /\ on[q] \in Points =>
       /\ One(above[on[q]])
       /\ (\A r \in LastOf(above[on[q]]) : at[r] = too[r]) => one[on[q]] = two[on[q]]
  /\ \A r \in LastOf(Hung(above, Ends)[q]) : at[r] = too[r]

LEMMA HungDecided ==
  ASSUME Config, NEW at, NEW too, NEW above, NEW one, NEW two, NEW q \in Points,
         Agree(above, one, two, at, too, q)
  PROVE  Hung(one, at)[q] = Hung(two, too)[q]
<1> USE DEF Agree
<1>1. on[q] \in {Origin} \cup Refs \cup Points
  BY DEF Config
<1>2. CASE on[q] = Origin
  BY <1>2 DEF Hung
<1>3. CASE on[q] # Origin /\ on[q] \in Refs /\ q \in broken
  BY <1>3 DEF Hung
<1>5. CASE on[q] # Origin /\ on[q] \in Refs /\ q \notin broken
  <2>1. Hung(above, Ends)[q] = {<<q>> \o <<on[q]>>}
    BY <1>5 DEF Hung, Ends
  <2>2. (<<q>> \o <<on[q]>>)[Len(<<q>> \o <<on[q]>>)] = on[q]
    BY <1>5, Put DEF Places, Items
  <2>3. on[q] \in LastOf(Hung(above, Ends)[q])
    BY <1>5, <2>1, <2>2 DEF LastOf
  <2> QED BY <1>5, <2>3 DEF Hung
<1>4. CASE on[q] # Origin /\ on[q] \notin Refs
  <2>1. on[q] \in Points
    BY <1>1, <1>4
  <2>2. one[on[q]] = two[on[q]]
    BY <2>1, HungLast
  <2> QED BY <1>4, <2>2 DEF Hung
<1> QED BY <1>2, <1>3, <1>4, <1>5

\* Two boards that agree on the footprint at its end give a chain one place.
LEMMA ChainsDecided ==
  ASSUME Config, NEW at \in Boards, NEW too \in Boards
  PROVE  \A n \in 0 .. Cardinality(Points) : \A q \in Points :
           (\A r \in LastOf(Chains(Ends)[n][q]) : at[r] = too[r])
           => Chains(at)[n][q] = Chains(too)[n][q]
<1> DEFINE N == Cardinality(Points)
           Alike(n, q) == (\A r \in LastOf(Chains(Ends)[n][q]) : at[r] = too[r])
                          => Chains(at)[n][q] = Chains(too)[n][q]
           T == {n \in 0 .. N : \A q \in Points : Alike(n, q)}
<1>1. N \in Nat
  BY PointsCount
<1>2. 0 \in T
  <2> SUFFICES ASSUME NEW q \in Points PROVE Alike(0, q)
    BY <1>1
  <2>1. \A p \in Points : One(NoChains[p])
    BY DEF NoChains, One
  <2>2. ASSUME \A r \in LastOf(Hung(NoChains, Ends)[q]) : at[r] = too[r]
        PROVE  Hung(NoChains, at)[q] = Hung(NoChains, too)[q]
    <3>1. Agree(NoChains, NoChains, NoChains, at, too, q)
      BY <2>1, <2>2 DEF Agree
    <3> QED BY <3>1, HungDecided
  <2> QED BY <2>2, ChainsOf
<1>3. ASSUME NEW n \in 1 .. N, n - 1 \in T PROVE n \in T
  <2> SUFFICES ASSUME NEW q \in Points PROVE Alike(n, q)
    OBVIOUS
  <2>1. n - 1 \in 0 .. N
    BY <1>1
  <2>2. \A p \in Points : One(Chains(Ends)[n - 1][p]) /\ Alike(n - 1, p)
    BY <1>3, <2>1, EndsBoard, ChainsOne
  <2>3. /\ Chains(at)[n] = Hung(Chains(at)[n - 1], at)
        /\ Chains(too)[n] = Hung(Chains(too)[n - 1], too)
        /\ Chains(Ends)[n] = Hung(Chains(Ends)[n - 1], Ends)
    BY ChainsOf
  <2>4. ASSUME \A r \in LastOf(Chains(Ends)[n][q]) : at[r] = too[r]
        PROVE  Hung(Chains(at)[n - 1], at)[q] = Hung(Chains(too)[n - 1], too)[q]
    <3>1. \A r \in LastOf(Hung(Chains(Ends)[n - 1], Ends)[q]) : at[r] = too[r]
      BY <2>3, <2>4
    <3>2. \A p \in Points : One(Chains(Ends)[n - 1][p])
      BY <2>2
    <3>3. \A p \in Points :
            (\A r \in LastOf(Chains(Ends)[n - 1][p]) : at[r] = too[r])
            => Chains(at)[n - 1][p] = Chains(too)[n - 1][p]
      BY <2>2
    <3> DEFINE above == Chains(Ends)[n - 1]
               one == Chains(at)[n - 1]
               two == Chains(too)[n - 1]
    <3>4. on[q] \in Points =>
            /\ One(above[on[q]])
            /\ (\A r \in LastOf(above[on[q]]) : at[r] = too[r]) => one[on[q]] = two[on[q]]
      BY <3>2, <3>3
    <3>5. \A r \in LastOf(Hung(above, Ends)[q]) : at[r] = too[r]
      BY <3>1
    <3>6. Agree(above, one, two, at, too, q)
      BY <3>4, <3>5 DEF Agree
    <3> HIDE DEF T, Alike, above, one, two
    <3>7. Hung(one, at)[q] = Hung(two, too)[q]
      BY <3>6, HungDecided
    <3> QED BY <3>7 DEF above, one, two
  <2> QED BY <2>3, <2>4
<1>4. 0 .. N \subseteq T
  <2> HIDE DEF T
  <2> QED BY <1>1, <1>2, <1>3, UpTo
<1> QED BY <1>4

-----------------------------------------------------------------------------
(* Where a tree's entity belongs.                                          *)

LEMMA ChainPlaceOne ==
  ASSUME Config, NEW p \in Points, NEW at \in Boards
  PROVE  One(ChainPlace(p, at))
<1>1. Cardinality(Points) \in 0 .. Cardinality(Points)
  BY PointsCount
<1> QED BY <1>1, ChainsOne DEF ChainPlace

LEMMA AnchorBaseOne ==
  ASSUME Config, NEW b \in {Origin} \cup Refs \cup Points, NEW x \in Items \cup Refs,
         NEW at \in Boards
  PROVE  One({<<x>> \o above : above \in AnchorBase(b, at)})
<1>1. AnchorBase(b, at) \in SUBSET Places /\ \A y, z \in AnchorBase(b, at) : y = z
  <2>1. CASE b = Origin
    BY <2>1 DEF AnchorBase, Places
  <2>2. CASE b # Origin /\ b \in Refs
    BY <2>2 DEF AnchorBase, Boards
  <2>3. CASE b # Origin /\ b \notin Refs
    BY <2>3, ChainPlaceOne DEF AnchorBase, One
  <2> QED BY <2>1, <2>2, <2>3
<1> DEFINE put == {<<x>> \o above : above \in AnchorBase(b, at)}
<1>2. ASSUME NEW y \in put
      PROVE  y \in Places /\ Len(y) >= 1
  <2>1. PICK above \in AnchorBase(b, at) : y = <<x>> \o above
    BY <1>2
  <2> QED BY <1>1, <2>1, Put
<1>3. \A y, z \in put : y = z
  BY <1>1
<1> QED BY <1>2, <1>3 DEF One

LEMMA EntityPlaceOne ==
  ASSUME Config, NEW t \in Trees, NEW at \in Boards
  PROVE  One(EntityPlace(t, at))
<1>1. base[t] \in {Origin} \cup Refs \cup Points /\ t \in Items \cup Refs
  BY DEF Config, Items
<1>2. CASE Drifts(t)
  BY <1>2 DEF EntityPlace, One
<1>3. CASE ~Drifts(t)
  BY <1>1, <1>3, AnchorBaseOne DEF EntityPlace
<1> QED BY <1>2, <1>3

LEMMA FixedPlaceOne ==
  ASSUME Config, NEW r \in Refs, NEW at \in Boards
  PROVE  One(FixedPlace(r, at))
<1>1. home[r] \in {Origin} \cup Refs \cup Points /\ r \in Items \cup Refs
  BY DEF Config
<1>2. CASE r \in broken
  BY <1>2 DEF FixedPlace, One
<1>3. CASE r \notin broken
  BY <1>1, <1>3, AnchorBaseOne DEF FixedPlace
<1> QED BY <1>2, <1>3

\* Two boards that agree on what an anchor comes down to have it in one place.
LEMMA FootingDecides ==
  ASSUME Config, NEW b \in {Origin} \cup Refs \cup Points, NEW at \in Boards, NEW too \in Boards,
         \A r \in Footing(b) : at[r] = too[r]
  PROVE  AnchorBase(b, at) = AnchorBase(b, too)
<1>1. CASE b = Origin
  BY <1>1 DEF AnchorBase
<1>2. CASE b \in Refs
  <2>1. Footing(b) = {b}
    BY <1>2, PlacementAssumption DEF Footing
  <2> QED BY <1>2, <2>1, PlacementAssumption DEF AnchorBase
<1>3. CASE b \in Points
  <2>1. Footing(b) = LastOf(ChainPlace(b, Ends))
    BY <1>3 DEF Footing, LastOf, Ends
  <2>2. Cardinality(Points) \in 0 .. Cardinality(Points)
    BY PointsCount
  <2>3. ChainPlace(b, at) = ChainPlace(b, too)
    BY <1>3, <2>1, <2>2, ChainsDecided DEF ChainPlace
  <2> QED BY <1>3, <2>3, PlacementAssumption DEF AnchorBase
<1> QED BY <1>1, <1>2, <1>3

LEMMA ConfigKept ==
  ASSUME UNCHANGED configVars
  PROVE  /\ \A t \in Trees : \A at : EntityPlace(t, at)' = EntityPlace(t, at)
         /\ \A r \in Refs : \A at : FixedPlace(r, at)' = FixedPlace(r, at)
BY DEF configVars, EntityPlace, FixedPlace, AnchorBase, ChainPlace, Chains, Hung, Drifts

-----------------------------------------------------------------------------
(* Types.                                                                  *)

\* What ends a run.
Stopping ==
  \/ RefuseCycle \/ FixedRefused \/ FixedMissing \/ (\E t \in Trees : CloneRefused(t))
  \/ (\E p \in Points : PointMissing(p)) \/ (\E i \in Items : ItemFatal(i))
  \/ ArrayWithoutPoint \/ CopperFails \/ Complete

LEMMA Stopped ==
  Stopping => step # "rest" /\ step' = "rest"
              /\ UNCHANGED <<configVars, planVars, cached, stale, resolved, before, runs>>
BY DEF Stopping, RefuseCycle, FixedRefused, FixedMissing, CloneRefused, PointMissing, ItemFatal,
   ArrayWithoutPoint, CopperFails, Complete, Refused, Stop, history

LEMMA StepsAre ==
  ASSUME Config, [Next]_vars
  PROVE  \/ \E ws \in SUBSET (Trees \cup Refs) : StartRun(ws)
         \/ OrderLevel \/ GuardDuplicates \/ MoveFixed \/ EndMoves
         \/ (\E t \in Trees : MoveClone(t)) \/ (\E p \in Points : ResolvePoint(p))
         \/ Stopping \/ UNCHANGED vars
<1>1. \A ws \in SUBSET (Trees \cup fixed) \ {{}} : ws \in SUBSET (Trees \cup Refs)
  BY DEF Config
<1> QED BY <1>1 DEF Next, Stopping

LEMMA TypeConfig == TypeOK => Config /\ place \in Boards /\ cached \in Boards /\ before \in Boards
BY DEF TypeOK, Config, Boards

LEMMA InitTypes == Init => TypeOK
<1> SUFFICES ASSUME Init PROVE TypeOK
  OBVIOUS
<1>1. \A r \in Refs : <<r>> \in Places
  BY DEF Places
<1>2. place \in [Refs -> Places] /\ cached \in [Refs -> Places] /\ before \in [Refs -> Places]
  BY <1>1 DEF Init
<1>3. fixed \subseteq Refs /\ unchecked \subseteq Trees /\ broken \subseteq Items \cup Refs
  BY DEF Init, Items
<1>4. /\ clone \in [Trees -> SUBSET Places] /\ level \in [Items -> Nat]
      /\ resolved \in [Points -> SUBSET Places]
  BY DEF Init
<1> QED BY <1>2, <1>3, <1>4 DEF Init, TypeOK, Steps

LEMMA MovedTypes ==
  ASSUME TypeOK, NEW rs \in SUBSET Refs, NEW target, \A r \in rs : target[r] \in Places,
         Moved(rs, target)
  PROVE  place' \in [Refs -> Places]
BY DEF Moved, TypeOK

\* What a run asks KiCad for.
LEMMA Targets ==
  ASSUME TypeOK
  PROVE  /\ FixedNow \in SUBSET Refs
         /\ \A r \in FixedNow : FixedTarget[r] \in FixedPlace(r, cached) /\ FixedTarget[r] \in Places
         /\ \A t \in Trees : parts[t] \in SUBSET Refs
<1>1. Config /\ cached \in Boards
  BY TypeConfig
<1>2. FixedNow \in SUBSET Refs
  BY <1>1 DEF FixedNow, Config
<1>3. ASSUME NEW r \in FixedNow
      PROVE  FixedTarget[r] \in FixedPlace(r, cached) /\ FixedTarget[r] \in Places
  <2>1. r \in Refs /\ FixedPlace(r, cached) # {} /\ One(FixedPlace(r, cached))
    BY <1>1, <1>2, FixedPlaceOne DEF FixedNow
  <2>2. FixedTarget[r] = CHOOSE s \in FixedPlace(r, cached) : TRUE
    BY <2>1 DEF FixedTarget
  <2>3. FixedTarget[r] \in FixedPlace(r, cached)
    BY <2>1, <2>2
  <2> QED BY <2>1, <2>3 DEF One
<1> QED BY <1>1, <1>2, <1>3 DEF Config

LEMMA RefusedTypes ==
  ASSUME TypeOK, NEW rs \in SUBSET Refs, NEW target, \A r \in rs : target[r] \in Places,
         Refused(rs, target)
  PROVE  place' \in [Refs -> Places] /\ step' = "rest" /\ outcome' = "cut"
<1>1. PICK some \in SUBSET rs : Moved(some, target)
  BY DEF Refused
<1>2. some \in SUBSET Refs /\ \A r \in some : target[r] \in Places
  OBVIOUS
<1> QED BY <1>1, <1>2, MovedTypes DEF Refused, Stop

LEMMA TypeStep == TypeOK /\ [Next]_vars => TypeOK'
<1> SUFFICES ASSUME TypeOK, [Next]_vars PROVE TypeOK'
  OBVIOUS
<1>0. Config /\ place \in Boards
  BY TypeConfig
<1>1. ASSUME NEW ws \in SUBSET (Trees \cup Refs), StartRun(ws) PROVE TypeOK'
  <2>1. \A t \in Trees : EntityPlace(t, place) \in SUBSET Places
    BY <1>0, EntityPlaceOne DEF One
  <2>2. clone' \in [Trees -> SUBSET Places]
    BY <1>1, <2>1 DEF StartRun
  <2>3. remaining' \subseteq Items
    BY <1>1 DEF StartRun, Items
  <2> QED BY <1>1, <2>2, <2>3 DEF StartRun, TypeOK, configVars, Steps
<1>2. CASE OrderLevel
  <2>1. level' \in [Items -> Nat] /\ remaining' \subseteq Items
    BY <1>2 DEF OrderLevel, TypeOK
  <2> QED BY <1>2, <2>1 DEF OrderLevel, TypeOK, configVars, history
<1>3. CASE RefuseCycle
  BY <1>3 DEF RefuseCycle, Stop, TypeOK, configVars, planVars, history, Steps
<1>4. CASE GuardDuplicates
  <2>1. level' \in [Items -> Nat]
    BY <1>4 DEF GuardDuplicates, TypeOK
  <2> QED BY <1>4, <2>1 DEF GuardDuplicates, TypeOK, configVars, history, Steps
<1>5. CASE MoveFixed
  <2>1. place' \in [Refs -> Places]
    BY <1>5, Targets, MovedTypes DEF MoveFixed
  <2> QED BY <1>5, <2>1 DEF MoveFixed, TypeOK, configVars, planVars, history, Steps
<1>6. ASSUME NEW t \in Trees, MoveClone(t) PROVE TypeOK'
  <2>1. PICK target \in [parts[t] -> clone[t]] :
          /\ Moved(parts[t], target)
          /\ cached' = [r \in Refs |-> IF r \in parts[t] THEN target[r] ELSE Reread[r]]
    BY <1>6 DEF MoveClone
  <2>2. parts[t] \in SUBSET Refs /\ \A r \in parts[t] : target[r] \in Places
    BY DEF TypeOK
  <2>3. place' \in [Refs -> Places]
    BY <2>1, <2>2, MovedTypes
  <2>4. cached' \in [Refs -> Places]
    BY <2>1, <2>2 DEF Reread, TypeOK
  <2>5. level' \in [Items -> Nat]
    BY <1>6 DEF MoveClone, Done, TypeOK
  <2> QED BY <1>6, <2>2, <2>3, <2>4, <2>5 DEF MoveClone, TypeOK, configVars, history, Steps
<1>7. ASSUME NEW p \in Points, ResolvePoint(p) PROVE TypeOK'
  <2>1. cached' \in [Refs -> Places] /\ Reread \in Boards
    BY <1>7 DEF ResolvePoint, Reread, TypeOK, Boards
  <2>2. level' \in [Items -> Nat]
    BY <1>7 DEF ResolvePoint, Done, TypeOK
  <2>3. PointPlace(p) \in SUBSET Places
    <3>0. p \in Items /\ on[p] \in {Origin} \cup Refs \cup Points
      BY <1>0 DEF Items, Config
    <3>1. CASE on[p] = Origin
      BY <3>0, <3>1 DEF PointPlace, Places
    <3>2. CASE on[p] # Origin /\ on[p] \in Refs
      BY <2>1, <3>0, <3>2, Put DEF PointPlace, Boards
    <3>3. CASE on[p] # Origin /\ on[p] \notin Refs
      <4>1. resolved[on[p]] \in SUBSET Places
        BY <3>0, <3>3 DEF TypeOK
      <4>2. ASSUME NEW above \in resolved[on[p]] PROVE <<p>> \o above \in Places
        <5>1. above \in Places
          BY <4>1
        <5> QED BY <3>0, <5>1, Put
      <4>3. PointPlace(p) = {<<p>> \o above : above \in resolved[on[p]]}
        BY <3>3 DEF PointPlace
      <4> QED BY <4>2, <4>3
    <3> QED BY <3>1, <3>2, <3>3
  <2>4. resolved' \in [Points -> SUBSET Places]
    BY <1>7, <2>3 DEF ResolvePoint, TypeOK
  <2> QED BY <1>7, <2>1, <2>2, <2>4 DEF ResolvePoint, TypeOK, configVars, history, Steps
<1>8. ASSUME NEW p \in Points, PointMissing(p) PROVE TypeOK'
  BY <1>8 DEF PointMissing, Stop, TypeOK, configVars, planVars, history, Steps
<1>9. CASE EndMoves
  BY <1>9 DEF EndMoves, TypeOK, configVars, planVars, history, Steps
<1>10. CASE FixedMissing \/ ArrayWithoutPoint \/ CopperFails
  BY <1>10 DEF FixedMissing, ArrayWithoutPoint, CopperFails, Stop, TypeOK, configVars, planVars,
     history, Steps
<1>11. CASE Complete
  <2>1. full' \in Nat
    BY <1>11 DEF Complete, TypeOK
  <2> QED BY <1>11, <2>1 DEF Complete, Stop, TypeOK, configVars, planVars, Steps
<1>12. CASE UNCHANGED vars
  BY <1>12 DEF vars, TypeOK, configVars, planVars, history
<1>13. CASE FixedRefused
  <2>1. place' \in [Refs -> Places] /\ step' = "rest" /\ outcome' = "cut"
    BY <1>13, Targets, RefusedTypes DEF FixedRefused
  <2> QED BY <1>13, <2>1 DEF FixedRefused, TypeOK, configVars, planVars, history, Steps
<1>14. ASSUME NEW t \in Trees, CloneRefused(t) PROVE TypeOK'
  <2>1. PICK target \in [parts[t] -> clone[t]] : Refused(parts[t], target)
    BY <1>14 DEF CloneRefused
  <2>2. parts[t] \in SUBSET Refs /\ \A r \in parts[t] : target[r] \in Places
    BY DEF TypeOK
  <2>3. place' \in [Refs -> Places] /\ step' = "rest" /\ outcome' = "cut"
    BY <2>1, <2>2, RefusedTypes
  <2> QED BY <1>14, <2>3 DEF CloneRefused, TypeOK, configVars, planVars, history, Steps
<1>15. ASSUME NEW i \in Items, ItemFatal(i) PROVE TypeOK'
  BY <1>15 DEF ItemFatal, Stop, TypeOK, configVars, planVars, history, Steps
<1>16. \A ws \in SUBSET (Trees \cup fixed) \ {{}} : ws \in SUBSET (Trees \cup Refs)
  BY <1>0 DEF Config
<1> QED
  BY <1>1, <1>2, <1>3, <1>4, <1>5, <1>6, <1>7, <1>8, <1>9, <1>10, <1>11, <1>12, <1>13, <1>14,
     <1>15, <1>16 DEF Next

\* Every variable of the run keeps its type.
THEOREM TypeCorrect == Spec => []TypeOK
BY InitTypes, TypeStep, PTL DEF Spec

-----------------------------------------------------------------------------
(* The order.                                                              *)

Ordering == step \in {"ordering", "fixing", "moving"}

\* The order keeps its promise to points: what a point hangs on that a clone of
\* the run moves is of a level before the point's.
OrderInv ==
  /\ \A t \in Trees : clone[t] # {} => t \in wanted
  /\ Ordering =>
       /\ \A i \in remaining : level[i] = 0
       /\ \A t \in Trees : t \in remaining \/ level[t] > 0 => clone[t] # {}
       /\ \A t \in Trees, p \in Points :
            level[t] > 0 /\ level[p] > 0 =>
              /\ level[p] <= level[t]
              /\ level[p] = level[t] /\ on[p] \in Refs => Producers(on[p]) = {}
  /\ step = "ordering" =>
       \/ (\A t \in Trees : clone[t] # {} => t \in remaining) /\ \A i \in Items : level[i] = 0
       \/ remaining \cap Trees = {}
  /\ step \in {"fixing", "moving", "planning"} => remaining = {}
  /\ step = "planning" => \A i \in Items : level[i] = 0

Steady == TypeOK /\ OrderInv

LEMMA OrderInit == Init => OrderInv
BY DEF Init, OrderInv, Ordering

LEMMA OrderStep == Steady /\ [Next]_vars => OrderInv'
<1> SUFFICES ASSUME Steady, [Next]_vars PROVE OrderInv'
  OBVIOUS
<1>0. TypeOK /\ OrderInv /\ Config
  BY TypeConfig DEF Steady
<1>1. ASSUME NEW ws \in SUBSET (Trees \cup Refs), StartRun(ws) PROVE OrderInv'
  <2>1. /\ step' = "ordering" /\ wanted' = ws /\ level' = [i \in Items |-> 0]
        /\ clone' = [t \in Trees |-> IF t \in ws THEN EntityPlace(t, place) ELSE {}]
        /\ remaining' = Points \cup {t \in ws \cap Trees : EntityPlace(t, place) # {}}
    BY <1>1 DEF StartRun
  <2>2. \A t \in Trees : clone'[t] # {} => t \in ws /\ t \in remaining'
    BY <2>1
  <2>3. \A t \in Trees : t \in remaining' => clone'[t] # {}
    BY <2>1, PlacementAssumption
  <2>4. \A i \in Items : level'[i] = 0
    BY <2>1
  <2>5. Trees \subseteq Items /\ Points \subseteq Items /\ remaining' \subseteq Items
    BY <2>1 DEF Items
  <2> QED BY <2>1, <2>2, <2>3, <2>4, <2>5 DEF OrderInv
<1>2. CASE OrderLevel
  <2>1. /\ step = "ordering" /\ step' = step /\ clone' = clone /\ wanted' = wanted
        /\ on' = on /\ parts' = parts
        /\ remaining' = remaining \ Level
        /\ level' = [i \in Items |-> IF i \in Level THEN 1
                                     ELSE IF level[i] > 0 THEN level[i] + 1 ELSE 0]
    BY <1>2 DEF OrderLevel, configVars
  <2>2. /\ level \in [Items -> Nat] /\ remaining \subseteq Items /\ Level \subseteq remaining
        /\ Trees \subseteq Items /\ Points \subseteq Items
    BY <1>0 DEF TypeOK, Level, Items
  <2>3. remaining' \cap Trees = {}
    BY <2>1 DEF Level
  <2>4. \A i \in remaining' : level'[i] = 0
    BY <1>0, <2>1, <2>2 DEF OrderInv, Ordering
  <2>5. \A t \in Trees : t \in remaining' \/ level'[t] > 0 => clone'[t] # {}
    BY <1>0, <2>1, <2>2 DEF OrderInv, Ordering
  <2>6. \A t \in Trees : clone'[t] # {} => t \in wanted'
    BY <1>0, <2>1 DEF OrderInv
  <2>7. ASSUME NEW t \in Trees, NEW p \in Points, level'[t] > 0, level'[p] > 0
        PROVE  /\ level'[p] <= level'[t]
               /\ level'[p] = level'[t] /\ on[p] \in Refs => Producers(on[p]) = {}
    <3>1. t \in Items /\ p \in Items /\ level[t] \in Nat /\ level[p] \in Nat
      BY <2>2
    <3>2. /\ level'[t] = IF t \in Level THEN 1 ELSE IF level[t] > 0 THEN level[t] + 1 ELSE 0
          /\ level'[p] = IF p \in Level THEN 1 ELSE IF level[p] > 0 THEN level[p] + 1 ELSE 0
      BY <2>1, <3>1
    <3>3. /\ t \in Level => level[t] = 0
          /\ p \in Level => level[p] = 0
      BY <1>0, <2>1, <2>2 DEF OrderInv, Ordering
    <3>4. CASE t \in Level
      <4>1. /\ \A u \in Trees : clone[u] # {} => u \in remaining
            /\ \A i \in Items : level[i] = 0
        BY <1>0, <2>1, <2>2, <3>4 DEF OrderInv
      <4>2. p \in Level /\ level'[p] = 1 /\ level'[t] = 1
        BY <2>7, <3>1, <3>2, <3>4, <4>1
      <4>3. Ready(p)
        BY <4>2, PlacementAssumption DEF Level
      <4>4. Producers(on[p]) \ remaining = {}
        BY <4>1 DEF Producers
      <4>5. on[p] \in Refs => Producers(on[p]) = {}
        BY <4>3, <4>4, PlacementAssumption DEF Ready
      <4> QED BY <4>2, <4>5
    <3>5. CASE t \notin Level
      <4>1. level[t] > 0 /\ level'[t] = level[t] + 1
        BY <2>7, <3>1, <3>2, <3>5
      <4>2. CASE p \in Level
        BY <3>1, <3>2, <4>1, <4>2
      <4>3. CASE p \notin Level
        <5>1. level[p] > 0 /\ level'[p] = level[p] + 1
          BY <2>7, <3>1, <3>2, <4>3
        <5>2. /\ level[p] <= level[t]
              /\ level[p] = level[t] /\ on[p] \in Refs => Producers(on[p]) = {}
          BY <1>0, <2>1, <4>1, <5>1 DEF OrderInv, Ordering
        <5> QED BY <3>1, <4>1, <5>1, <5>2
      <4> QED BY <4>2, <4>3
    <3> QED BY <3>4, <3>5
  <2>8. \A r : Producers(r)' = Producers(r)
    BY <2>1 DEF Producers
  <2> QED BY <2>1, <2>3, <2>4, <2>5, <2>6, <2>7, <2>8 DEF OrderInv
<1>3. CASE Stopping
  BY <1>0, <1>3, Stopped DEF OrderInv, Ordering, planVars
<1>4. CASE GuardDuplicates
  <2>1. /\ step = "ordering" /\ step' = "fixing" /\ clone' = clone /\ wanted' = wanted
        /\ on' = on /\ parts' = parts /\ remaining = {} /\ remaining' = {}
        /\ level' = [i \in Items |-> IF Guarded(i) THEN level[i] ELSE 0]
    BY <1>4 DEF GuardDuplicates, configVars
  <2>2. \A i \in Items : level'[i] = 0 \/ level'[i] = level[i]
    BY <2>1
  <2>3. Trees \subseteq Items /\ Points \subseteq Items
    BY DEF Items
  <2>4. \A t \in Trees : level'[t] > 0 => clone'[t] # {}
    BY <1>0, <2>1, <2>2, <2>3 DEF OrderInv, Ordering
  <2>5. ASSUME NEW t \in Trees, NEW p \in Points, level'[t] > 0, level'[p] > 0
        PROVE  /\ level'[p] <= level'[t]
               /\ level'[p] = level'[t] /\ on[p] \in Refs => Producers(on[p]) = {}
    <3>1. level'[t] = level[t] /\ level'[p] = level[p]
      BY <2>2, <2>3, <2>5
    <3> QED BY <1>0, <2>1, <2>5, <3>1 DEF OrderInv, Ordering
  <2>6. \A r : Producers(r)' = Producers(r)
    BY <2>1 DEF Producers
  <2>7. \A t \in Trees : clone'[t] # {} => t \in wanted'
    BY <1>0, <2>1 DEF OrderInv
  <2> QED BY <2>1, <2>4, <2>5, <2>6, <2>7 DEF OrderInv
<1>5. CASE MoveFixed
  <2>1. /\ step = "fixing" /\ step' = "moving" /\ clone' = clone /\ wanted' = wanted
        /\ on' = on /\ parts' = parts /\ remaining' = remaining /\ level' = level
    BY <1>5 DEF MoveFixed, configVars, planVars
  <2>2. \A r : Producers(r)' = Producers(r)
    BY <2>1 DEF Producers
  <2> QED BY <1>0, <2>1, <2>2 DEF OrderInv, Ordering
<1>6. ASSUME NEW i \in Items, step = "moving", step' = step, Done(i),
             UNCHANGED <<clone, wanted, on, parts, remaining>>
      PROVE  OrderInv'
  <2>1. \A j \in Items : level'[j] = 0 \/ level'[j] = level[j]
    BY <1>0, <1>6 DEF Done, TypeOK
  <2>2. Trees \subseteq Items /\ Points \subseteq Items
    BY DEF Items
  <2>3. remaining' = {}
    BY <1>0, <1>6 DEF OrderInv
  <2>4. \A t \in Trees : level'[t] > 0 => clone'[t] # {}
    BY <1>0, <1>6, <2>1, <2>2 DEF OrderInv, Ordering
  <2>5. ASSUME NEW t \in Trees, NEW p \in Points, level'[t] > 0, level'[p] > 0
        PROVE  /\ level'[p] <= level'[t]
               /\ level'[p] = level'[t] /\ on[p] \in Refs => Producers(on[p]) = {}
    <3>1. level'[t] = level[t] /\ level'[p] = level[p]
      BY <2>1, <2>2, <2>5
    <3> QED BY <1>0, <1>6, <2>5, <3>1 DEF OrderInv, Ordering
  <2>6. \A r : Producers(r)' = Producers(r)
    BY <1>6 DEF Producers
  <2>7. \A t \in Trees : clone'[t] # {} => t \in wanted'
    BY <1>0, <1>6 DEF OrderInv
  <2> QED BY <1>6, <2>3, <2>4, <2>5, <2>6, <2>7 DEF OrderInv
<1>7. CASE EndMoves
  BY <1>0, <1>7 DEF EndMoves, OrderInv, Ordering, planVars
<1>8. CASE UNCHANGED vars
  BY <1>0, <1>8 DEF vars, configVars, planVars, OrderInv, Ordering, Producers
<1>9. ASSUME NEW t \in Trees, MoveClone(t) PROVE OrderInv'
  BY <1>6, <1>9 DEF MoveClone, configVars, Items
<1>10. ASSUME NEW p \in Points, ResolvePoint(p) PROVE OrderInv'
  BY <1>6, <1>10 DEF ResolvePoint, configVars, Items
<1> QED
  BY <1>0, <1>1, <1>2, <1>3, <1>4, <1>5, <1>7, <1>8, <1>9, <1>10, StepsAre

-----------------------------------------------------------------------------
(* Points are resolved at rest.                                             *)

\* What the board says where it has not been read again.
CacheInv == step = "moving" => \A r \in Refs \ stale : cached[r] = place[r]

\* A point that is resolved is where what it hangs on puts it, which no clone
\* still to come moves.
ResolvedInv ==
  /\ step \in {"ordering", "fixing"} => \A p \in Points : resolved[p] = {}
  /\ step \in {"moving", "planning"} =>
       \A p \in Points :
         /\ level[p] > 0 => resolved[p] = {}
         /\ resolved[p] # {} =>
              /\ resolved[p] = Hung(resolved, place)[p]
              /\ on[p] \in Refs => \A t \in Trees : level[t] > 0 => on[p] \notin parts[t]

\* Points were resolved one after the other, each after the one it hangs on.
Resolved == {p \in Points : resolved[p] # {}}
InTurn ==
  \E nth \in [Points -> Nat] :
    \A p \in Resolved : /\ nth[p] < Cardinality(Resolved)
                        /\ on[p] \in Points => nth[on[p]] < nth[p]

PointsInv == Steady /\ CacheInv /\ ResolvedInv /\ InTurn

LEMMA PointsInit == Init => CacheInv /\ ResolvedInv /\ InTurn
<1> SUFFICES ASSUME Init PROVE CacheInv /\ ResolvedInv /\ InTurn
  OBVIOUS
<1>1. CacheInv /\ ResolvedInv
  BY DEF Init, CacheInv, ResolvedInv
<1>2. Resolved = {}
  BY DEF Init, Resolved
<1>3. [p \in Points |-> 0] \in [Points -> Nat]
  OBVIOUS
<1> QED BY <1>1, <1>2, <1>3 DEF InTurn

\* At its turn a point hangs on nothing that a clone still to come moves.
LEMMA AtRest ==
  ASSUME Steady, step = "moving", NEW p \in Points, Turn(p), on[p] \in Refs,
         NEW t \in Trees, level[t] > 0
  PROVE  on[p] \notin parts[t]
<1>1. p \in Items /\ t \in Items
  BY DEF Items
<1>2. level[p] > 0 /\ level[t] <= level[p] /\ level[p] \in Nat /\ level[t] \in Nat
  BY <1>1 DEF Turn, Steady, TypeOK
<1>3. level[p] <= level[t] /\ (level[p] = level[t] => Producers(on[p]) = {}) /\ clone[t] # {}
  BY <1>2 DEF Steady, OrderInv, Ordering
<1>4. Producers(on[p]) = {}
  BY <1>2, <1>3
<1> QED BY <1>3, <1>4 DEF Producers

LEMMA RereadAll ==
  ASSUME Steady, CacheInv, step = "moving"
  PROVE  Reread = place
<1>1. \A r \in Refs : (IF r \in stale THEN place[r] ELSE cached[r]) = place[r]
  BY DEF CacheInv
<1> QED BY <1>1 DEF Reread, Steady, TypeOK

LEMMA CacheStep == Steady /\ CacheInv /\ [Next]_vars => CacheInv'
<1> SUFFICES ASSUME Steady, CacheInv, [Next]_vars PROVE CacheInv'
  OBVIOUS
<1>0. TypeOK /\ Config
  BY TypeConfig DEF Steady
<1>1. CASE MoveFixed
  BY <1>1 DEF MoveFixed, CacheInv
<1>2. ASSUME NEW t \in Trees, MoveClone(t) PROVE CacheInv'
  <2>1. PICK target \in [parts[t] -> clone[t]] :
          /\ Moved(parts[t], target)
          /\ cached' = [r \in Refs |-> IF r \in parts[t] THEN target[r] ELSE Reread[r]]
    BY <1>2 DEF MoveClone
  <2>2. step = "moving" /\ stale' = parts[t] /\ parts[t] \in SUBSET Refs
    BY <1>0, <1>2 DEF MoveClone, TypeOK
  <2>3. Reread = place
    BY <2>2, RereadAll
  <2>4. \A r \in Refs \ parts[t] : cached'[r] = place[r] /\ place'[r] = place[r]
    BY <2>1, <2>3 DEF Moved
  <2> QED BY <2>2, <2>4 DEF CacheInv
<1>3. ASSUME NEW p \in Points, ResolvePoint(p) PROVE CacheInv'
  <2>1. step = "moving" /\ cached' = Reread /\ place' = place /\ stale' = {}
    BY <1>3 DEF ResolvePoint
  <2> QED BY <2>1, RereadAll DEF CacheInv
<1>4. CASE \/ \E ws \in SUBSET (Trees \cup Refs) : StartRun(ws)
           \/ OrderLevel \/ GuardDuplicates \/ EndMoves
  BY <1>4 DEF StartRun, OrderLevel, GuardDuplicates, EndMoves, CacheInv
<1>5. CASE Stopping
  BY <1>5, Stopped DEF CacheInv
<1>6. CASE UNCHANGED vars
  BY <1>6 DEF vars, CacheInv
<1> QED BY <1>0, <1>1, <1>2, <1>3, <1>4, <1>5, <1>6, StepsAre

\* What a point is resolved to, from what it hangs on.
Behind(p, c) == {<<p>> \o s : s \in c}

LEMMA BehindEmpty ==
  /\ \A p, c : c = {} => Behind(p, c) = {}
  /\ \A p, c, d : c \subseteq d => Behind(p, c) \subseteq Behind(p, d)
BY DEF Behind

LEMMA HungOrigin ==
  \A above, at : \A p \in Points :
    on[p] = Origin => Hung(above, at)[p] = {<<p, Origin>>}
BY DEF Hung

LEMMA HungPoint ==
  \A above, at : \A p \in Points :
    on[p] # Origin /\ on[p] \notin Refs => Hung(above, at)[p] = Behind(p, above[on[p]])
BY DEF Hung, Behind

LEMMA HungSame ==
  ASSUME NEW q \in Points, NEW above, NEW one, NEW at, NEW too,
         on[q] \in Refs => at[on[q]] = too[on[q]],
         on[q] = Origin \/ on[q] \in Refs \/ above[on[q]] = one[on[q]]
  PROVE  Hung(above, at)[q] = Hung(one, too)[q]
<1>1. CASE on[q] = Origin
  BY <1>1, HungOrigin, SMTT(60)
<1>2. CASE on[q] # Origin /\ on[q] \in Refs
  <2>1. Hung(above, at)[q] = IF q \in broken THEN {} ELSE {<<q>> \o at[on[q]]}
    BY <1>2 DEF Hung
  <2>2. Hung(one, too)[q] = IF q \in broken THEN {} ELSE {<<q>> \o too[on[q]]}
    BY <1>2 DEF Hung
  <2>3. at[on[q]] = too[on[q]]
    BY <1>2
  <2> QED BY <2>1, <2>2, <2>3
<1>3. CASE on[q] # Origin /\ on[q] \notin Refs
  BY <1>3, HungPoint
<1> QED BY <1>1, <1>2, <1>3

LEMMA ResolvedStep == Steady /\ CacheInv /\ ResolvedInv /\ [Next]_vars => ResolvedInv'
<1> SUFFICES ASSUME Steady, CacheInv, ResolvedInv, [Next]_vars PROVE ResolvedInv'
  OBVIOUS
<1>0. TypeOK /\ OrderInv /\ Config
  BY TypeConfig DEF Steady
<1>1. ASSUME NEW ws \in SUBSET (Trees \cup Refs), StartRun(ws) PROVE ResolvedInv'
  BY <1>1 DEF StartRun, ResolvedInv
<1>2. CASE OrderLevel \/ GuardDuplicates
  BY <1>2 DEF OrderLevel, GuardDuplicates, ResolvedInv
<1>3. CASE MoveFixed
  BY <1>3 DEF MoveFixed, ResolvedInv
<1>4. ASSUME NEW t \in Trees, MoveClone(t) PROVE ResolvedInv'
  <2>1. PICK target \in [parts[t] -> clone[t]] : Moved(parts[t], target)
    BY <1>4 DEF MoveClone
  <2>2. /\ step = "moving" /\ step' = step /\ resolved' = resolved /\ on' = on /\ parts' = parts
        /\ broken' = broken
        /\ Turn(t) /\ level' = [level EXCEPT ![t] = 0] /\ parts[t] \in SUBSET Refs
    BY <1>0, <1>4 DEF MoveClone, Done, configVars, TypeOK
  <2>3. /\ \A i \in Items : level'[i] = 0 \/ level'[i] = level[i]
        /\ Trees \subseteq Items /\ Points \subseteq Items
    BY <1>0, <2>2 DEF TypeOK, Items
  <2>4. level[t] > 0
    BY <2>2 DEF Turn
  <2>5. \A r \in Refs \ parts[t] : place'[r] = place[r]
    BY <2>1 DEF Moved
  <2>6. ASSUME NEW p \in Points, resolved[p] # {}
        PROVE  Hung(resolved, place')[p] = Hung(resolved, place)[p]
    <3>1. on[p] \in Refs => on[p] \notin parts[t]
      BY <2>2, <2>4, <2>6 DEF ResolvedInv
    <3>2. on[p] \in Refs => place'[on[p]] = place[on[p]]
      BY <2>5, <3>1
    <3> QED BY <3>2, HungSame
  <2>7. Hung(resolved, place)' = Hung(resolved, place')
    BY <2>2 DEF Hung
  <2>8. ASSUME NEW p \in Points, resolved'[p] # {}
        PROVE  /\ resolved'[p] = Hung(resolved, place)'[p]
               /\ on'[p] \in Refs => \A u \in Trees : level'[u] > 0 => on'[p] \notin parts'[u]
    <3>1. /\ resolved[p] = Hung(resolved, place)[p]
          /\ on[p] \in Refs => \A u \in Trees : level[u] > 0 => on[p] \notin parts[u]
      BY <2>2, <2>8 DEF ResolvedInv
    <3>2. on[p] \in Refs => \A u \in Trees : level'[u] > 0 => on[p] \notin parts[u]
      BY <2>3, <3>1
    <3>3. resolved'[p] = Hung(resolved, place)'[p]
      BY <2>2, <2>6, <2>7, <2>8, <3>1
    <3> QED BY <2>2, <3>2, <3>3
  <2>9. \A p \in Points : level'[p] > 0 => resolved'[p] = {}
    BY <2>2, <2>3 DEF ResolvedInv
  <2> QED BY <2>2, <2>8, <2>9 DEF ResolvedInv
<1>5. ASSUME NEW p \in Points, ResolvePoint(p) PROVE ResolvedInv'
  <2>1. /\ step = "moving" /\ step' = step /\ place' = place /\ on' = on /\ parts' = parts
        /\ broken' = broken /\ p \notin broken /\ Turn(p) /\ level' = [level EXCEPT ![p] = 0]
        /\ resolved' = [resolved EXCEPT ![p] = PointPlace(p)] /\ PointPlace(p) # {}
    BY <1>5 DEF ResolvePoint, Done, configVars
  <2>2. /\ \A i \in Items : level'[i] = IF i = p THEN 0 ELSE level[i]
        /\ Trees \subseteq Items /\ Points \subseteq Items
    BY <1>0, <2>1 DEF TypeOK, Items
  <2>3. \A q \in Points : resolved'[q] = IF q = p THEN PointPlace(p) ELSE resolved[q]
    BY <1>0, <2>1 DEF TypeOK
  <2>4. level[p] > 0 /\ resolved[p] = {}
    BY <2>1 DEF Turn, ResolvedInv
  <2>5. PointPlace(p) = Hung(resolved, place)[p]
    <3>1. CASE on[p] = Origin
      BY <3>1, HungOrigin DEF PointPlace
    <3>2. CASE on[p] # Origin /\ on[p] \in Refs
      <4>1. PointPlace(p) = {<<p>> \o Reread[on[p]]}
        BY <3>2 DEF PointPlace
      <4>2. Hung(resolved, place)[p] = {<<p>> \o place[on[p]]}
        BY <2>1, <3>2 DEF Hung
      <4>3. Reread = place
        BY <2>1, RereadAll
      <4> QED BY <4>1, <4>2, <4>3
    <3>3. CASE on[p] # Origin /\ on[p] \notin Refs
      BY <3>3, HungPoint, SMTT(60) DEF PointPlace, Behind
    <3> QED BY <3>1, <3>2, <3>3
  <2>6. \A q \in Points : on[q] = Origin \/ on[q] \in Refs \/ on[q] \in Points
    BY <1>0 DEF Config
  <2>7. Hung(resolved, place)' = Hung(resolved', place)
    BY <2>1 DEF Hung
  \* Nothing that is resolved hangs on a point that is not.
  <2>8. ASSUME NEW q \in Points, resolved'[q] # {}
        PROVE  resolved'[q] = Hung(resolved', place)[q]
    <3>1. resolved'[q] = Hung(resolved, place)[q]
      BY <2>1, <2>3, <2>5, <2>8 DEF ResolvedInv
    <3>2. CASE on[q] = Origin \/ on[q] \in Refs
      BY <3>1, <3>2, HungSame
    <3>3. CASE ~(on[q] = Origin \/ on[q] \in Refs)
      <4>1. on[q] \in Points /\ Hung(resolved, place)[q] = Behind(q, resolved[on[q]])
        BY <2>6, <3>3, HungPoint
      <4>2. resolved[on[q]] # {}
        BY <2>8, <3>1, <4>1, BehindEmpty
      <4>3. resolved'[on[q]] = resolved[on[q]]
        BY <2>3, <2>4, <4>1, <4>2
      <4>4. Hung(resolved', place)[q] = Behind(q, resolved'[on[q]])
        BY <3>3, HungPoint
      <4> QED BY <3>1, <4>1, <4>3, <4>4
    <3> QED BY <3>2, <3>3
  <2>9. ASSUME NEW q \in Points, resolved'[q] # {}, on[q] \in Refs,
               NEW t \in Trees, level'[t] > 0
        PROVE  on[q] \notin parts[t]
    <3>1. level[t] > 0
      BY <2>2, <2>9, PlacementAssumption
    <3>2. CASE q = p
      BY <2>1, <2>9, <3>1, <3>2, AtRest
    <3>3. CASE q # p
      BY <2>1, <2>3, <2>9, <3>1, <3>3 DEF ResolvedInv
    <3> QED BY <3>2, <3>3
  <2>10. \A q \in Points : level'[q] > 0 => resolved'[q] = {}
    BY <2>1, <2>2, <2>3 DEF ResolvedInv
  <2> QED BY <2>1, <2>7, <2>8, <2>9, <2>10 DEF ResolvedInv
<1>6. CASE EndMoves
  <2>1. Hung(resolved, place)' = Hung(resolved, place)
    BY <1>6 DEF EndMoves, configVars, Hung
  <2> QED BY <1>6, <2>1 DEF EndMoves, configVars, planVars, ResolvedInv
<1>7. CASE Stopping
  BY <1>7, Stopped DEF ResolvedInv
<1>8. CASE UNCHANGED vars
  <2>1. Hung(resolved, place)' = Hung(resolved, place)
    BY <1>8 DEF vars, configVars, Hung
  <2> QED BY <1>8, <2>1 DEF vars, configVars, planVars, ResolvedInv
<1> QED BY <1>0, <1>1, <1>2, <1>3, <1>4, <1>5, <1>6, <1>7, <1>8, StepsAre

LEMMA InTurnStep == Steady /\ ResolvedInv /\ InTurn /\ [Next]_vars => InTurn'
<1> SUFFICES ASSUME Steady, ResolvedInv, InTurn, [Next]_vars PROVE InTurn'
  OBVIOUS
<1>0. TypeOK /\ Config
  BY TypeConfig DEF Steady
<1>1. ASSUME NEW ws, StartRun(ws) PROVE InTurn'
  <2>1. Resolved' = {}
    BY <1>1 DEF StartRun, Resolved
  <2>2. [p \in Points |-> 0] \in [Points -> Nat]
    OBVIOUS
  <2> QED BY <2>1, <2>2 DEF InTurn
<1>2. ASSUME NEW p \in Points, ResolvePoint(p) PROVE InTurn'
  <2>1. /\ step = "moving" /\ on' = on /\ Turn(p) /\ PointPlace(p) # {}
        /\ resolved' = [resolved EXCEPT ![p] = PointPlace(p)]
    BY <1>2 DEF ResolvePoint, configVars
  <2>2. resolved[p] = {}
    BY <2>1 DEF Turn, ResolvedInv
  <2>3. Resolved' = Resolved \cup {p} /\ p \notin Resolved
    BY <1>0, <2>1, <2>2 DEF Resolved, TypeOK
  <2>4. IsFiniteSet(Resolved)
    BY PlacementAssumption, FS_Subset DEF Resolved
  <2>5. Cardinality(Resolved') = Cardinality(Resolved) + 1 /\ Cardinality(Resolved) \in Nat
    BY <2>3, <2>4, FS_AddElement, FS_CardinalityType
  <2>6. PICK nth \in [Points -> Nat] :
          \A q \in Resolved : /\ nth[q] < Cardinality(Resolved)
                              /\ on[q] \in Points => nth[on[q]] < nth[q]
    BY DEF InTurn
  <2> DEFINE too == [nth EXCEPT ![p] = Cardinality(Resolved)]
  <2>7. too \in [Points -> Nat] /\ \A q \in Points : too[q] = IF q = p THEN Cardinality(Resolved) ELSE nth[q]
    BY <2>5, <2>6
  <2>8. \A q \in Resolved' : on[q] \in Points => on[q] \in Resolved
    <3> SUFFICES ASSUME NEW q \in Resolved', on[q] \in Points PROVE resolved[on[q]] # {}
      BY DEF Resolved
    <3>1. on[q] # Origin /\ on[q] \notin Refs
      BY PlacementAssumption
    <3>2. CASE q = p
      BY <2>1, <3>1, <3>2 DEF PointPlace
    <3>3. CASE q # p
      <4>1. q \in Points /\ resolved[q] # {} /\ resolved[q] = Hung(resolved, place)[q]
        BY <2>1, <2>3, <3>3 DEF Resolved, ResolvedInv
      <4>2. Hung(resolved, place)[q] = Behind(q, resolved[on[q]])
        BY <3>1, <4>1, HungPoint
      <4> QED BY <4>1, <4>2, BehindEmpty
    <3> QED BY <3>2, <3>3
  <2>9. ASSUME NEW q \in Resolved'
        PROVE  /\ too[q] < Cardinality(Resolved')
               /\ on[q] \in Points => too[on[q]] < too[q]
    <3> HIDE DEF too
    <3>1. q \in Points /\ Resolved \subseteq Points
      BY <2>3 DEF Resolved
    <3>2. CASE q = p
      <4>1. on[q] \in Points => nth[on[q]] < Cardinality(Resolved) /\ on[q] # p
        BY <2>3, <2>6, <2>8
      <4> QED BY <2>5, <2>7, <3>1, <3>2, <4>1
    <3>3. CASE q # p
      <4>1. q \in Resolved /\ nth[q] \in Nat
        BY <2>3, <2>6, <3>1, <3>3
      <4>2. on[q] \in Points => on[q] # p
        BY <2>3, <2>8
      <4> QED BY <2>5, <2>6, <2>7, <3>1, <3>3, <4>1, <4>2
    <3> QED BY <3>2, <3>3
  <2> HIDE DEF too
  <2> QED BY <2>1, <2>7, <2>9 DEF InTurn
<1>3. ASSUME UNCHANGED <<resolved, on>> PROVE InTurn'
  <2>1. Resolved' = Resolved
    BY <1>3 DEF Resolved
  <2> QED BY <1>3, <2>1 DEF InTurn
<1>4. CASE \/ OrderLevel \/ GuardDuplicates \/ MoveFixed \/ (\E t \in Trees : MoveClone(t))
           \/ EndMoves
  BY <1>3, <1>4 DEF OrderLevel, GuardDuplicates, MoveFixed, MoveClone, EndMoves, configVars
<1>5. CASE UNCHANGED vars
  BY <1>3, <1>5 DEF vars, configVars
<1>6. CASE Stopping
  BY <1>3, <1>6, Stopped DEF configVars
<1> QED BY <1>0, <1>1, <1>2, <1>4, <1>5, <1>6, StepsAre

\* A point that is resolved is at the end of its chain.
LEMMA ResolvedChains ==
  ASSUME Steady, ResolvedInv, InTurn, step = "planning", NEW p \in Points
  PROVE  resolved[p] \subseteq ChainPlace(p, place)
<1> DEFINE N == Cardinality(Points)
<1>0. Config /\ place \in Boards /\ N \in Nat
  BY TypeConfig, PointsCount DEF Steady
<1>1. PICK nth \in [Points -> Nat] :
        \A q \in Resolved : /\ nth[q] < Cardinality(Resolved)
                            /\ on[q] \in Points => nth[on[q]] < nth[q]
  BY DEF InTurn
<1> DEFINE T == {n \in 0 .. N : \A q \in Points : nth[q] <= n => resolved[q] \subseteq Chains(place)[n][q]}
<1>2. \A q \in Points : resolved[q] # {} => resolved[q] = Hung(resolved, place)[q]
  BY DEF ResolvedInv
<1>3. ASSUME NEW q \in Points, resolved[q] # {}, NEW above,
             on[q] \in Points => resolved[on[q]] \subseteq above[on[q]]
      PROVE  resolved[q] \subseteq Hung(above, place)[q]
  <2>1. resolved[q] = Hung(resolved, place)[q]
    BY <1>2, <1>3
  <2>2. on[q] = Origin \/ on[q] \in Refs \/ on[q] \in Points
    BY <1>0 DEF Config
  <2>3. CASE on[q] = Origin \/ on[q] \in Refs
    BY <2>1, <2>3, HungSame
  <2>4. CASE ~(on[q] = Origin \/ on[q] \in Refs)
    <3>1. Behind(q, resolved[on[q]]) \subseteq Behind(q, above[on[q]])
      BY <1>3, <2>2, <2>4, BehindEmpty
    <3> QED BY <2>1, <2>4, <3>1, HungPoint
  <2> QED BY <2>3, <2>4
<1>4. 0 \in T
  <2> SUFFICES ASSUME NEW q \in Points, nth[q] <= 0, resolved[q] # {}
               PROVE  resolved[q] \subseteq Chains(place)[0][q]
    BY <1>0
  <2>1. on[q] \notin Points
    <3>1. on[q] \in Points => nth[on[q]] < nth[q] /\ nth[on[q]] \in Nat
      BY <1>1 DEF Resolved
    <3> QED BY <3>1
  <2>2. Chains(place)[0] = Hung(NoChains, place)
    BY ChainsOf
  <2> QED BY <1>3, <2>1, <2>2
<1>5. ASSUME NEW n \in 1 .. N, n - 1 \in T PROVE n \in T
  <2> SUFFICES ASSUME NEW q \in Points, nth[q] <= n, resolved[q] # {}
               PROVE  resolved[q] \subseteq Chains(place)[n][q]
    BY <1>0
  <2>1. on[q] \in Points => nth[on[q]] <= n - 1
    <3>1. on[q] \in Points => nth[on[q]] < nth[q] /\ nth[on[q]] \in Nat /\ nth[q] \in Nat
      BY <1>1 DEF Resolved
    <3> QED BY <3>1
  <2>2. on[q] \in Points => resolved[on[q]] \subseteq Chains(place)[n - 1][on[q]]
    BY <1>5, <2>1
  <2>3. Chains(place)[n] = Hung(Chains(place)[n - 1], place)
    BY ChainsOf
  <2> QED BY <1>3, <2>2, <2>3
<1>6. N \in T
  <2>1. 0 .. N \subseteq T
    <3> HIDE DEF T
    <3> QED BY <1>0, <1>4, <1>5, UpTo
  <2> QED BY <1>0, <2>1
<1>7. resolved[p] # {} => nth[p] <= N
  <2>1. IsFiniteSet(Points) /\ Resolved \subseteq Points
    BY PlacementAssumption DEF Resolved
  <2>2. Cardinality(Resolved) <= N /\ Cardinality(Resolved) \in Nat
    BY <2>1, FS_Subset, FS_CardinalityType
  <2> QED BY <1>0, <1>1, <2>2 DEF Resolved
<1> QED BY <1>6, <1>7 DEF ChainPlace

LEMMA PointsAlways == Spec => []PointsInv
<1>1. Init => PointsInv
  BY InitTypes, OrderInit, PointsInit DEF PointsInv, Steady
<1>2. PointsInv /\ [Next]_vars => PointsInv'
  BY TypeStep, OrderStep, CacheStep, ResolvedStep, InTurnStep DEF PointsInv, Steady
<1> QED BY <1>1, <1>2, PTL DEF Spec

\* When the moves are over, every resolved point is where the board then says,
\* whoever moved what.
THEOREM PointsCurrentHolds == Spec => []PointsCurrent
<1>1. PointsInv => PointsCurrent
  BY ResolvedChains DEF PointsInv, PointsCurrent
<1> QED BY <1>1, PointsAlways, PTL

-----------------------------------------------------------------------------
(* No run is lost over a point.                                            *)

NoneDropped == \A p \in Points : on[p] \notin doubled
OwnTail == \E p \in Points : on[p] = p

\* Where the duplicate guard drops none, no point is forgotten, and none comes
\* before the one it hangs on.
FoundInv ==
  /\ outcome = "lost" => step = "rest" /\ (NoneDropped => OwnTail)
  /\ NoneDropped =>
       /\ step # "rest" => \A p \in Points : p \in remaining \/ level[p] > 0 \/ resolved[p] # {}
       /\ Ordering =>
            \A p \in Points :
              level[p] > 0 /\ on[p] \in Points /\ on[p] # p =>
                level[on[p]] > level[p] \/ resolved[on[p]] # {}

LEMMA FoundConfig ==
  ASSUME UNCHANGED configVars
  PROVE  (NoneDropped' <=> NoneDropped) /\ (OwnTail' <=> OwnTail)
BY DEF configVars, NoneDropped, OwnTail

LEMMA FoundInit == Init => FoundInv
BY DEF Init, FoundInv, Ordering

LEMMA FoundStep == PointsInv /\ FoundInv /\ [Next]_vars => FoundInv'
<1> SUFFICES ASSUME PointsInv, FoundInv, [Next]_vars PROVE FoundInv'
  OBVIOUS
<1>0. /\ TypeOK /\ OrderInv /\ Steady /\ ResolvedInv /\ Config
      /\ Trees \subseteq Items /\ Points \subseteq Items
  BY TypeConfig DEF PointsInv, Steady, Items
<1>1. ASSUME NEW ws \in SUBSET (Trees \cup Refs), StartRun(ws) PROVE FoundInv'
  <2>1. /\ step' = "ordering" /\ outcome' = "none"
        /\ \A p \in Points : p \in remaining' /\ level'[p] = 0
    BY <1>0, <1>1 DEF StartRun
  <2> QED BY <2>1 DEF FoundInv
<1>2. CASE OrderLevel
  <2>1. /\ step = "ordering" /\ step' = step
        /\ outcome' = outcome /\ on' = on /\ UNCHANGED configVars
        /\ resolved' = resolved
        /\ remaining' = remaining \ Level
        /\ level' = [i \in Items |-> IF i \in Level THEN 1
                                     ELSE IF level[i] > 0 THEN level[i] + 1 ELSE 0]
    BY <1>2 DEF OrderLevel, configVars, history
  <2>2. /\ \A p \in Points : level[p] \in Nat
        /\ \A p \in Points : level'[p] = IF p \in Level THEN 1
                                         ELSE IF level[p] > 0 THEN level[p] + 1 ELSE 0
    BY <1>0, <2>1 DEF TypeOK
  <2>3. \A p \in Level : p \in Points => level[p] = 0 /\ Ready(p) /\ p \in remaining
    BY <1>0, <2>1, PlacementAssumption DEF Level, OrderInv, Ordering
  <2>4. \A p \in Points : resolved[p] = {}
    BY <1>0, <2>1 DEF ResolvedInv
  <2>5. ASSUME NoneDropped, NEW p \in Points
        PROVE  p \in remaining' \/ level'[p] > 0
    <3>1. p \in remaining \/ level[p] > 0
      BY <2>1, <2>4, <2>5 DEF FoundInv
    <3> QED BY <2>1, <2>2, <3>1
  <2>6. ASSUME NoneDropped, NEW p \in Points, level'[p] > 0, on[p] \in Points, on[p] # p
        PROVE  level'[on[p]] > level'[p]
    <3>1. CASE p \in Level
      <4>1. on[p] \notin remaining
        BY <2>3, <2>6, <3>1, PlacementAssumption DEF Ready
      <4>2. level[on[p]] > 0
        BY <2>1, <2>4, <2>6, <4>1 DEF FoundInv
      <4> QED BY <2>2, <2>3, <2>6, <3>1, <4>1, <4>2
    <3>2. CASE p \notin Level
      <4>1. level[p] > 0
        BY <2>2, <2>6, <3>2
      <4>2. level[on[p]] > level[p]
        BY <2>1, <2>4, <2>6, <4>1 DEF FoundInv, Ordering
      <4>3. on[p] \notin Level
        BY <2>2, <2>3, <2>6, <4>1, <4>2
      <4> QED BY <2>2, <2>6, <3>2, <4>1, <4>2, <4>3
    <3> QED BY <3>1, <3>2
  <2> QED BY <2>1, <2>5, <2>6, FoundConfig DEF FoundInv
<1>3. ASSUME Stopping, outcome' # "lost" PROVE FoundInv'
  BY <1>3, Stopped DEF FoundInv, Ordering
<1>4. CASE GuardDuplicates
  <2>1. /\ step = "ordering" /\ step' = "fixing"
        /\ outcome' = outcome /\ on' = on /\ UNCHANGED configVars
        /\ resolved' = resolved
        /\ remaining' = remaining
        /\ level' = [i \in Items |-> IF Guarded(i) THEN level[i] ELSE 0]
    BY <1>4 DEF GuardDuplicates, configVars, history
  <2>2. NoneDropped => \A p \in Points : level'[p] = level[p]
    BY <1>0, <2>1, PlacementAssumption DEF Guarded, NoneDropped, TypeOK
  <2> QED BY <2>1, <2>2, FoundConfig DEF FoundInv, Ordering
<1>5. CASE MoveFixed
  <2>1. /\ step = "fixing" /\ step' = "moving" /\ outcome' = outcome /\ on' = on
        /\ UNCHANGED configVars /\ resolved' = resolved /\ remaining' = remaining
        /\ level' = level
    BY <1>5 DEF MoveFixed, configVars, planVars
  <2> QED BY <2>1, FoundConfig DEF FoundInv, Ordering
<1>6. ASSUME NEW t \in Trees, MoveClone(t) PROVE FoundInv'
  <2>1. /\ step = "moving" /\ step' = step /\ outcome' = outcome /\ on' = on
        /\ UNCHANGED configVars /\ resolved' = resolved /\ remaining' = remaining
        /\ level' = [level EXCEPT ![t] = 0]
    BY <1>6 DEF MoveClone, Done, configVars
  <2>2. \A p \in Points : level'[p] = level[p]
    BY <1>0, <2>1, PlacementAssumption DEF TypeOK
  <2> QED BY <2>1, <2>2, FoundConfig DEF FoundInv, Ordering
<1>7. ASSUME NEW p \in Points, ResolvePoint(p) PROVE FoundInv'
  <2>1. /\ step = "moving" /\ step' = step /\ outcome' = outcome /\ on' = on
        /\ UNCHANGED configVars /\ remaining' = remaining
        /\ level' = [level EXCEPT ![p] = 0] /\ PointPlace(p) # {}
        /\ resolved' = [resolved EXCEPT ![p] = PointPlace(p)]
    BY <1>7 DEF ResolvePoint, Done, configVars
  <2>2. \A q \in Points : level'[q] = IF q = p THEN 0 ELSE level[q]
    BY <1>0, <2>1 DEF TypeOK
  <2>3. \A q \in Points : resolved'[q] = IF q = p THEN PointPlace(p) ELSE resolved[q]
    BY <1>0, <2>1 DEF TypeOK
  <2>4. NoneDropped => \A q \in Points : q \in remaining \/ level'[q] > 0 \/ resolved'[q] # {}
    BY <2>1, <2>2, <2>3 DEF FoundInv
  <2>5. ASSUME NoneDropped, NEW q \in Points, level'[q] > 0, on[q] \in Points, on[q] # q
        PROVE  level'[on[q]] > level'[q] \/ resolved'[on[q]] # {}
    <3>1. level[q] > 0 /\ level'[q] = level[q]
      BY <2>2, <2>5
    <3>2. level[on[q]] > level[q] \/ resolved[on[q]] # {}
      BY <2>1, <2>5, <3>1 DEF FoundInv, Ordering
    <3> QED BY <2>1, <2>2, <2>3, <2>5, <3>1, <3>2
  <2> QED BY <2>1, <2>4, <2>5, FoundConfig DEF FoundInv, Ordering
<1>8. ASSUME NEW p \in Points, PointMissing(p) PROVE FoundInv'
  <2>1. /\ step = "moving" /\ step' = "rest" /\ outcome' = "lost" /\ on' = on
        /\ UNCHANGED configVars /\ place' = place /\ Turn(p) /\ PointPlace(p) = {}
    BY <1>8 DEF PointMissing, Stop, configVars
  <2>2. on[p] # Origin /\ on[p] \notin Refs
    BY <2>1 DEF PointPlace
  <2>3. on[p] \in Points /\ p \in Items /\ on[p] \in Items
    BY <1>0, <2>2 DEF Config
  <2>4. resolved[on[p]] = {}
    BY <2>1, <2>2, <2>3 DEF PointPlace
  <2>5. level[p] > 0 /\ level[on[p]] <= level[p] /\ level[p] \in Nat /\ level[on[p]] \in Nat
    BY <1>0, <2>1, <2>3 DEF Turn, TypeOK
  <2>6. NoneDropped => OwnTail
    BY <2>1, <2>3, <2>4, <2>5 DEF FoundInv, Ordering, OwnTail
  <2> QED BY <2>1, <2>6, FoundConfig DEF FoundInv, Ordering
<1>9. CASE EndMoves
  <2>1. /\ step = "moving" /\ step' = "planning" /\ outcome' = outcome /\ on' = on
        /\ UNCHANGED configVars /\ resolved' = resolved /\ remaining' = remaining
        /\ level' = level
    BY <1>9 DEF EndMoves, configVars, planVars
  <2> QED BY <2>1, FoundConfig DEF FoundInv, Ordering
<1>10. CASE ArrayWithoutPoint
  <2>1. /\ step = "planning" /\ step' = "rest" /\ outcome' = "lost"
        /\ UNCHANGED configVars /\ \E p \in Points : resolved[p] = {}
    BY <1>10 DEF ArrayWithoutPoint, Stop, configVars
  <2>2. remaining = {} /\ \A p \in Points : level[p] = 0
    BY <1>0, <2>1 DEF OrderInv
  <2>3. ~NoneDropped
    BY <2>1, <2>2 DEF FoundInv
  <2>4. step' = "rest" /\ ~NoneDropped'
    BY <2>1, <2>3, FoundConfig
  <2> QED BY <2>4 DEF FoundInv, Ordering
<1>11. CASE UNCHANGED vars
  BY <1>11, FoundConfig DEF vars, configVars, planVars, history, FoundInv, Ordering
<1>12. Stopping =>
         outcome' # "lost" \/ ArrayWithoutPoint \/ \E p \in Points : PointMissing(p)
  BY DEF Stopping, RefuseCycle, FixedRefused, FixedMissing, CloneRefused, ItemFatal, CopperFails,
     Complete, Refused, Stop
<1> QED
  BY <1>0, <1>1, <1>2, <1>3, <1>4, <1>5, <1>6, <1>7, <1>8, <1>9, <1>10, <1>11, <1>12, StepsAre

\* No run is lost over a point, if no refdes a point hangs on stands twice and no
\* point hangs on itself.
THEOREM NoneLostHolds == Spec => []NoneLost
<1>1. Init => FoundInv
  BY FoundInit
<1>2. PointsInv /\ FoundInv /\ [Next]_vars => FoundInv'
  BY FoundStep
<1>3. FoundInv => NoneLost
  BY DEF FoundInv, NoneLost, NoneDropped, OwnTail
<1> QED BY <1>1, <1>2, <1>3, PointsAlways, PTL DEF Spec

-----------------------------------------------------------------------------
(* Repeated runs settle.                                                   *)

Ranks == [Refs -> 1 .. Cardinality(Refs)]
Valid(rank) == \A r \in Refs : \A s \in Under(r) : rank[s] < rank[r]

LEMMA UnderDecides ==
  ASSUME Config, NEW r \in Refs, NEW at \in Boards, NEW too \in Boards,
         \A s \in Under(r) : at[s] = too[s]
  PROVE  Belongs(r, at) = Belongs(r, too)
<1>1. ASSUME NEW t \in Trees, r \in parts[t]
      PROVE  EntityPlace(t, at) = EntityPlace(t, too)
  <2>1. CASE Drifts(t)
    BY <2>1 DEF EntityPlace
  <2>2. CASE ~Drifts(t)
    <3>1. Footing(base[t]) \subseteq Under(r)
      BY <1>1, <2>2 DEF Under
    <3>2. base[t] \in {Origin} \cup Refs \cup Points
      BY DEF Config
    <3>3. AnchorBase(base[t], at) = AnchorBase(base[t], too)
      BY <3>1, <3>2, FootingDecides
    <3> QED BY <2>2, <3>3 DEF EntityPlace
  <2> QED BY <2>1, <2>2
<1>2. ASSUME r \in fixed
      PROVE  FixedPlace(r, at) = FixedPlace(r, too)
  <2>1. Footing(home[r]) \subseteq Under(r)
    BY <1>2 DEF Under
  <2>2. home[r] \in {Origin} \cup Refs \cup Points
    BY DEF Config
  <2>3. AnchorBase(home[r], at) = AnchorBase(home[r], too)
    BY <2>1, <2>2, FootingDecides
  <2> QED BY <2>3 DEF FixedPlace
<1> QED BY <1>1, <1>2 DEF Belongs

LEMMA UnderRefs == \A r : Under(r) \subseteq Refs
<1>1. \A b : Footing(b) \subseteq Refs
  BY DEF Footing
<1> QED BY <1>1 DEF Under

\* A footprint of a tree belongs where the tree puts it, a fixed one where it is
\* put, and any other nowhere.
LEMMA BelongsBy ==
  ASSUME Consistent, NEW r \in Refs, NEW at
  PROVE  /\ \A t \in Trees : r \in parts[t] => Belongs(r, at) = EntityPlace(t, at)
         /\ r \in fixed => Belongs(r, at) = FixedPlace(r, at)
         /\ r \notin fixed /\ (\A t \in Trees : r \notin parts[t]) => Belongs(r, at) = {}
<1>1. ASSUME NEW t \in Trees, r \in parts[t]
      PROVE  Belongs(r, at) = EntityPlace(t, at)
  <2>1. r \notin fixed /\ {u \in Trees : r \in parts[u]} = {t}
    BY <1>1 DEF Consistent
  <2> QED BY <2>1 DEF Belongs
<1>2. r \in fixed => {u \in Trees : r \in parts[u]} = {}
  BY DEF Consistent
<1> QED BY <1>1, <1>2 DEF Belongs

LEMMA BelongsOne ==
  ASSUME Config, Consistent, NEW r \in Refs, NEW at \in Boards
  PROVE  One(Belongs(r, at))
<1>1. CASE \E t \in Trees : r \in parts[t]
  BY <1>1, BelongsBy, EntityPlaceOne
<1>2. CASE r \in fixed
  BY <1>2, BelongsBy, FixedPlaceOne
<1>3. CASE r \notin fixed /\ \A t \in Trees : r \notin parts[t]
  BY <1>3, BelongsBy DEF One
<1> QED BY <1>1, <1>2, <1>3

\* The entities have the places they had on the board the run began with, which
\* the fixed parts still find.
TargetInv ==
  /\ step # "rest" =>
       \A t \in Trees : clone[t] = IF t \in wanted THEN EntityPlace(t, before) ELSE {}
  /\ step \in {"ordering", "fixing"} =>
       /\ cached = before /\ place = before
       /\ Consistent => \A t \in Trees : clone[t] # {} => t \in remaining \/ level[t] > 0

\* What the run has brought where it wanted it is still there.
Brought(r) ==
  \/ r \in fixed \cap wanted
  \/ \E t \in Trees : t \in wanted /\ level[t] = 0 /\ r \in parts[t]
Home(r, at) == Belongs(r, before) # {} => at[r] \in Belongs(r, before)
BroughtInv ==
  step \in {"moving", "planning"} /\ Consistent => \A r \in Refs : Brought(r) => Home(r, place)

\* After so many full runs, what so many others hang under one another above has
\* come to rest, and no run moves it any more.
SettledSoFar(rank) ==
  /\ step = "rest" => \A r \in Refs : rank[r] <= full => InPlace(r)
  /\ step # "rest" => \A r \in Refs : rank[r] <= full => place[r] = before[r] /\ Home(r, before)

SettleInv ==
  /\ TargetInv /\ BroughtInv
  /\ Consistent => \A rank \in Ranks : Valid(rank) => SettledSoFar(rank)

SettleHere == PointsInv /\ SettleInv

LEMMA SettleTypes ==
  ASSUME SettleHere
  PROVE  /\ TypeOK /\ OrderInv /\ Config /\ Trees \subseteq Items /\ full \in Nat
         /\ place \in Boards /\ cached \in Boards /\ before \in Boards
         /\ \A t \in Trees : parts[t] \in SUBSET Refs /\ level[t] \in Nat
<1>1. TypeOK /\ OrderInv /\ Config /\ Trees \subseteq Items
  BY TypeConfig DEF SettleHere, PointsInv, Steady, Items
<1>2. \A t \in Trees : parts[t] \in SUBSET Refs /\ level[t] \in Nat
  BY <1>1 DEF TypeOK, Config
<1> QED BY <1>1, <1>2, TypeConfig DEF TypeOK

LEMMA SettleConfigKept ==
  ASSUME UNCHANGED configVars
  PROVE  /\ Consistent' = Consistent
         /\ \A rank : Valid(rank)' = Valid(rank)
         /\ \A r \in Refs : \A at : Belongs(r, at)' = Belongs(r, at)
<1>1. \A t \in Trees : Drifts(t)' = Drifts(t)
  BY DEF Drifts, configVars
<1>2. \A b : Footing(b)' = Footing(b)
  BY DEF Footing, ChainPlace, Chains, Hung, configVars
<1>3. \A r \in Refs : Under(r)' = Under(r)
  BY <1>1, <1>2 DEF Under, configVars
<1>4. Consistent' = Consistent
  BY DEF Consistent, configVars
<1>5. \A rank : Valid(rank)' = Valid(rank)
  BY <1>3 DEF Valid
<1>6. \A r \in Refs : \A at : Belongs(r, at)' = Belongs(r, at)
  BY ConfigKept DEF Belongs, configVars
<1> QED BY <1>4, <1>5, <1>6

LEMMA SettleInit == Init => SettleInv
<1> SUFFICES ASSUME Init PROVE SettleInv
  OBVIOUS
<1>1. step = "rest" /\ full = 0
  BY DEF Init
<1>2. ASSUME NEW rank \in Ranks PROVE SettledSoFar(rank)
  <2>1. \A r \in Refs : ~(rank[r] <= full)
    BY <1>1 DEF Ranks
  <2> QED BY <1>1, <2>1 DEF SettledSoFar
<1> QED BY <1>1, <1>2 DEF SettleInv, TargetInv, BroughtInv

LEMMA StartSettles ==
  ASSUME SettleHere, NEW ws \in SUBSET (Trees \cup Refs), StartRun(ws)
  PROVE  SettleInv'
<1>1. /\ UNCHANGED configVars /\ place' = place /\ before' = place /\ cached' = place
      /\ full' = full /\ step = "rest" /\ step' = "ordering" /\ wanted' = ws
      /\ clone' = [t \in Trees |-> IF t \in ws THEN EntityPlace(t, place) ELSE {}]
      /\ remaining' = Points \cup {t \in ws \cap Trees : EntityPlace(t, place) # {}}
  BY DEF StartRun
<1>2. TargetInv'
  <2>1. \A t \in Trees : EntityPlace(t, before)' = EntityPlace(t, place)
    BY <1>1, ConfigKept
  <2>2. \A t \in Trees : clone'[t] # {} => t \in remaining'
    BY <1>1
  <2>3. \A t \in Trees : clone'[t] = IF t \in wanted' THEN EntityPlace(t, before)' ELSE {}
    BY <1>1, <2>1
  <2> QED BY <1>1, <2>2, <2>3 DEF TargetInv
<1>3. BroughtInv'
  BY <1>1 DEF BroughtInv
<1>4. ASSUME NEW rank \in Ranks, Valid(rank), Consistent PROVE SettledSoFar(rank)'
  <2> SUFFICES ASSUME NEW r \in Refs, rank[r] <= full
               PROVE  place'[r] = before'[r] /\ Home(r, before)'
    BY <1>1 DEF SettledSoFar
  <2>1. SettledSoFar(rank)
    BY <1>4 DEF SettleHere, SettleInv
  <2>2. InPlace(r)
    BY <1>1, <2>1 DEF SettledSoFar
  <2>3. Belongs(r, before)' = Belongs(r, place)
    BY <1>1, SettleConfigKept
  <2> QED BY <1>1, <2>2, <2>3 DEF InPlace, Home
<1> QED BY <1>1, <1>2, <1>3, <1>4, SettleConfigKept DEF SettleInv

\* As long as what a run moves goes where the board at its beginning wanted it, a
\* footprint that had come to rest stays there, wherever the run stops.
LEMMA MoveSettles ==
  ASSUME SettleHere, Consistent, step # "rest", NEW rank \in Ranks, Valid(rank),
         UNCHANGED configVars, before' = before, full' = full, place' \in Boards,
         \A r \in Refs : place'[r] = place[r] \/ place'[r] \in Belongs(r, before)
  PROVE  SettledSoFar(rank)'
<1>0. Config /\ before \in Boards /\ full \in Nat
  BY SettleTypes
<1>1. SettledSoFar(rank)
  BY DEF SettleHere, SettleInv
<1>2. ASSUME NEW r \in Refs, rank[r] <= full
      PROVE  place'[r] = before[r] /\ Home(r, before)
  <2>1. place[r] = before[r] /\ Home(r, before)
    BY <1>1, <1>2 DEF SettledSoFar
  <2>2. ASSUME place'[r] \in Belongs(r, before) PROVE place'[r] = before[r]
    <3>1. before[r] \in Belongs(r, before)
      BY <2>1, <2>2 DEF Home
    <3> QED BY <1>0, <2>2, <3>1, BelongsOne DEF One
  <2> QED BY <2>1, <2>2
<1>3. ASSUME NEW r \in Refs, rank[r] <= full
      PROVE  InPlace(r)' /\ Home(r, before)'
  <2>1. place'[r] = before[r] /\ Home(r, before)
    BY <1>2, <1>3
  <2>2. \A s \in Under(r) : s \in Refs => place'[s] = before[s]
    <3> SUFFICES ASSUME NEW s \in Under(r), s \in Refs PROVE place'[s] = before[s]
      OBVIOUS
    <3>1. rank[s] < rank[r] /\ rank[s] \in Nat /\ rank[r] \in Nat
      BY DEF Valid, Ranks
    <3>2. rank[s] <= full
      BY <1>0, <1>3, <3>1
    <3> QED BY <1>2, <3>2
  <2>3. Under(r) \subseteq Refs
    BY UnderRefs
  <2>4. Belongs(r, place') = Belongs(r, before)
    BY <1>0, <2>2, <2>3, UnderDecides
  <2>5. Belongs(r, place)' = Belongs(r, place') /\ Belongs(r, before)' = Belongs(r, before)
    BY SettleConfigKept
  <2> QED BY <2>1, <2>4, <2>5 DEF InPlace, Home
<1> QED BY <1>2, <1>3 DEF SettledSoFar

\* What a run asks of KiCad in its Phase 0, and of a clone, is where the board at
\* its beginning wanted the footprints.
LEMMA FixedWanted ==
  ASSUME SettleHere, Consistent, step = "fixing", NEW r \in FixedNow
  PROVE  FixedTarget[r] \in Belongs(r, before)
<1>1. r \in Refs /\ r \in fixed /\ FixedTarget[r] \in FixedPlace(r, cached)
  BY SettleTypes, Targets DEF FixedNow
<1>2. cached = before
  BY DEF SettleHere, SettleInv, TargetInv
<1>3. Belongs(r, before) = FixedPlace(r, before)
  BY <1>1, BelongsBy
<1> QED BY <1>1, <1>2, <1>3

LEMMA CloneWanted ==
  ASSUME SettleHere, Consistent, step = "moving", NEW t \in Trees,
         NEW target \in [parts[t] -> clone[t]], NEW r \in parts[t]
  PROVE  r \in Refs /\ target[r] \in Belongs(r, before)
<1>1. r \in Refs /\ target[r] \in clone[t]
  BY SettleTypes
<1>2. clone[t] = IF t \in wanted THEN EntityPlace(t, before) ELSE {}
  BY DEF SettleHere, SettleInv, TargetInv
<1>3. Belongs(r, before) = EntityPlace(t, before)
  BY <1>1, BelongsBy
<1> QED BY <1>1, <1>2, <1>3

LEMMA FixedSettles ==
  ASSUME SettleHere, MoveFixed
  PROVE  SettleInv'
<1>0. /\ TypeOK /\ OrderInv /\ Config /\ Trees \subseteq Items
      /\ \A t \in Trees : parts[t] \in SUBSET Refs /\ level[t] \in Nat
  BY SettleTypes
<1>1. /\ UNCHANGED configVars /\ step = "fixing" /\ step' = "moving" /\ UNCHANGED planVars
      /\ before' = before /\ full' = full /\ Moved(FixedNow, FixedTarget)
  BY DEF MoveFixed, history
<1>2. place' \in Boards
  BY <1>0, <1>1, Targets, MovedTypes DEF Boards
<1>3. TargetInv'
  <2>1. \A t \in Trees : EntityPlace(t, before)' = EntityPlace(t, before)
    BY <1>1, ConfigKept
  <2>2. \A t \in Trees : clone[t] = IF t \in wanted THEN EntityPlace(t, before) ELSE {}
    BY <1>1 DEF SettleHere, SettleInv, TargetInv
  <2> QED BY <1>1, <2>1, <2>2 DEF TargetInv, planVars
<1>4. ASSUME Consistent, NEW r \in Refs
      PROVE  place'[r] = IF r \in FixedNow THEN FixedTarget[r] ELSE place[r]
  BY <1>1 DEF Moved
<1>5. ASSUME Consistent, NEW r \in Refs
      PROVE  place'[r] = place[r] \/ place'[r] \in Belongs(r, before)
  BY <1>1, <1>4, <1>5, FixedWanted
<1>6. ASSUME Consistent, NEW r \in Refs, Brought(r)', Belongs(r, before) # {}
      PROVE  place'[r] \in Belongs(r, before)
  <2>1. CASE r \in fixed \cap wanted
    <3>1. cached = before /\ doubled = {} /\ FixedPlace(r, before) # {}
      BY <1>1, <1>6, <2>1, BelongsBy DEF SettleHere, SettleInv, TargetInv, Consistent
    <3>2. r \in FixedNow
      BY <2>1, <3>1 DEF FixedNow
    <3> QED BY <1>1, <1>4, <1>6, <3>2, FixedWanted
  <2>2. ASSUME NEW t \in Trees, t \in wanted, level[t] = 0, r \in parts[t] PROVE FALSE
    <3>1. remaining = {}
      BY <1>0, <1>1 DEF OrderInv
    <3>2. clone[t] = EntityPlace(t, before) /\ (clone[t] # {} => level[t] > 0)
      BY <1>1, <1>6, <2>2, <3>1 DEF SettleHere, SettleInv, TargetInv
    <3>3. Belongs(r, before) = {}
      BY <1>6, <2>2, <3>2, BelongsBy
    <3> QED BY <1>6, <3>3
  <2>3. r \in fixed \cap wanted \/ \E t \in Trees : t \in wanted /\ level[t] = 0 /\ r \in parts[t]
    BY <1>1, <1>6 DEF Brought, configVars, planVars
  <2> QED BY <2>1, <2>2, <2>3
<1>7. BroughtInv'
  BY <1>1, <1>6, SettleConfigKept DEF BroughtInv, Home
<1>8. ASSUME NEW rank \in Ranks, Valid(rank), Consistent PROVE SettledSoFar(rank)'
  BY <1>1, <1>2, <1>5, <1>8, MoveSettles
<1> QED BY <1>1, <1>3, <1>7, <1>8, SettleConfigKept DEF SettleInv

LEMMA CloneSettles ==
  ASSUME SettleHere, NEW t \in Trees, MoveClone(t)
  PROVE  SettleInv'
<1>0. /\ TypeOK /\ OrderInv /\ Config /\ Trees \subseteq Items
      /\ \A u \in Trees : parts[u] \in SUBSET Refs /\ level[u] \in Nat
  BY SettleTypes
<1>1. PICK target \in [parts[t] -> clone[t]] : Moved(parts[t], target)
  BY DEF MoveClone
<1>2. /\ UNCHANGED configVars /\ step = "moving" /\ step' = "moving" /\ wanted' = wanted
      /\ clone' = clone /\ level' = [level EXCEPT ![t] = 0] /\ before' = before /\ full' = full
  BY DEF MoveClone, Done, history
<1>3. place' \in Boards
  <2>1. parts[t] \in SUBSET Refs /\ \A r \in parts[t] : target[r] \in Places
    BY <1>0 DEF TypeOK
  <2> QED BY <1>0, <1>1, <2>1, MovedTypes DEF Boards
<1>4. TargetInv'
  <2>1. \A u \in Trees : EntityPlace(u, before)' = EntityPlace(u, before)
    BY <1>2, ConfigKept
  <2>2. \A u \in Trees : clone[u] = IF u \in wanted THEN EntityPlace(u, before) ELSE {}
    BY <1>2 DEF SettleHere, SettleInv, TargetInv
  <2> QED BY <1>2, <2>1, <2>2 DEF TargetInv
<1>5. \A r \in Refs : place'[r] = IF r \in parts[t] THEN target[r] ELSE place[r]
  BY <1>1 DEF Moved
<1>6. ASSUME Consistent, NEW r \in Refs
      PROVE  place'[r] = place[r] \/ place'[r] \in Belongs(r, before)
  BY <1>2, <1>5, <1>6, CloneWanted
<1>7. ASSUME Consistent, NEW r \in Refs, Brought(r)', Belongs(r, before) # {}
      PROVE  place'[r] \in Belongs(r, before)
  <2>1. CASE r \in parts[t]
    BY <1>2, <1>5, <1>7, <2>1, CloneWanted
  <2>2. CASE r \notin parts[t]
    <3>1. \A u \in Trees : level'[u] = IF u = t THEN 0 ELSE level[u]
      BY <1>0, <1>2 DEF TypeOK
    <3>2. Brought(r)
      BY <1>2, <1>7, <2>2, <3>1 DEF Brought, configVars
    <3> QED BY <1>2, <1>5, <1>7, <2>2, <3>2 DEF SettleHere, SettleInv, BroughtInv, Home
  <2> QED BY <2>1, <2>2
<1>8. BroughtInv'
  BY <1>2, <1>7, SettleConfigKept DEF BroughtInv, Home
<1>9. ASSUME NEW rank \in Ranks, Valid(rank), Consistent PROVE SettledSoFar(rank)'
  BY <1>2, <1>3, <1>6, <1>9, MoveSettles
<1> QED BY <1>2, <1>4, <1>8, <1>9, SettleConfigKept DEF SettleInv

\* A step of a run that moves nothing and goes on with it.
LEMMA StandStill ==
  ASSUME SettleHere, step # "rest", UNCHANGED configVars,
         UNCHANGED <<place, full, before, wanted, clone>>,
         \/ step' = step /\ cached' = cached
         \/ step' = step /\ step \notin {"ordering", "fixing"}
         \/ step = "ordering" /\ step' = "fixing" /\ cached' = cached
         \/ step = "moving" /\ step' = "planning",
         Consistent =>
           \A t \in Trees :
             /\ step \in {"moving", "planning"} => level'[t] = level[t]
             /\ step \in {"ordering", "fixing"} =>
                  (t \in remaining \/ level[t] > 0 => t \in remaining' \/ level'[t] > 0)
  PROVE  SettleInv'
<1>1. TargetInv'
  <2>1. \A u \in Trees : EntityPlace(u, before)' = EntityPlace(u, before)
    BY ConfigKept
  <2>2. \A u \in Trees : clone[u] = IF u \in wanted THEN EntityPlace(u, before) ELSE {}
    BY DEF SettleHere, SettleInv, TargetInv
  <2>3. ASSUME step' \in {"ordering", "fixing"}
        PROVE  /\ cached' = before' /\ place' = before'
               /\ Consistent => \A t \in Trees : clone'[t] # {} => t \in remaining' \/ level'[t] > 0
    <3>1. step \in {"ordering", "fixing"} /\ cached' = cached
      BY <2>3
    <3> QED BY <3>1 DEF SettleHere, SettleInv, TargetInv
  <2>4. \A t \in Trees : clone'[t] = IF t \in wanted' THEN EntityPlace(t, before)' ELSE {}
    BY <2>1, <2>2
  <2> QED BY <2>3, <2>4, SettleConfigKept DEF TargetInv
<1>2. BroughtInv'
  <2> SUFFICES ASSUME step' \in {"moving", "planning"}, Consistent, NEW r \in Refs, Brought(r)'
               PROVE  Home(r, place)'
    BY SettleConfigKept DEF BroughtInv
  <2>1. step \in {"moving", "planning"}
    OBVIOUS
  <2>2. Brought(r)
    BY <2>1 DEF Brought, configVars
  <2> QED BY <2>1, <2>2, SettleConfigKept DEF SettleHere, SettleInv, BroughtInv, Home
<1>3. ASSUME NEW rank \in Ranks, Valid(rank), Consistent PROVE SettledSoFar(rank)'
  BY <1>3, SettleTypes, MoveSettles
<1> QED BY <1>1, <1>2, <1>3, SettleConfigKept DEF SettleInv

\* However a run ends, with whatever it was doing left undone.
LEMMA StopSettles ==
  ASSUME SettleHere, Stopping
  PROVE  SettleInv'
<1>0. TypeOK /\ OrderInv /\ Config /\ place \in Boards /\ before \in Boards /\ full \in Nat
  BY SettleTypes
<1>1. step # "rest" /\ step' = "rest" /\ UNCHANGED configVars /\ before' = before
  BY Stopped
<1>2. TargetInv' /\ BroughtInv'
  BY <1>1 DEF TargetInv, BroughtInv
<1>3. ASSUME place' \in Boards, full' = full, Consistent,
             \A r \in Refs : place'[r] = place[r] \/ place'[r] \in Belongs(r, before),
             NEW rank \in Ranks, Valid(rank)
      PROVE  SettledSoFar(rank)'
  BY <1>1, <1>3, MoveSettles
<1>4. CASE \/ RefuseCycle \/ FixedMissing \/ (\E p \in Points : PointMissing(p))
           \/ (\E i \in Items : ItemFatal(i)) \/ ArrayWithoutPoint \/ CopperFails
  <2>1. place' = place /\ full' = full
    BY <1>4 DEF RefuseCycle, FixedMissing, PointMissing, ItemFatal, ArrayWithoutPoint, CopperFails,
       history
  <2> QED BY <1>0, <1>1, <1>2, <1>3, <2>1, SettleConfigKept DEF SettleInv
<1>5. ASSUME NEW rs \in SUBSET Refs, NEW target, Refused(rs, target), full' = full,
             \A r \in rs : target[r] \in Places,
             Consistent => \A r \in rs : target[r] \in Belongs(r, before)
      PROVE  SettleInv'
  <2>1. PICK some \in SUBSET rs : Moved(some, target)
    BY <1>5 DEF Refused
  <2>2. \A r \in Refs : place'[r] = IF r \in some THEN target[r] ELSE place[r]
    BY <2>1 DEF Moved
  <2>3. place' \in Boards
    BY <1>0, <1>5, RefusedTypes DEF Boards
  <2>4. Consistent => \A r \in Refs : place'[r] = place[r] \/ place'[r] \in Belongs(r, before)
    BY <1>5, <2>2
  <2> QED BY <1>1, <1>2, <1>3, <1>5, <2>3, <2>4, SettleConfigKept DEF SettleInv
<1>6. CASE FixedRefused
  <2>1. step = "fixing" /\ full' = full /\ Refused(FixedNow, FixedTarget)
    BY <1>6 DEF FixedRefused, history
  <2>2. Consistent => \A r \in FixedNow : FixedTarget[r] \in Belongs(r, before)
    BY <2>1, FixedWanted
  <2> QED BY <1>0, <1>5, <2>1, <2>2, Targets
<1>7. ASSUME NEW t \in Trees, CloneRefused(t) PROVE SettleInv'
  <2>1. PICK target \in [parts[t] -> clone[t]] : Refused(parts[t], target)
    BY <1>7 DEF CloneRefused
  <2>2. step = "moving" /\ full' = full
    BY <1>7 DEF CloneRefused, history
  <2>3. parts[t] \in SUBSET Refs /\ \A r \in parts[t] : target[r] \in Places
    BY <1>0 DEF TypeOK
  <2>4. Consistent => \A r \in parts[t] : target[r] \in Belongs(r, before)
    BY <2>2, CloneWanted
  <2> QED BY <1>5, <2>1, <2>2, <2>3, <2>4
<1>8. CASE Complete
  <2>1. /\ step = "planning" /\ place' = place
        /\ full' = IF Trees \cup fixed \subseteq wanted THEN full + 1 ELSE full
    BY <1>8 DEF Complete
  <2>2. CASE ~(Trees \cup fixed \subseteq wanted)
    BY <1>0, <1>1, <1>2, <1>3, <2>1, <2>2, SettleConfigKept DEF SettleInv
  <2>3. CASE Trees \cup fixed \subseteq wanted
    <3>1. ASSUME Consistent, NEW rank \in Ranks, Valid(rank), NEW r \in Refs, rank[r] <= full + 1
          PROVE  InPlace(r)
      <4>1. \A s \in Under(r) : place[s] = before[s]
        <5> SUFFICES ASSUME NEW s \in Under(r) PROVE place[s] = before[s]
          OBVIOUS
        <5>1. s \in Refs
          BY UnderRefs
        <5>2. rank[s] < rank[r] /\ rank[s] \in Nat /\ rank[r] \in Nat
          BY <3>1, <5>1 DEF Valid, Ranks
        <5>3. rank[s] <= full
          BY <1>0, <3>1, <5>2
        <5>4. SettledSoFar(rank)
          BY <3>1 DEF SettleHere, SettleInv
        <5> QED BY <1>1, <5>1, <5>3, <5>4 DEF SettledSoFar
      <4>2. Belongs(r, place) = Belongs(r, before)
        BY <1>0, <4>1, UnderDecides
      <4>3. \A t \in Trees : level[t] = 0 /\ t \in wanted
        BY <1>0, <2>1, <2>3 DEF OrderInv, Items
      <4>4. CASE r \in fixed \/ \E t \in Trees : r \in parts[t]
        <5>1. Brought(r)
          BY <2>3, <4>3, <4>4 DEF Brought
        <5>2. Home(r, place)
          BY <2>1, <3>1, <5>1 DEF SettleHere, SettleInv, BroughtInv
        <5> QED BY <4>2, <5>2 DEF Home, InPlace
      <4>5. CASE ~(r \in fixed \/ \E t \in Trees : r \in parts[t])
        <5>1. Belongs(r, place) = {}
          BY <3>1, <4>5, BelongsBy
        <5> QED BY <5>1 DEF InPlace
      <4> QED BY <4>4, <4>5
    <3>2. \A r \in Refs : InPlace(r)' <=> InPlace(r)
      BY <1>1, <2>1, SettleConfigKept DEF InPlace
    <3>3. ASSUME Consistent, NEW rank \in Ranks, Valid(rank) PROVE SettledSoFar(rank)'
      BY <1>1, <2>1, <2>3, <3>1, <3>2, <3>3 DEF SettledSoFar
    <3> QED BY <1>1, <1>2, <3>3, SettleConfigKept DEF SettleInv
  <2> QED BY <2>2, <2>3
<1> QED BY <1>4, <1>6, <1>7, <1>8 DEF Stopping

LEMMA SettleStep == SettleHere /\ [Next]_vars => SettleInv'
<1> SUFFICES ASSUME SettleHere, [Next]_vars PROVE SettleInv'
  OBVIOUS
<1>0. TypeOK /\ OrderInv /\ Config /\ Trees \subseteq Items
  BY SettleTypes
<1>1. CASE OrderLevel
  <2>1. /\ step = "ordering" /\ step' = step /\ UNCHANGED configVars
        /\ UNCHANGED <<place, cached, full, before, wanted, clone>>
        /\ remaining' = remaining \ Level
        /\ level' = [i \in Items |-> IF i \in Level THEN 1
                                     ELSE IF level[i] > 0 THEN level[i] + 1 ELSE 0]
    BY <1>1 DEF OrderLevel, history
  <2>2. \A t \in Trees : t \in remaining \/ level[t] > 0 => t \in remaining' \/ level'[t] > 0
    BY <1>0, <2>1 DEF TypeOK
  <2> QED BY <2>1, <2>2, StandStill
<1>2. CASE GuardDuplicates
  <2>1. /\ step = "ordering" /\ step' = "fixing" /\ UNCHANGED configVars
        /\ UNCHANGED <<place, cached, full, before, wanted, clone>> /\ remaining' = remaining
        /\ level' = [i \in Items |-> IF Guarded(i) THEN level[i] ELSE 0]
    BY <1>2 DEF GuardDuplicates, history
  <2>2. Consistent => \A t \in Trees : level'[t] = level[t]
    BY <1>0, <2>1 DEF Consistent, Guarded
  <2> QED BY <2>1, <2>2, StandStill
<1>3. ASSUME NEW p \in Points, ResolvePoint(p) PROVE SettleInv'
  <2>1. /\ step = "moving" /\ step' = step /\ UNCHANGED configVars
        /\ UNCHANGED <<place, full, before, wanted, clone>>
        /\ level' = [level EXCEPT ![p] = 0]
    BY <1>3 DEF ResolvePoint, Done, history
  <2>2. \A t \in Trees : level'[t] = level[t]
    BY <1>0, <2>1, PlacementAssumption DEF TypeOK
  <2> QED BY <2>1, <2>2, StandStill
<1>4. CASE EndMoves
  BY <1>4, StandStill DEF EndMoves, planVars, history
<1>5. CASE UNCHANGED vars
  <2>1. UNCHANGED <<configVars, place, step, cached, full, before, wanted, clone, remaining, level>>
    BY <1>5 DEF vars, planVars, history
  <2>2. CASE step # "rest"
    BY <2>1, <2>2, StandStill
  <2>3. CASE step = "rest"
    <3>1. \A r \in Refs : InPlace(r)' <=> InPlace(r)
      BY <2>1, SettleConfigKept DEF InPlace
    <3>2. ASSUME NEW rank, SettledSoFar(rank) PROVE SettledSoFar(rank)'
      BY <2>1, <2>3, <3>1, <3>2 DEF SettledSoFar
    <3>3. TargetInv' /\ BroughtInv'
      BY <2>1, <2>3 DEF TargetInv, BroughtInv
    <3> QED BY <2>1, <3>2, <3>3, SettleConfigKept DEF SettleHere, SettleInv
  <2> QED BY <2>2, <2>3
<1> QED
  BY <1>0, <1>1, <1>2, <1>3, <1>4, <1>5, StepsAre, StartSettles, FixedSettles, CloneSettles,
     StopSettles

\* After as many full runs as there are footprints every footprint is where what it
\* hangs on then is, if there is one place for everything and no footprint hangs on
\* itself, whatever runs were cut short.
THEOREM RepeatsSettleHolds == Spec => []RepeatsSettle
<1>1. Init => SettleInv
  BY SettleInit
<1>2. PointsInv /\ SettleInv /\ [Next]_vars => SettleInv'
  BY SettleStep DEF SettleHere
<1>3. PointsInv /\ SettleInv => RepeatsSettle
  <2> SUFFICES ASSUME PointsInv, SettleInv, step = "rest", full >= Cardinality(Refs), Consistent,
                      Ranked, NEW r \in Refs
               PROVE  InPlace(r)
    BY DEF RepeatsSettle
  <2>1. PICK rank \in Ranks : Valid(rank)
    BY DEF Ranked, Ranks, Valid
  <2>2. SettledSoFar(rank)
    BY <2>1 DEF SettleInv
  <2>3. rank[r] \in Nat /\ rank[r] <= Cardinality(Refs) /\ Cardinality(Refs) \in Nat
    BY PlacementAssumption, FS_CardinalityType DEF Ranks
  <2>4. full \in Nat
    BY DEF PointsInv, Steady, TypeOK
  <2>5. rank[r] <= full
    BY <2>3, <2>4
  <2> QED BY <2>2, <2>5 DEF SettledSoFar
<1> QED BY <1>1, <1>2, <1>3, PointsAlways, PTL DEF Spec

=============================================================================
