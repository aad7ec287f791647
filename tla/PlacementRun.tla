----------------------------- MODULE PlacementRun -----------------------------
(***************************************************************************)
(* One Apply as the components of the board see it: the entities of the    *)
(* trees are given absolute places, what is planned is brought into an     *)
(* order, and the items are planned and moved one by one, each seeing the  *)
(* board the ones before it left (kicadstamp/apply_pipeline.py,            *)
(* placement/entity_placement.py, placement/dependency_order.py,           *)
(* placement/services/point_resolver.py).                                  *)
(*                                                                         *)
(* A place is the chain it was computed along: the tree that put the       *)
(* component there, then the place its anchor had.                         *)
(***************************************************************************)
EXTENDS Naturals, Sequences, FiniteSets

CONSTANTS
  Refs,       \* footprints, by refdes
  Trees,      \* each places one entity
  Points,
  Origin,
  MaxRuns

ASSUME PlacementAssumption ==
  /\ IsFiniteSet(Refs) /\ IsFiniteSet(Trees) /\ IsFiniteSet(Points)
  /\ Refs \cap Trees = {} /\ Refs \cap Points = {} /\ Trees \cap Points = {}
  /\ Origin \notin Refs \cup Trees \cup Points

Items == Trees \cup Points

VARIABLES
  parts,      \* [Trees -> the footprints of the entity]
  base,       \* [Trees -> the anchor: Origin, a footprint or a point]
  on,         \* [Points -> what the point hangs on: Origin, a footprint or a point]
  fixed,      \* footprints of coordinate placements and component nodes
  home,       \* [Refs -> what places a fixed footprint: Origin, a footprint or a point]
  unchecked,  \* trees whose anchor the drift check passes over: named by refdes, say
  broken,     \* items and fixed footprints a pad, mount or net of which is not there
  doubled,    \* refdes that stand twice on the board
  place,      \* [Refs -> where the footprint lies]
  step,       \* "rest", "ordering", "fixing", "moving", "planning"
  wanted,     \* the trees and fixed footprints of the run: all, or those of --only
  clone,      \* [Trees -> {the place of the transient clone}, or {}]
  remaining,  \* items not yet in the order
  level,      \* [Items -> Nat]: levels ordered since the item's own, itself
              \* included; 0: not ordered yet, dropped, or done
  cached,     \* [Refs -> the place the footprint cache holds]
  stale,      \* pending_reread
  resolved,   \* [Points -> {the place}, or {}]
  outcome,    \* of the last run: "none", "completed", "refused" for a cycle, "cut" by
              \* KiCad refusing a commit, "fatal" by a ValidationError, "lost" by a KeyError
  before,     \* place, when the run began (history)
  full,       \* full runs completed (history)
  runs

configVars == <<parts, base, on, fixed, home, unchecked, broken, doubled>>
planVars == <<wanted, clone, remaining, level>>
history == <<before, full, runs>>
vars == <<configVars, place, step, planVars, cached, stale, resolved, outcome, history>>

Steps == {"rest", "ordering", "fixing", "moving", "planning"}
Places == Seq(Items \cup Refs \cup {Origin})

TypeOK ==
  /\ parts \in [Trees -> SUBSET Refs]
  /\ base \in [Trees -> {Origin} \cup Refs \cup Points]
  /\ on \in [Points -> {Origin} \cup Refs \cup Points]
  /\ fixed \subseteq Refs /\ home \in [Refs -> {Origin} \cup Refs \cup Points]
  /\ unchecked \subseteq Trees /\ broken \subseteq Items \cup Refs
  /\ doubled \subseteq Refs
  /\ place \in [Refs -> Places] /\ cached \in [Refs -> Places]
  /\ before \in [Refs -> Places]
  /\ step \in Steps /\ wanted \subseteq Trees \cup Refs
  /\ clone \in [Trees -> SUBSET Places]
  /\ remaining \subseteq Items /\ level \in [Items -> Nat] /\ stale \subseteq Refs
  /\ resolved \in [Points -> SUBSET Places]
  /\ outcome \in {"none", "completed", "refused", "cut", "fatal", "lost"}
  /\ full \in Nat /\ runs \in Nat

Init ==
  /\ parts \in [Trees -> SUBSET Refs]
  /\ base \in [Trees -> {Origin} \cup Refs \cup Points]
  /\ on \in [Points -> {Origin} \cup Refs \cup Points]
  /\ fixed \in SUBSET Refs /\ home \in [Refs -> {Origin} \cup Refs \cup Points]
  /\ \A r \in Refs \ fixed : home[r] = Origin
  /\ unchecked \in SUBSET {t \in Trees : base[t] \in parts[t]}
  /\ broken \in SUBSET (Trees \cup {p \in Points : on[p] \in Refs} \cup fixed)
  /\ doubled \in SUBSET Refs
  /\ place = [r \in Refs |-> <<r>>] /\ cached = place /\ before = place
  /\ step = "rest" /\ wanted = {} /\ clone = [t \in Trees |-> {}]
  /\ remaining = {} /\ level = [i \in Items |-> 0]
  /\ stale = {} /\ resolved = [p \in Points |-> {}]
  /\ outcome = "none" /\ full = 0 /\ runs = 0

-----------------------------------------------------------------------------
(* Anchors.                                                                *)

\* The places of points, given those of the points they hang on.  Where the pad
\* of a footprint is not there, nor is the point.
Hung(above, at) ==
  [q \in Points |-> IF on[q] = Origin THEN {<<q, Origin>>}
                    ELSE IF on[q] \in Refs
                      THEN IF q \in broken THEN {} ELSE {<<q>> \o at[on[q]]}
                    ELSE {<<q>> \o s : s \in above[on[q]]}]

\* Chains of so many points at most.
Chains(at) ==
  LET up[n \in 0 .. Cardinality(Points)] ==
        Hung(IF n = 0 THEN [q \in Points |-> {}] ELSE up[n - 1], at)
  IN  up

\* resolve_point_chain: {the place}, or {} where the chain bites its own tail.
ChainPlace(p, at) == Chains(at)[Cardinality(Points)][p]

\* _anchor_base and _resolve_external_anchor, read from the board.
AnchorBase(b, at) ==
  IF b = Origin THEN {<<Origin>>}
  ELSE IF b \in Refs THEN {at[b]}
  ELSE ChainPlace(b, at)

\* check_tree_self_anchor_drift: a tree does not move the part it hangs on, where
\* the check can tell.  It knows the part of a role or self anchor, and passes
\* over anchors named by refdes, legacy pad anchors, mirrored entities, mounts;
\* a part put back where it lies counts as none of the tree's.
Drifts(t) == base[t] \in parts[t] /\ t \notin unchecked

\* Mutant: that check left out.
PlaceUnchecked(t, at) == {<<t>> \o above : above \in AnchorBase(base[t], at)}

\* Where the entity of a tree belongs.
EntityPlace(t, at) ==
  IF Drifts(t) THEN {} ELSE {<<t>> \o above : above \in AnchorBase(base[t], at)}

\* Where a coordinate placement or a component node puts its footprint.
FixedPlace(r, at) ==
  IF r \in broken THEN {} ELSE {<<r>> \o above : above \in AnchorBase(home[r], at)}

-----------------------------------------------------------------------------
(* _resolve_order.                                                         *)

\* The entities and the component nodes get absolute places, all from the board
\* as it is before the run has moved anything.
StartRun(ws) ==
  /\ step = "rest" /\ runs < MaxRuns
  /\ step' = "ordering" /\ runs' = runs + 1 /\ wanted' = ws
  /\ clone' = [t \in Trees |-> IF t \in ws THEN EntityPlace(t, place) ELSE {}]
  /\ remaining' = Points \cup {t \in ws \cap Trees : EntityPlace(t, place) # {}}
  /\ level' = [i \in Items |-> 0]
  /\ cached' = place /\ stale' = {} /\ resolved' = [p \in Points |-> {}]
  /\ outcome' = "none" /\ before' = place
  /\ UNCHANGED <<configVars, place, full>>

\* The clones of the run that move a footprint.
Producers(r) == {t \in Trees : clone[t] # {} /\ r \in parts[t]}

\* Mutant: a point on a footprint does not wait for what moves it.
PartsNotAwaited(p) == on[p] \notin Points \/ on[p] = p \/ on[p] \notin remaining

\* Mutant: a point does not wait for the point it hangs on.
PointsNotAwaited(p) == on[p] \in Refs => Producers(on[p]) \cap remaining = {}

\* May a point go to this level?  What it hangs on is moved by nobody, or by an
\* item of a level before, or is the point itself.  Of several items that move a
\* footprint the table keeps one, whichever comes last.  Clones are absolute.
Ready(p) ==
  \/ on[p] = Origin
  \/ on[p] \in Refs /\ (Producers(on[p]) # {} => Producers(on[p]) \ remaining # {})
  \/ on[p] \in Points /\ (on[p] = p \/ on[p] \notin remaining)

Level == (remaining \cap Trees) \cup {p \in remaining \cap Points : Ready(p)}

\* resolve_execution_order, one level.
OrderLevel ==
  /\ step = "ordering" /\ Level # {}
  /\ remaining' = remaining \ Level
  /\ level' = [i \in Items |-> IF i \in Level THEN 1
                               ELSE IF level[i] > 0 THEN level[i] + 1 ELSE 0]
  /\ UNCHANGED <<configVars, place, step, wanted, clone, cached, stale, resolved,
                 outcome, history>>

Stop(how) == step' = "rest" /\ outcome' = how

\* A cycle: ValidationError, before anything has moved.
RefuseCycle ==
  /\ step = "ordering" /\ remaining # {} /\ Level = {} /\ Stop("refused")
  /\ UNCHANGED <<configVars, place, planVars, cached, stale, resolved, history>>

\* guard_duplicate_refdes drops an item whole when a refdes of it stands twice.
Guarded(i) == IF i \in Trees THEN parts[i] \cap doubled = {} ELSE on[i] \notin doubled

GuardDuplicates ==
  /\ step = "ordering" /\ remaining = {} /\ step' = "fixing"
  /\ level' = [i \in Items |-> IF Guarded(i) THEN level[i] ELSE 0]
  /\ UNCHANGED <<configVars, place, wanted, clone, remaining, cached, stale, resolved,
                 outcome, history>>

-----------------------------------------------------------------------------
(* _execute.                                                               *)

\* commit_with_retry: a commit KiCad refuses twice is raised, and nothing catches
\* it.  Of its batches some have been carried out, the last one perhaps.
Moved(rs, target) == place' = [r \in Refs |-> IF r \in rs THEN target[r] ELSE place[r]]
Refused(rs, target) ==
  /\ rs # {} /\ Stop("cut")
  /\ \E some \in SUBSET rs : Moved(some, target)

\* Phase 0: the coordinate placements and component nodes, from the board as it
\* still is, and the board is read again.  Of a component node whose tree has no
\* base nothing is asked; a coordinate placement without its anchor raises.
FixedNow == {r \in (fixed \cap wanted) \ doubled : FixedPlace(r, cached) # {}}
FixedTarget == [r \in Refs |-> CHOOSE s \in FixedPlace(r, cached) : TRUE]

MoveFixed ==
  /\ step = "fixing" /\ step' = "moving"
  /\ Moved(FixedNow, FixedTarget) /\ cached' = place'
  /\ UNCHANGED <<configVars, planVars, stale, resolved, outcome, history>>

FixedRefused ==
  /\ step = "fixing" /\ Refused(FixedNow, FixedTarget)
  /\ UNCHANGED <<configVars, planVars, cached, stale, resolved, history>>

FixedMissing ==
  /\ step = "fixing" /\ Stop("fatal")
  /\ \E r \in fixed \cap wanted : FixedPlace(r, cached) = {}
  /\ UNCHANGED <<configVars, place, planVars, cached, stale, resolved, history>>

\* reread_footprints_by_id: the footprints the item before named.
Reread == [r \in Refs |-> IF r \in stale THEN place[r] ELSE cached[r]]

\* Level by level, and in a level the points first.
Turn(i) ==
  /\ level[i] > 0 /\ \A j \in Items : level[j] <= level[i]
  /\ i \in Trees => \A p \in Points : level[p] < level[i]

Done(i) == level' = [level EXCEPT ![i] = 0]

\* Phase 1, a clone: the cached footprints are changed before the commit, and
\* are read again after it.
MoveClone(t) ==
  /\ step = "moving" /\ Turn(t) /\ t \notin broken /\ Done(t)
  /\ \E target \in [parts[t] -> clone[t]] :
       /\ Moved(parts[t], target)
       /\ cached' = [r \in Refs |-> IF r \in parts[t] THEN target[r] ELSE Reread[r]]
  /\ stale' = parts[t]
  /\ UNCHANGED <<configVars, step, wanted, clone, remaining, resolved, outcome, history>>

CloneRefused(t) ==
  /\ step = "moving" /\ Turn(t) /\ t \notin broken
  /\ \E target \in [parts[t] -> clone[t]] : Refused(parts[t], target)
  /\ UNCHANGED <<configVars, planVars, cached, stale, resolved, history>>

\* A pad, a mount or a net of an item is not there: ValidationError, when the
\* items before have moved.
ItemFatal(i) ==
  /\ step = "moving" /\ Turn(i) /\ i \in broken /\ Stop("fatal")
  /\ UNCHANGED <<configVars, place, planVars, cached, stale, resolved, history>>

\* resolve_point: {the place}, or {} when the point it hangs on is not there.
PointPlace(p) ==
  IF on[p] = Origin THEN {<<p, Origin>>}
  ELSE IF on[p] \in Refs THEN {<<p>> \o Reread[on[p]]}
  ELSE {<<p>> \o above : above \in resolved[on[p]]}

\* Phase 1, a point.
ResolvePoint(p) ==
  /\ step = "moving" /\ Turn(p) /\ p \notin broken /\ Done(p)
  /\ PointPlace(p) # {} /\ resolved' = [resolved EXCEPT ![p] = PointPlace(p)]
  /\ cached' = Reread /\ stale' = {}
  /\ UNCHANGED <<configVars, place, step, wanted, clone, remaining, outcome, history>>

\* resolved_points has no such point: KeyError, in the middle of the run.
PointMissing(p) ==
  /\ step = "moving" /\ Turn(p) /\ PointPlace(p) = {} /\ Stop("lost")
  /\ UNCHANGED <<configVars, place, planVars, cached, stale, resolved, history>>

\* Phase 2 begins with the board as it is; a thermal array may be anchored on
\* a point that was dropped.
EndMoves ==
  /\ step = "moving" /\ (\A i \in Items : level[i] = 0)
  /\ step' = "planning" /\ cached' = place /\ stale' = {}
  /\ UNCHANGED <<configVars, place, planVars, resolved, outcome, history>>

ArrayWithoutPoint ==
  /\ step = "planning" /\ (\E p \in Points : resolved[p] = {}) /\ Stop("lost")
  /\ UNCHANGED <<configVars, place, planVars, cached, stale, resolved, history>>

\* The pad of a thermal array is not there, or KiCad refuses copper.
CopperFails ==
  /\ step = "planning" /\ (Stop("fatal") \/ Stop("cut"))
  /\ UNCHANGED <<configVars, place, planVars, cached, stale, resolved, history>>

Complete ==
  /\ step = "planning" /\ Stop("completed")
  /\ full' = IF Trees \cup fixed \subseteq wanted THEN full + 1 ELSE full
  /\ UNCHANGED <<configVars, place, planVars, cached, stale, resolved, before, runs>>

Next ==
  \/ \E ws \in SUBSET (Trees \cup fixed) \ {{}} : StartRun(ws)
  \/ OrderLevel \/ RefuseCycle \/ GuardDuplicates
  \/ MoveFixed \/ FixedRefused \/ FixedMissing
  \/ \E t \in Trees : MoveClone(t) \/ CloneRefused(t)
  \/ \E p \in Points : ResolvePoint(p) \/ PointMissing(p)
  \/ \E i \in Items : ItemFatal(i)
  \/ EndMoves \/ ArrayWithoutPoint \/ CopperFails \/ Complete

Spec == Init /\ [][Next]_vars

-----------------------------------------------------------------------------
(* Properties.                                                             *)

\* A point is resolved when what it hangs on has come to rest: to the end of the
\* moves it says what the board then says, whoever moved what, in whatever order
\* (placement/dependency_order.py:146-191, apply_pipeline.py:821-849).
PointsCurrent ==
  step = "planning" => \A p \in Points : resolved[p] \subseteq ChainPlace(p, place)

\* The order never lets a run down: none is lost in the middle, over a point that
\* is asked for before it is resolved, unless the point was dropped because what
\* it hangs on stands twice, or hangs on itself (dependency_order.py:150-191,
\* point_resolver.py:82-92, apply_pipeline.py:995-1000).
NoneLost == outcome = "lost" => \E p \in Points : on[p] = p \/ on[p] \in doubled

\* ... whatever the points.
AlwaysFound == outcome # "lost"

\* A run that stops early has moved nothing.
AlwaysWhole == outcome \in {"refused", "cut", "fatal", "lost"} => place = before

\* Where its tree or its coordinate placement wants a footprint.
Belongs(r, at) ==
  (UNION {EntityPlace(t, at) : t \in {u \in Trees : r \in parts[u]}})
    \cup (IF r \in fixed THEN FixedPlace(r, at) ELSE {})

InPlace(r) == Belongs(r, place) # {} => place[r] \in Belongs(r, place)

\* Everything has one place to be.
Consistent ==
  /\ doubled = {} /\ \A t \in Trees : parts[t] \cap fixed = {}
  /\ \A t, u \in Trees : t # u => parts[t] \cap parts[u] = {}

\* The footprint an anchor comes down to.
Footing(b) == IF b \in Points
              THEN {r \in Refs : \E above \in ChainPlace(b, [q \in Refs |-> <<q>>]) :
                                   r = above[Len(above)]}
              ELSE {b} \cap Refs

\* What a footprint hangs on; a tree that is not redrawn puts it nowhere.
Under(r) ==
  (UNION {Footing(base[t]) : t \in {u \in Trees : r \in parts[u] /\ ~Drifts(u)}})
    \cup (IF r \in fixed THEN Footing(home[r]) ELSE {})

\* No footprint hangs, through whatever it hangs on, on itself.
Ranked ==
  \E rank \in [Refs -> 1 .. Cardinality(Refs)] :
    \A r \in Refs : \A s \in Under(r) : rank[s] < rank[r]

\* Repeating the run brings every footprint to where what it hangs on then is, in
\* as many full runs as footprints can hang on one another, and there it stays:
\* whatever narrowed runs, refused commits and runs that stopped in the middle
\* come between or after (entity_placement.py:762-880, apply_pipeline.py:771-852).
RepeatsSettle ==
  step = "rest" /\ full >= Cardinality(Refs) /\ Consistent /\ Ranked =>
    \A r \in Refs : InPlace(r)

\* A tree that places the very part it hangs on is not redrawn
\* (entity_placement.py:825-834).
NoneDragged == \A t \in Trees : base[t] \in parts[t] => clone[t] = {}

\* One run is enough: an anchor that the same run moves is seen where it ends
\* (apply_pipeline.py:776-779, placement/dependency_order.py:3-7).
AnchorsSeenFinal ==
  outcome = "completed" /\ Trees \cup fixed \subseteq wanted /\ Consistent /\ Ranked =>
    \A r \in Refs : InPlace(r)
=============================================================================
