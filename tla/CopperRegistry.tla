--------------------------- MODULE CopperRegistry ---------------------------
(***************************************************************************)
(* The life of tool-drawn copper over many Apply / Redraw runs: the live   *)
(* board, the registry file that maps a record's key to the uuid of the    *)
(* item drawn for it, and the steps one run takes over them                *)
(* (kicadstamp/apply_pipeline.py ApplyPipeline._execute, with              *)
(* registry.py, adopt_at_current_place.py and the via/track executors).    *)
(*                                                                         *)
(* One registry of one kind is modelled: vias and tracks run the same      *)
(* code (BaseRegistry) over disjoint live lists and disjoint files.        *)
(*                                                                         *)
(* An anchor is an entity with its cell, or a thermal via array or a net   *)
(* trace with its list of records.  A key is <<anchor, index>>: the record *)
(* with that number.  A place is <<pose of the anchor, slot in its list>>: *)
(* moving the components changes the pose of every record of an anchor,    *)
(* editing the list changes the slot a number stands for.                  *)
(***************************************************************************)
EXTENDS Naturals, FiniteSets, Functions

CONSTANTS
  Anchors,     \* anchor ids a config may produce
  Entities,    \* those of entities; the others are thermal arrays and net traces
  Indices,     \* record numbers within one cell
  Poses,       \* where an instance may stand on the board
  Slots,       \* where a record may lie inside its cell
  Layouts,     \* the lists a user may write into a cell
  NoSlot,      \* "the cell has no record with this number"
  NoPlace,     \* "no item with this uuid is on the board"
  MaxUuid,     \* bound on the items ever drawn
  MaxEdits,    \* bound on the edits a user makes between runs
  MaxRefused,  \* bound on refused calls and lost replies
  MaxCrashes,  \* bound on the deaths of the program inside a run
  BatchSize    \* commands per commit (constants.DEFAULT_BATCH_SIZE)

Keys   == Anchors \X Indices
Uuids  == 1 .. MaxUuid
NoUuid == 0
Places == Poses \X Slots

ASSUME BoundsAssumption ==
  /\ MaxUuid \in Nat /\ MaxEdits \in Nat
  /\ MaxRefused \in Nat /\ MaxCrashes \in Nat
  /\ BatchSize \in Nat \ {0}
ASSUME MarkersAssumption == NoSlot \notin Slots /\ NoPlace \notin Places
ASSUME FinitenessAssumption == IsFiniteSet(Anchors) /\ IsFiniteSet(Indices)
ASSUME EntitiesAssumption == Entities \subseteq Anchors
ASSUME LayoutsAssumption == Layouts \subseteq [Indices -> Slots \cup {NoSlot}]

VARIABLES
  board,     \* [Uuids -> place of the live item, or NoPlace]
  next,      \* the next uuid KiCad will give out
  file,      \* the registry file: [Keys -> uuid or NoUuid]
  cell,      \* the config: [Keys -> slot or NoSlot]
  known,     \* anchors the config produces (config_anchor_ids)
  target,    \* the config: [Anchors -> pose the records plan]
  pose,      \* the live board: [Anchors -> pose the components stand at]
  pc,        \* the step the run stands at; "idle" between runs
  only,      \* anchors this run processes (--only / --cluster, or all)
  rigid,     \* anchors whose live cluster is a rigid copy of the cell
  entries,   \* the run's in-memory registry
  binds,     \* adoptions decided and not yet written: {<<key, uuid>>}
  drops,     \* released keys decided and not yet forgotten
  doomed,    \* uuids reconcile gave to the caller to delete
  packet,    \* "clean", or "repeats" when a uuid is named twice in it
  todo,      \* keys whose copper is still to be drawn
  pending,   \* drawn and committed, not yet recorded: {<<key, uuid>>}
  drawn,     \* every uuid a run has drawn (history)
  heldBefore, \* uuids the registry held when the run began (history)
  again,     \* this run repeats a completed one, with nothing changed between
  edits, refused, crashes

boardVars  == <<board, next, drawn>>
configVars == <<cell, known, target>>
planVars   == <<binds, drops, doomed, packet, todo, pending>>
runVars    == <<only, rigid, again, heldBefore>>
faultVars  == <<refused, crashes>>
vars == <<board, next, drawn, file, cell, known, target, pose, pc, only, rigid,
          entries, binds, drops, doomed, packet, todo, pending, again,
          heldBefore, edits, refused, crashes>>

Steps == {"idle", "adopt", "bind", "claim", "reconcile", "delete", "draw",
          "record", "done"}

-----------------------------------------------------------------------------
(* Places, liveness and ownership.                                         *)

Live == {u \in Uuids : board[u] # NoPlace}

\* Where the record of key k lies when its instance stands as in `at`.
PlaceOf(k, at) == <<at[k[1]], cell[k]>>

StandsAt(u, k, at) == cell[k] # NoSlot /\ board[u] = PlaceOf(k, at)

\* The keys the plan of this run produces.
RunKeys == {k \in Keys : k[1] \in only /\ cell[k] # NoSlot}

Held(reg)  == {reg[k] : k \in Keys} \ {NoUuid}

\* What config_anchor_ids sees of the narrowed config: --only and --cluster
\* cut the thermal arrays and the net traces out of it, never the entities.
NarrowedAnchors == known \cap (Entities \cup only)

\* Uuids held by keys of no anchor of that config, and by no other key: such
\* an entry owns nothing.
OrphanUuids(reg) ==
  {reg[k] : k \in {x \in Keys : x[1] \notin NarrowedAnchors}}
    \ {reg[k] : k \in {x \in Keys : x[1] \in NarrowedAnchors}}

\* The cells of every anchor, each written as one of the layouts.
Cells == {c \in [Keys -> Slots \cup {NoSlot}] :
            \A a \in Anchors : [i \in Indices |-> c[<<a, i>>]] \in Layouts}

EmptyRegistry == [k \in Keys |-> NoUuid]

-----------------------------------------------------------------------------
(* adopt_cell_copper_at_current_place: decided on the pre-move board.      *)

\* A key of a rigid instance whose stored item lies off the record's place
\* and exactly at another record's place of the same cell: a shifted number.
Shifted(reg, a) ==
  {k \in RunKeys : /\ k[1] = a
                   /\ reg[k] \in Live
                   /\ ~StandsAt(reg[k], k, pose)
                   /\ \E o \in Keys : o[1] = a /\ o # k /\ StandsAt(reg[k], o, pose)}

Released(reg, a) == {reg[k] : k \in Shifted(reg, a)}

\* The live items the record of k may adopt where it lies right now.
AdoptCandidates(reg, k) ==
  LET owned == Held(reg) \ OrphanUuids(reg)
  IN  {u \in Live : StandsAt(u, k, pose) /\ u \notin owned \ Released(reg, k[1])}

\* A key whose own item is on the board, and is not released, is left alone.
MayAdopt(reg, rig, k) ==
  /\ k \in RunKeys /\ k[1] \in rig
  /\ ~(reg[k] \in Live \ Released(reg, k[1]))

\* A record with one candidate claims it; with several it is ambiguous.
Claims(reg, rig) ==
  {c \in Keys \X Uuids : /\ MayAdopt(reg, rig, c[1])
                         /\ AdoptCandidates(reg, c[1]) = {c[2]}}

\* An item two records claim is taken by neither.
Bindings(reg, rig) ==
  {c \in Claims(reg, rig) : \A d \in Claims(reg, rig) : d[2] = c[2] => d = c}

\* A released key that found no copper of its own must not stay.
Forgotten(reg, rig) ==
  (UNION {Shifted(reg, a) : a \in rig \cap only}) \ {c[1] : c \in Bindings(reg, rig)}

-----------------------------------------------------------------------------
(* registry.reconcile: what to draw, what to delete, what stays.           *)

InPlace(k) == entries[k] \in Live /\ board[entries[k]] = PlaceOf(k, target)
\* Mutant: an entry whose item is gone is named for deletion too.
MovedOrGone == {k \in RunKeys : ~InPlace(k)}

Moved      == {k \in RunKeys : entries[k] \in Live /\ ~InPlace(k)}
ToDraw     == {k \in RunKeys : ~InPlace(k)}

\* Entries after the loop over the planned commands.
AfterPlanned == [k \in Keys |-> IF k \in ToDraw THEN NoUuid ELSE entries[k]]

SeenAnchors == {k[1] : k \in RunKeys}

\* Mutants: no protection for what --only filtered out; and protection for
\* every key of a known anchor, processed in this run or not.
StaleUnprotected == {k \in Keys \ RunKeys : entries[k] # NoUuid}
StaleUnknownOnly == {k \in Keys \ RunKeys : entries[k] # NoUuid /\ k[1] \notin known}

\* Keys of no command of this run, unless their whole anchor was filtered
\* out by --only while the config still has it.
Stale == {k \in Keys \ RunKeys :
            entries[k] # NoUuid /\ ~(k[1] \notin SeenAnchors /\ k[1] \in known)}

AfterPrune == [k \in Keys |-> IF k \in Stale THEN NoUuid ELSE AfterPlanned[k]]

\* Mutant: a moved record's old item is not named for deletion.
ToDeleteStaleOnly ==
  {u \in {entries[k] : k \in Stale} : u \in Live \ {AfterPlanned[k] : k \in RunKeys}}

ToDelete ==
  LET held == {AfterPlanned[k] : k \in RunKeys}
  IN  {entries[k] : k \in Moved}
        \cup {u \in {entries[k] : k \in Stale} : u \in Live \ held}

\* Two planned keys name the same item for deletion: the uuid is appended twice.
NamedTwice == \E j, k \in Moved : j # k /\ entries[j] = entries[k]

\* Mutants: the doomed items still count as copper in place; and no
\* positional check at all.
MissingStaleList(keys, gone) == {k \in keys : \A u \in Live : board[u] # PlaceOf(k, target)}
MissingUnchecked(keys, gone) == keys

\* filter_existing_vias over the list _live_items_after_deletion leaves.
Missing(keys, gone) ==
  {k \in keys : \A u \in Live \ gone : board[u] # PlaceOf(k, target)}

-----------------------------------------------------------------------------
(* The program starts with an empty registry and nothing drawn.            *)

NothingPlanned ==
  /\ binds' = {} /\ drops' = {} /\ doomed' = {} /\ packet' = "clean"
  /\ todo' = {} /\ pending' = {}

Init ==
  /\ board = [u \in Uuids |-> NoPlace] /\ next = 1 /\ drawn = {}
  /\ file = EmptyRegistry /\ entries = EmptyRegistry
  /\ cell \in Cells /\ known = Anchors
  /\ target \in [Anchors -> Poses] /\ pose = target
  /\ pc = "idle" /\ only = {} /\ rigid = {} /\ again = FALSE
  /\ binds = {} /\ drops = {} /\ doomed = {} /\ packet = "clean"
  /\ todo = {} /\ pending = {}
  /\ heldBefore = {} /\ edits = 0 /\ refused = 0 /\ crashes = 0

AtRest == pc \in {"idle", "done"}

-----------------------------------------------------------------------------
(* One run.                                                                *)

Refuse == refused < MaxRefused /\ refused' = refused + 1

\* An exception, or the death of the program: what was in memory is gone.
RunEnds ==
  /\ pc' = "idle" /\ only' = {} /\ rigid' = {} /\ again' = FALSE /\ heldBefore' = {}
  /\ entries' = EmptyRegistry
  /\ NothingPlanned

\* Narrow the config to `sel` and open the registry.  `rig` are the entities
\* whose live components form a rigid copy of the cell: the adoption pass
\* looks at no array and at no trace.
Start(sel, rig) ==
  /\ AtRest /\ sel # {} /\ rig \subseteq Entities
  /\ pc' = "adopt" /\ only' = sel /\ rigid' = rig /\ entries' = file
  /\ again' = (pc = "done" /\ sel \subseteq only) /\ heldBefore' = Held(file)
  /\ UNCHANGED <<boardVars, file, configVars, pose, planVars, edits, faultVars>>

\* The pass reads the board once, decides, and then writes one key at a time.
DecideAdoption ==
  /\ pc = "adopt"
  /\ binds' = Bindings(entries, rigid) /\ drops' = Forgotten(entries, rigid)
  /\ pc' = "bind"
  /\ UNCHANGED <<boardVars, file, configVars, pose, runVars, entries, doomed,
                 packet, todo, pending, edits, faultVars>>

Save(reg) == entries' = reg /\ file' = reg

\* registry.adopt_live, one call per binding.
AdoptLive ==
  /\ pc = "bind"
  /\ \E c \in binds : /\ Save([entries EXCEPT ![c[1]] = c[2]])
                      /\ binds' = binds \ {c}
  /\ UNCHANGED <<boardVars, configVars, pose, pc, runVars, drops, doomed,
                 packet, todo, pending, edits, faultVars>>

\* registry.forget_key, after every binding is written.
ForgetKey ==
  /\ pc = "bind" /\ binds = {}
  /\ \E k \in drops : /\ Save([entries EXCEPT ![k] = NoUuid])
                      /\ drops' = drops \ {k}
  /\ UNCHANGED <<boardVars, configVars, pose, pc, runVars, binds, doomed,
                 packet, todo, pending, edits, faultVars>>

\* Phase 0 and 1: every component of the run stands where it is planned.
MoveComponents ==
  /\ pc = "bind" /\ binds = {} /\ drops = {}
  /\ pose' = [a \in Anchors |-> IF a \in only THEN target[a] ELSE pose[a]]
  /\ pc' = "claim"
  /\ UNCHANGED <<boardVars, file, configVars, runVars, entries, planVars,
                 edits, faultVars>>

\* A move batch is refused twice: the exception ends the run part way.
MovesRaise ==
  /\ pc = "bind" /\ binds = {} /\ drops = {} /\ Refuse
  /\ \E part \in SUBSET only :
        pose' = [a \in Anchors |-> IF a \in part THEN target[a] ELSE pose[a]]
  /\ RunEnds
  /\ UNCHANGED <<boardVars, file, configVars, edits, crashes>>

\* adopt_matching_unowned: a planned key the registry does not know takes a
\* live item at its planned place that no entry owns, first come first served.
Claimable(k) == {u \in Live \ Held(entries) : board[u] = PlaceOf(k, target)}

Unregistered == {k \in RunKeys : entries[k] = NoUuid}

\* Mutant: an item is not marked as taken by the first key that claims it.
ClaimingTwice(take) ==
  \A k \in Unregistered :
     IF Claimable(k) = {} THEN take[k] = NoUuid ELSE take[k] \in Claimable(k)

Claiming(take) ==
  /\ \A k \in Unregistered : take[k] \in Claimable(k) \cup {NoUuid}
  /\ \A j, k \in Unregistered : take[j] = take[k] /\ take[j] # NoUuid => j = k
  /\ \A k \in Unregistered : take[k] = NoUuid =>
        \A u \in Claimable(k) : \E j \in Unregistered : take[j] = u

ClaimUnowned ==
  /\ pc = "claim"
  /\ \E take \in [Unregistered -> Uuids \cup {NoUuid}] :
        /\ Claiming(take)
        /\ Save([k \in Keys |-> IF k \in Unregistered THEN take[k] ELSE entries[k]])
  /\ pc' = "reconcile"
  /\ UNCHANGED <<boardVars, configVars, pose, runVars, planVars, edits, faultVars>>

\* The registry is saved without the doomed items before they are deleted.
Reconcile ==
  /\ pc = "reconcile"
  /\ todo' = ToDraw /\ doomed' = ToDelete
  /\ packet' = IF NamedTwice THEN "repeats" ELSE "clean"
  /\ Save(AfterPrune)
  /\ pc' = "delete"
  /\ UNCHANGED <<boardVars, configVars, pose, runVars, binds, drops, pending,
                 edits, faultVars>>

\* adapter.remove_by_ids: one packet, whose refusal is logged and ignored.
RemoveByIds(done) ==
  /\ pc = "delete"
  /\ board' = [u \in Uuids |-> IF done /\ u \in doomed THEN NoPlace ELSE board[u]]
  /\ todo' = Missing(todo, doomed) /\ doomed' = {} /\ packet' = "clean"
  /\ pc' = "draw"
  /\ UNCHANGED <<next, drawn, file, configVars, pose, runVars, entries, binds,
                 drops, pending, edits, crashes>>

Delete == RemoveByIds(TRUE) /\ UNCHANGED refused

DeleteRefused ==
  /\ doomed # {}
  /\ \/ packet = "repeats" /\ UNCHANGED refused
     \/ Refuse
  /\ RemoveByIds(FALSE)

-----------------------------------------------------------------------------
(* execute_vias / execute_tracks: one commit per batch, retried once.      *)

Batches ==
  {b \in (SUBSET todo) \ {{}} :
     Cardinality(b) = BatchSize \/ (Cardinality(b) < BatchSize /\ b = todo)}

\* The uuids KiCad gives a batch of n commands drawn from uuid `from` on.
Numberings(b, from) == Injection(b, from .. (from + Cardinality(b) - 1))

Pairs(f) == {<<k, f[k]>> : k \in DOMAIN f}

\* Mutant: every item of the batch is created from one command.
DrawnFromOne(brd, f) ==
  [u \in Uuids |-> IF u \in Range(f) THEN PlaceOf(CHOOSE k \in DOMAIN f : TRUE, target)
                                     ELSE brd[u]]

Drawn(brd, f) ==
  [u \in Uuids |-> IF u \in Range(f) THEN PlaceOf(CHOOSE k \in DOMAIN f : f[k] = u, target)
                                     ELSE brd[u]]

Fits(n) == next + n - 1 <= MaxUuid

DrawBatch ==
  /\ pc = "draw" /\ pending = {}
  /\ \E b \in Batches : \E f \in Numberings(b, next) :
        /\ Fits(Cardinality(b))
        /\ board' = Drawn(board, f) /\ pending' = Pairs(f)
        /\ next' = next + Cardinality(b) /\ todo' = todo \ b
        /\ drawn' = drawn \cup Range(f)
  /\ pc' = "record"
  /\ UNCHANGED <<file, configVars, pose, runVars, entries, binds, drops,
                 doomed, packet, edits, faultVars>>

\* The first attempt is reported failed and the second succeeds.  Both
\* attempts' pairs are pending.  The first attempt's copper is gone when the
\* roll back worked, and stays when only the reply to the push was lost.
DrawBatchRetried ==
  /\ pc = "draw" /\ pending = {} /\ Refuse
  /\ \E b \in Batches :
        LET n == Cardinality(b) IN
        /\ Fits(2 * n)
        /\ \E f \in Numberings(b, next), g \in Numberings(b, next + n) :
              /\ \/ board' = Drawn(board, g)
                 \/ board' = Drawn(Drawn(board, f), g)
              /\ pending' = Pairs(f) \cup Pairs(g)
              /\ drawn' = drawn \cup Range(f) \cup Range(g)
        /\ next' = next + 2 * n /\ todo' = todo \ b
  /\ pc' = "record"
  /\ UNCHANGED <<file, configVars, pose, runVars, entries, binds, drops,
                 doomed, packet, edits, crashes>>

\* Both attempts are reported failed: commit_with_retry raises and the run
\* ends.  Each attempt's copper may have stayed.
DrawBatchRaises ==
  /\ pc = "draw" /\ pending = {} /\ Refuse
  /\ \E b \in Batches : \E f \in Numberings(b, next) :
        /\ Fits(Cardinality(b))
        /\ board' \in {board, Drawn(board, f)}
        /\ next' = next + Cardinality(b) /\ drawn' = drawn \cup Range(f)
  /\ RunEnds
  /\ UNCHANGED <<file, configVars, pose, edits, crashes>>

\* registry.record_created for each pair, in the order they were created.
RecordCreated ==
  /\ pc = "record"
  /\ \E p \in pending :
        /\ \A q \in pending : p[2] <= q[2]
        /\ Save([entries EXCEPT ![p[1]] = p[2]])
        /\ pending' = pending \ {p}
  /\ pc' = IF Cardinality(pending) = 1 THEN "draw" ELSE "record"
  /\ UNCHANGED <<boardVars, configVars, pose, runVars, binds, drops, doomed,
                 packet, todo, edits, faultVars>>

Finish ==
  /\ pc = "draw" /\ todo = {} /\ pending = {}
  /\ pc' = "done" /\ entries' = EmptyRegistry
  /\ UNCHANGED <<boardVars, file, configVars, pose, runVars, planVars, edits,
                 faultVars>>

\* The process dies between two steps; in the middle of a save the file is
\* left torn, and load_registry reads a torn file as an empty registry.
Crash(torn) ==
  /\ ~AtRest /\ crashes < MaxCrashes /\ crashes' = crashes + 1
  /\ torn => pc \in {"bind", "claim", "reconcile", "record"}
  /\ file' = IF torn THEN EmptyRegistry ELSE file
  /\ RunEnds
  /\ UNCHANGED <<boardVars, configVars, pose, edits, refused>>

-----------------------------------------------------------------------------
(* What the user does between runs, in the config and in KiCad.            *)

Edit ==
  /\ AtRest /\ edits < MaxEdits /\ edits' = edits + 1
  /\ RunEnds
  /\ UNCHANGED <<file, faultVars>>

EditCell ==
  /\ Edit
  /\ \E a \in Anchors : \E slots \in Layouts :
        cell' = [k \in Keys |-> IF k[1] = a THEN slots[k[2]] ELSE cell[k]]
  /\ UNCHANGED <<boardVars, known, target, pose>>

EditTarget ==
  /\ Edit
  /\ \E a \in Anchors, p \in Poses : target' = [target EXCEPT ![a] = p]
  /\ UNCHANGED <<boardVars, known, cell, pose>>

EditRecords ==
  /\ Edit
  /\ known' \in SUBSET Anchors
  /\ UNCHANGED <<boardVars, target, cell, pose>>

HandMove ==
  /\ Edit
  /\ \E a \in Anchors, p \in Poses : pose' = [pose EXCEPT ![a] = p]
  /\ UNCHANGED <<boardVars, configVars>>

HandDraw ==
  /\ Edit /\ Fits(1)
  /\ \E p \in Places : board' = [board EXCEPT ![next] = p]
  /\ next' = next + 1
  /\ UNCHANGED <<drawn, configVars, pose>>

HandDelete ==
  /\ Edit
  /\ \E u \in Live : board' = [board EXCEPT ![u] = NoPlace]
  /\ UNCHANGED <<next, drawn, configVars, pose>>

Next ==
  \/ \E sel \in SUBSET known, rig \in SUBSET known :
        rig \subseteq sel /\ Start(sel, rig)
  \/ DecideAdoption \/ AdoptLive \/ ForgetKey
  \/ MoveComponents \/ MovesRaise
  \/ ClaimUnowned \/ Reconcile \/ Delete \/ DeleteRefused
  \/ DrawBatch \/ DrawBatchRetried \/ DrawBatchRaises
  \/ RecordCreated \/ Finish
  \/ \E torn \in BOOLEAN : Crash(torn)
  \/ EditCell \/ EditTarget \/ EditRecords \/ HandMove \/ HandDraw \/ HandDelete

Spec == Init /\ [][Next]_vars

-----------------------------------------------------------------------------
(* Properties.                                                             *)

\* Every variable keeps its shape; in particular only uuids of items are ever
\* named for deletion and only keys are ever dropped.
TypeOK ==
  /\ board \in [Uuids -> Places \cup {NoPlace}] /\ next \in 1 .. MaxUuid + 1
  /\ drawn \subseteq Uuids
  /\ file \in [Keys -> Uuids \cup {NoUuid}]
  /\ entries \in [Keys -> Uuids \cup {NoUuid}]
  /\ cell \in [Keys -> Slots \cup {NoSlot}] /\ known \subseteq Anchors
  /\ target \in [Anchors -> Poses] /\ pose \in [Anchors -> Poses]
  /\ pc \in Steps /\ only \subseteq Anchors /\ rigid \subseteq only
  /\ binds \subseteq Keys \X Uuids /\ drops \subseteq Keys
  /\ doomed \subseteq Uuids /\ packet \in {"clean", "repeats"}
  /\ todo \subseteq Keys /\ pending \subseteq Keys \X Uuids
  /\ again \in BOOLEAN /\ heldBefore \subseteq Uuids
  /\ edits \in 0 .. MaxEdits /\ refused \in 0 .. MaxRefused /\ crashes \in 0 .. MaxCrashes

\* A completed run leaves copper at every place it planned, whatever the
\* registry, the adoptions and the deletions before it were: no item is
\* deleted under one key and counted "already in place" under another
\* (registry.reconcile, adopt_at_current_place.py:370-378).
Settled ==
  pc = "done" => \A k \in RunKeys : \E u \in Live : board[u] = PlaceOf(k, target)

\* Between runs no two keys hold one item: every rebinding of the adoption
\* pass is matched by a release, every claim by an unowned item, every
\* recording by a fresh uuid.
OneOwner ==
  AtRest => \A j, k \in Keys : file[j] = file[k] /\ file[j] # NoUuid => j = k

\* Repeating a completed run, narrowed or not, with nothing changed between
\* the two deletes nothing and draws nothing.
RepeatIsQuiet ==
  again => doomed = {} /\ (pc \in {"draw", "record"} => todo = {} /\ pending = {})

\* A narrowed run names no item for deletion that a key of an anchor outside
\* the run, still in the config, holds (known_anchor_ids, registry.py:245-254).
ProtectedSurvives ==
  [][\A u \in doomed', k \in Keys : k[1] \in known \ only => entries[k] # u]_vars

\* As long as no call was refused, a run never loses sight of copper the
\* registry knew when the run began: an item that is still on the board is
\* either held by a key or lies where the run plans copper (where the next run
\* claims it).  A refused deletion leaves its copper behind, logged.
KeepsTrack ==
  pc = "done" /\ refused = 0 => \A u \in heldBefore \cap Live :
     u \in Held(file) \/ \E k \in RunKeys : board[u] = PlaceOf(k, target)

\* However often runs die and are repeated, a completed run leaves no place
\* with two items drawn by the tool, as long as KiCad refused no call and lost
\* no reply.
NoDuplicates ==
  pc = "done" /\ refused = 0 => \A u, v \in drawn \cap Live, k \in RunKeys :
     board[u] = PlaceOf(k, target) /\ board[v] = PlaceOf(k, target) => u = v

\* After a completed run the registry holds no key, under the clusters it
\* processed, that the config no longer has (registry.py:7-9 and 256-266).
StaleGone ==
  pc = "done" => \A k \in Keys : file[k] # NoUuid /\ k[1] \in only => cell[k] # NoSlot

\* No uuid is named twice in one remove_by_ids packet (registry.py:345-350).
CleanPacket == packet = "clean"
=============================================================================
