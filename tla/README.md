# KiCadStamp: specifications, model checks and proofs

KiCadStamp places components and draws vias and tracks on a board that is open
in a running KiCad, over KiCad's IPC socket. It keeps files of its own (a config
graph, a registry of what it drew, a log for undo, a journal of exploded
clusters) and changes a board it does not own: a user edits it, KiCad refuses
or loses calls, the program dies, other programs write the same files. What can
go wrong there takes several runs or several actors, and is what these
specifications are about.

Contents: 1 inventory, 2 the modules, 3 the runs, 4 known divergences,
5 fairness, 6 the proofs, 7 what is not modelled, 8 plan.

To check a run: `tlc -workers 2 -config <run>.cfg MC<module>.tla`; a proof:
`tlapm <module>.tla`.

## 1. Inventory

| component | state it keeps | operations | talks to | hard part |
|---|---|---|---|---|
| Tool copper (`registry.py`, `apply_pipeline.py`, `adopt_at_current_place.py`, `registry_match.py`, `via_executor.py`, `track_executor.py`) | the live items; the registry file (key of a record → uuid); during a run the adoptions, the doomed items, the batches | adopt, release, move, claim, reconcile, delete, draw, record | KiCad, the config | deaths and lost replies between board and file; narrowed runs; user edits between runs |
| Operation log, undo (`executor/*.py`, `imprint_apply.py`, `undo.py`, `cli.py`) | per-item original states, uuids of created copper; one `operation_*.json` per pass | execute moves, create, write log, undo | KiCad, files | a log written last; retried commits; undo repeated after a death |
| Long operations of the GUI (`gui/worker.py`, `slow_poll.py`, `main_window.py`) | the token of the one socket; per operation its widgets, cursor, indicator; the keep-alive set | start, defer, refuse, abandon, deliver, poll tick | threads, Qt events | events in any order; windows closing; everyone answered |
| Config working set and caches (`config_working_set.py`, `utils/file_cache.py`, `config_writer.py`) | staged contents; file cache and graph cache by mtime; `.history/` | load, stage, Save, Discard | workers, Syncthing | stale caches; half a Save; files replaced meanwhile |
| Explode and put back (`explode_journal.py`, `explode_cli.py`, `gui/docks/explode_page.py`, `explode_guard.py`) | a journal of places per board; the GUI's lock | plan, explode, verify, restore, forget, read state | KiCad, files, the long operations | deaths and lost replies between journal and board; two processes |
| Board connection of the GUI (`gui/connection.py`, `adapter_factory.py`, `explore.py`, `field_override_adapter.py`) | the adapter in use and its socket, the override store bound to it, the snapshot | connect with a time limit, refresh, disconnect, switch the project, reload the store | a throwaway thread per attempt, the poll worker | a success later than its time limit; the UI thread rebinds under the worker |
| The ways out (`gui/exit_guard.py`, `explode_wiring.py`, `main_window.py`, `tray.py`) | edits in forms, staged edits, clusters aside, a restore in flight, `_explode_exit_ok` | close, quit, the two questions, the restore that goes on with the exit | the working set, explode | what happens while a question or a restore is open |
| KiCad adapter (`kicad/*.py`) | caches of footprints | commit with a retry, create, delete | KiCad | the reply to a push that came off is lost |
| MCP server (`mcp_server/*.py`) | one adapter under one lock | execute, reconnect once and run again, raw move, apply | KiCad | a call run twice; a board switched between its steps |
| Placement order, planning (`placement/*.py`, `apply_pipeline.py`) | the footprint cache, resolved points, the order | make entities into clones, order, move level by level, re-read | the config, the board | what each item sees of those before it; cycles; doubled refdes |
| Config loading, lifting, writing, rename (`config/*.py`, `config_writer.py`, `config_rename.py`) | the files' formats, numbers of records, keys of registries | open (lift files, then registries), stamp, rename, write | the working set, a second program, Syncthing | deaths between two files of one graph; two programs lift at once |
| Trees, roles, net traces, capture, schematic access, overlay, docks, cloner, geometry, tools | see PROJECT.json | | | |

How they interact. A run of the pipeline is planned from the config and the
board, moves components, then settles copper against the registry; the same
executors write the log that undo reads. In the GUI every such run is a long
operation: one at a time on the shared socket, and none of them while clusters
are exploded. Every reader of the config reads through the working set. So the
modules below meet at few places: the long operations' token (module
`LongOps` justifies that `ExplodeRestore` runs one GUI operation at a time and
that the jobs of `BoardConnection` exclude each other), the gate (`exploded` of
`LongOps` is `guard` of `ExplodeRestore` and `exploded` of `ExitGuard`), the
working set (`staged` of `ExitGuard` is its being dirty in `ConfigStaging`), and
the places `PlacementRun` arrives at, which are `pose` for `CopperRegistry`.

What makes each of the modelled components correct:

- copper: a completed run leaves a record's copper where the config plans it,
  one item has one owner, nothing drawn is forgotten, nothing outside a
  narrowed run is touched, repeating a run does nothing;
- undo: what the log names goes back, what was created is in a log, and what a pass
  without a log did is all that stays;
- long operations: one request at a time, a released token is one's own, every
  window gets its widgets back, every caller is answered;
- staging: whoever loads sees what the user works on, what is validated is what
  is on the disk in the end, no edit is dropped silently, what is overwritten was copied;
- explode: an original place is on the disk as long as it is needed;
- connection: every socket has an owner, what is shown is what is in force;
- exit: nothing is lost without a question, and no cluster stays aside;
- raw move: only what was asked for moves, where it was asked to, however often
  the call is run;
- placement: an item sees its anchor at rest, the order loses no point, repeated
  runs settle, whatever a refused commit or a missing pad cut short between them;
- lift: references and registry keys keep their meaning, the profile loads, what
  is overwritten was copied, an undisturbed open lifts everything.

The hazards, each at its line and with the properties that would show it going
wrong, are listed in PROJECT.json.

## 2. The modules

Each variable and each action is a line of `map` in PROJECT.json, with the
source lines it translates.

### CopperRegistry

One registry of one kind; vias and tracks run the same code over lists and
files of their own. A key is `<<anchor, number of the record in its cell>>`, a
place is `<<pose of the instance, slot in the cell>>`; equality of places
stands for the code's agreement within a tolerance. `board` is the live items,
`file` the registry on the disk, `entries` the run's copy of it, `cell`,
`known` and `target` the config, `pose` where components stand now.

A run is the step counter `pc`: `Start` narrows the config and opens the
registry; `DecideAdoption`, `AdoptLive`, `ForgetKey` are the pass over copper at
its current place, which decides on one reading and persists key by key;
`MoveComponents`; `ClaimUnowned` takes unowned copper at planned places;
`Reconcile` decides what to draw and to delete and saves; `Delete` /
`DeleteRefused` is the single packet of deletions whose result is ignored;
`Draw...` and `Record` are the batches, each committed to the board first and
recorded after, with one retry. Between runs the user moves instances, edits
cells, adds and removes clusters, and draws and deletes copper by hand. Faults: a refused
call, a lost reply (the board changed, the program does not know), a death at
any step, and a registry file torn by a death.

`Entities` are the anchors of entities; the others are thermal via arrays and
net traces. A narrowed run cuts only those out of the config the adoption pass
sees, and only entities are looked at by that pass (`Start`).

### OperationUndo

Runs of one or two passes (the plan, then the imprints). `ExecuteMoves` notes
the original states and flips; `CommitMoves` pushes and only then appends the
log entry; `CreateBatch`/`CreateRetried` append uuids in each attempt;
`WriteLog` writes one file named after the second, at the very end. It may fail
(`WriteFails`: the exception is swallowed and the run goes on, with its pending logs
cleared) or be cut off (`WriteDies`), and either may leave a file no reader parses
(`torn`), behind which undo refuses until the user removes it (`DeleteTorn`).
`StartUndo`, `RestoreItem`, `RemoveCreated`, `Unlink` are `undo`; `UndoDies`
stops it anywhere. `origin` is history: the board when the pass began; `strayed` and
`adrift`: what passes moved and drew that left no log, and what undo could not delete.

### LongOps, Socket

The UI thread runs one handler at a time, so a handler is an action. An
operation goes `new → (deferred →) running → posted → stopping → retired`;
`posted` is a result waiting in the event queue, `stopping` a thread that has
answered and not ended. `release`, `show_busy`, `socket_busy`, `gate_message`
are the functions of those names. A poll timer goes `idle → running → posted`.
Windows close at any moment and destroy their widgets together. `Reads` are the
operations that read whether the board is exploded and set the gate.
`Socket` is the promise of the token: a lock that a user of the socket takes when
it is down, keeps while its request and then its answer are under way, and takes
down itself. The refinement maps `long_op_active` to `token` and the states of
operations and ticks to `place` (`PlaceOf`).

### ConfigStaging

Contents are numbers nobody used before, so two contents are equal only if one
was read from the other. `FileRead` and `LoadResult` are what a reader would
get now; `BeginLoad`, `ReadFile`, `StoreGraph` is a worker's load, whose graph
is computed outside the lock. `FlushValidate`, `Backup`, then for each file
`PrepareFile` and `WriteFile` or `WriteFails`, and `FlushEnd` are `flush`; `mtime` may
stay the same on a write (coarse clock). Between `PrepareFile`, which looks at the
format of the file, and `WriteFile`, which replaces it, somebody else may write.

Every text goes through `stamp_format3`, when it is staged and again when it is
written, and the stamp looks at the other files: when it is staged through the overlay,
when it is written without. What it does to a text is of three kinds. The names beside
the uuids it refreshes are left out, every load refreshes them too (format3.py:414). A
reference to a record that another staged file adds, or a name that one gives up, is in
`needs`: as long as that file is not written the stamp refuses (`StampRefuses`). A folder
whose row is in another staged file is in `shares`: as long as that one is not written the
stamp gives the file a row of its own, with a new uuid, and once both are on the disk the
profile does not load (`doubled`, `Loadable`). The files are written in the order of
their paths, which is any order here. `latest` (the user's last edit of each file) and
`slipped` are history.

### ExplodeRestore

One board and its journal, the GUI and a command line. An explode is
`Explode → WriteJournal → Shift → Verify (→ ReadState → ApplyState)`, putting
back is `Restore → PutBack → CheckBack`. Every commit may be refused, or come
off with its reply lost; a process may die between any two steps; the user
moves or deletes items. `home` is history: where an item lay before the program
shifted it; `lost` is set when a shift came off and the program heard it failed,
which removes the journal.

### BoardConnection

An adapter is a number and opens one socket. `Connect` starts an attempt's
thread, which goes `dialing → built → looked → kept` (`Dialled`, `LookGaveUp`,
`HandOver`) or `closed`, while the worker waits: `TakeBoard`, `ConnectFails`, or
`GiveUp` when the time is over. The worker's jobs are `project` (select) and
`assign` (publish), two steps because the UI thread may rebind in between:
`SetProject`, `RecordOverride`, and `UiDisconnect`. A store is a count of the
records written to its file, so that two copies are equal only if nothing was
written in between. `crossed` is history: a rebind met a connect or a rebuild.

### ExitGuard

`Close` and `Quit` ask `AskEdits` and then `AskClusters`; the answers are
actions, and a restore in flight (`restoring`, which remembers what to go on
with) may end while a question is open. `late`, `hidden`, `failed`, `agreed` are
history.

### McpConnection, RawMove

`execute` step by step: `Reuse` or `Dial`, `RefreshBoard`, then the handler
(`Guard`, `ReadSpot`, `Commit`, `Answer`), each of which may raise, a
connection-level error leading to `Reconnect` and the second run. Within a run
`commit_with_retry` tries a commit that raises once more without asking the guard again
(`CommitFails`); either may have been carried out. KiCad and its
user switch boards, move the footprint, restart KiCad between any two steps.
`RawMove` is the promise: a request for one board and one spot, and at most four
attempts. The refinement maps the open request to `asked` and the commits that may
still be made to `attempts`.

*MCGuiSession* checks these three side by side; they share no variable, and the
instance bounds them together (one component at its start while another runs).

### PlacementRun

A place is the chain it was computed along (the tree that put the component
there, then the place of its anchor), so that a place computed from a stale
anchor differs from a fresh one. `StartRun` makes the entities of the trees into
clones on the board as it is; `OrderLevel` / `RefuseCycle` are Kahn's levels, and
`level` says of an item how many levels have been ordered since its own (0: not in
the order), so that the item with the highest one is next;
`GuardDuplicates`; `MoveFixed` is Phase 0, whose parts (coordinate placements and
component nodes: `fixed`) hang on the board, on a footprint or on a point like the
trees do (`home`); `MoveClone` and `ResolvePoint` are Phase 1 over the footprint
cache (`cached`, `stale`); `EndMoves`, `ArrayWithoutPoint`, `CopperFails`, `Complete`
the rest. A run has many ends, and none takes back what has moved:
`RefuseCycle` before anything has; `FixedRefused` and `CloneRefused`, a commit that
`commit_with_retry` raises after its second attempt, with any part of it carried out
(`Refused`); `FixedMissing` and `ItemFatal`, an anchor, pad, mount or net that is not
there (`broken`); `PointMissing`, a KeyError. `Drifts` is the check that keeps a tree
from moving the part it hangs on; `unchecked` are trees it passes over (anchors named
by refdes, legacy pad anchors, mirrored entities, mounts), which do move it, at
every run. `wanted` is what `--only` leaves, of trees and of fixed parts.
`before` and `full` are history: the board when the run began, and how many full runs
have come to their end. The configuration is any: `Init` quantifies over all parts,
anchors, fixed, broken, unchecked and doubled footprints.

### ProfileLift

A file has one record (a name and, once lifted, a number) and one reference (a
hint and, once lifted, a number); a registry has a key that is a name or a
number. An open is `Open`, then per file `ReadFile`, `CopyFile`, `WriteFile`, then
`Load`, then per registry `ReadRegistry`, `WriteRegistry`; two programs open
at once. The GUI edits (`EditForm`, `Rename`, `Create`, `Refer`), saves, discards,
closes. From outside come deaths, failures, a `.bak` put back, and a file of a
newer build. `id` and `to` of a content are history: which record it is and
which one the reference means.

## 3. The runs

| run | bounds | shows |
|---|---|---|
| copper_edits | 2 clusters × 2 records, any lists, 2 poses × 2 slots, 4 items, 1 edit | `TypeOK`, `Settled`, `OneOwner`, `RepeatIsQuiet`, `ProtectedSurvives` over full and narrowed runs |
| copper_faults | 1 cluster × 2 records, lists that change at their end, 2 edits, 2 deaths, 1 refused or lost call | `Settled`, `StaleGone`, `NoDuplicates`, `KeepsTrack` |
| copper_narrowed | an entity and a thermal via array | divergence: `ProtectedSurvives` |
| undo_restores | 2 components × 2 spots × 2 sides, 2 items a pass, 1 run of two passes, one fault of each kind (a log that cannot be written among them) | `UndoRestores`, `AllLogged` |
| undo_imprint_dir | 1 component | divergence: `AllLogged` |
| longops_socket | 3 operations, 2 timers, 2 windows | `SocketShared` (the refinement of Socket), `OneRequest`, `TokenHeld`, `KeptAlive`, `ComesDown`, `EveryOpEnds` |
| longops_gate | the same | divergence: `GateHolds` |
| staging | 2 files whose edits may draw on each other, 4 contents, a worker, a failure, Discard, an external write of either format at any moment | `FileReadsCurrent`, `LossReported`, `NewerKept`; `LoadsCurrent`, `ValidatedIsWritten`, `PreviousKept` as long as nothing has disturbed them |
| explode_restore | 2 items × 2 places, 2 processes one after the other, 2 edits, 2 faults | `TypeOK`, `NothingLost`, `JournalStays`, `LockHolds` |
| gui_session | 2 projects, 2 boards, 2 attempts, 1 record each, 2 changes of project or board; every way out (finite without a bound); 2 boards × 2 spots, 3 adapters, 2 calls, 2 events of KiCad or its user | `ShownInForce`, `SocketsOwned`, `ExitAsked`, `ExitBoardBack`, and McpConnection ⇒ RawMove (`MovesAsAsked`) |
| placement | 2 footprints, 2 trees, 2 points, every configuration of them with at most one of its members fixed, doubled, broken or unchecked, or up to three where runs must settle; 3 runs | `PointsCurrent`, `NoneLost`, `RepeatsSettle` |
| lift | 2 files, 1 registry, 2 names, 2 opens (of one program or of both), 2 edits, 1 trouble (death, failure, file put back or delivered) | `ReferencesMeant`, `LoadsWhatever`, `PreviousCopied`, `KeysFollow`, `LiftsAll` |

Why these bounds. *Copper*: coincidence of copper, the source of every wrong
ownership, needs two records in one cell or two clusters; a number that shifts
needs two numbers; a batch boundary needs a batch that can be full (size 2) and
one that cannot; a death that does harm needs the run that repairs it, hence
deaths and edits together. Two slots and two poses let every two records
coincide or not. `MaxUuid` is large enough for every record to be redrawn after
an edit: what does not fit is cut off, so in copper_faults six items allow three
full redraws of two records.
*Undo*: two items of disjoint components, both sides, two passes, so that a log
exists behind a log. *LongOps*: one operation that runs, one that waits, one
that comes between; two timers, as the program has two. *Staging*: one file that is
written and one that is not yet, and a content from before, staged and
from outside. *Explode*: one item to lose while the other comes back, and as
many faults as make a failed operation and a failed repair. *Connection*: an
attempt that was given up and the one that took its place, a project that is
open and another to switch to, an override recorded or none. *Raw move*: a call
cut once and run again needs a second adapter, a third one is for the next call;
two events are a board switched away and back. *Placement*: one tree hangs on a
part of the other or on a point that hangs on a part of the other; cycles of
two, of trees and of points; two full runs are what `RepeatsSettle` needs for two
footprints, and a third is cut short between or after them. A configuration in which
nothing has to settle (`Consistent /\ Ranked` is false) is followed for one run only
(`Bounded`): a run takes nothing but the board from the one before. *Lift*: a
referring file and the one it refers to, in either format; two opens are a death and
its repair, or two programs at once; a rename and a new record under the old name
are two edits.

`CHECK_DEADLOCK FALSE` in all runs: each of these systems stops when the bounds
are spent, a LongOps behaviour ends when all operations are done and
the poll rests, and an ExitGuard behaviour when the program has ended.

Conditions in the properties and constants of the runs that narrow a claim, and
why: `copper_faults` uses lists that change only at their end, since a number
that shifts loses track of copper (§4, copper_shifted), and lists that never
become empty (§4, copper_emptied). `UndoRestores` and `AllLogged` except
the components (`strayed`) and the copper (`adrift`) of passes that left no log,
because they were cut short or because it could not be written, and copper whose deletion was
refused, since undo removes the log all the same; the components a log names are
excepted by nothing. `undo_restores` has items with components of their own (§4,
undo_twice_moved). In `staging`, what begins with `upset = {}` is claimed until a
worker's load, a Discard, a failure, a stamp that refuses a file or gives it a row, or a
write of others inside a Save has come
in between, each of which breaks one of the properties (§4); `upset` remembers
them for good. `NewerKept` excepts a file that came between the look and the
replace (`slipped`). `KeepsTrack` and `NoDuplicates` of
`copper_faults` are claimed until a call was refused. `explode_restore` has
operations of the two processes one after the other and plans made from the
board as it is (§4). `NothingLost` excepts a shift whose reply was lost.
`LockHolds` begins when the GUI has heard of the journal: after an explode whose
verification failed, no state is read, and the lock stays down. `ShownInForce`
needs a layer (a connection made with no or an empty store has none) and no
rebind under a connect or a rebuild (`crossed`); `SocketsOwned` excepts the
adapter whose first read raised, which goes with the exception, and the thread
that had looked before its caller gave up (`raced`). `ExitAsked` excepts edits
made after a restore was asked for at an exit (`late`), `ExitBoardBack` an exit
that only hid the window (`hidden`). `NoneLost` excepts points on
themselves and on refdes that stand twice; `RepeatsSettle` needs one place for
everything (`Consistent`), footprints none of which hangs, through others, on itself
(`Ranked`, which no configuration with an unchecked tree on its own part meets), and
as many full runs that came to their end as there are footprints, whatever other
runs came between.
`LoadsWhatever` excepts a Save that failed in part (also for a stamp; folders with
two identities, which make a profile not load either, are ConfigStaging's), a lift
that undid a write of others, and a file put back (`torn`); `KeysFollow` edits saved
while a registry went by names (`mixed`); `LiftsAll` opens that were disturbed.

## 4. Known divergences

Three of them are runs of the project, listed with their quotes under
`findings`: copper_narrowed, undo_imprint_dir, longops_gate. The others are kept
out of the regular runs; each ends in a counterexample. Where the table says "in
*run*", it is found with that run's configuration and this property in place
of its own; else there is a configuration of the name next to the modules.

| configuration (module MC…) | property | what happens |
|---|---|---|
| copper_two_keys (CopperRegistry) | Settled | `adopt_live` persists a new key (registry.py:392), the program dies before `forget_key`: an item has two keys, and a later run deletes it for one while counting it in place for the other |
| copper_packet | CleanPacket | from the same state two moved keys name one uuid twice in a deletion packet, which registry.py:345-350 sets out to avoid for stale keys only (registry.py:311) |
| copper_orphan | OneOwner | a cluster takes the place of one that has left the config (or is a new name of it), `adopt_live` gives it the other's item (adopt_at_current_place.py:230), and a call refused in the moves ends the run before `reconcile` prunes the old key (registry.py:343): the item has two keys, of two clusters when the old one comes back |
| copper_emptied | StaleGone | a cell whose list becomes empty produces no command, so its anchor counts as filtered out and its old keys and copper stay (registry.py:315) |
| copper_shifted | KeepsTrack | in a shift along a list the released key's item may be left with no key (adopt_at_current_place.py:391) |
| copper_refused | KeepsTrack | the registry is saved without items whose deletion KiCad then refuses; the result is ignored (apply_pipeline.py:890) |
| undo_twice_moved (OperationUndo) | UndoRestores | the entries are restored front to back (undo.py:42): a component moved by two items of a pass ends at its intermediate place |
| in undo_restores | EverySaved | a log that cannot be written is only reported on the screen, the run goes on and its pending entries are cleared (operation_logger.py:40, batch_executor.py:54), where docs/architect.md:244 says "Every operation is saved as JSON, enabling rollback"; undo then takes the run before for the last one |
| undo_same_second | AllLogged | two passes that end within one second share a file name (operation_logger.py:33) |
| longops_shared (LongOps) | ComesDown | an operation that is deferred behind one with the same widgets notes them as disabled (worker.py:492) |
| longops_dialog | ComesDown | `_abandon` restores no widget, though only some of the operation's may be gone (worker.py:520) |
| longops_indicator | BusyVisible | the release of a refused operation clears the indicator of the running one (worker.py:560) |
| staging_unvalidated (ConfigStaging) | ValidatedIsWritten | a worker stores a graph computed before an edit evicted it, and the Save validates that (file_cache.py:283) |
| in staging | SavedIsValidated | two new edits of which one has the row of a folder the other uses: the second stamp, which does not see the staged row, makes another one, the Save reports nothing and the profile does not load any more; config_writer.py:107-109 says that "the text written is always a valid format-3 graph" and config_working_set.py:209-211 that the Save "validates the exact state that is about to be committed" |
| in staging | StampRepeats | an edit that refers to a record which a staged file of a later path adds is refused by its second stamp, and gone with the working set: config_writer.py:257-258 says "The flush re-stamps (idempotent)" |
| in staging | NewerAlwaysKept | a file of a newer format that is delivered between `read_version` and `os.replace` is overwritten (config_writer.py:215-220), where :176-178 rules it out |
| staging_failed | NothingLost | `flush` clears the working set although a write failed; the edit is reported and gone (config_working_set.py:280) |
| staging_discarded | LoadsCurrent | after Discard the graph cache answers with the discarded content: `clear` evicts nothing (config_working_set.py:149), the file times have not changed, and the reload that must "re-sync every dock with the on-disk (committed) state" (gui/dock_hub.py:2839-2842) hits it |
| staging_overwritten | PreviousKept | a file replaced between its copy and its write is overwritten without a copy |
| explode_stale_plan (ExplodeRestore) | NothingLost | the journal records the places of the plan, not those at the push of the button (explode_journal.py:213) |
| explode_overlap | NothingLost | two processes both find no journal, and the second one's journal replaces the first one's (explode_journal.py:205) |
| in gui_session | AlwaysShownInForce | a connection made with no or an empty store gets no layer (adapter_factory.py:78-88), so neither a project switch nor a written override reaches it, which connection.py:564-576 sets out to ensure |
| in gui_session | LateBoardClosed | the caller gives up after the thread has looked at `gave_up` and before it hands the board over (connection.py:327-347): nobody closes it, which :310-316 rules out |
| in gui_session | EveryEditAsked | an edit made while the restore of an exit runs is not asked about when the exit goes on (exit_guard.py:76-85, explode_wiring.py:239) |
| in gui_session | FailedSaveStays | a Save whose write fails clears the working set (config_working_set.py:280), so the exit goes on, where exit_guard.py:67-68 says it is cancelled |
| in gui_session | AlwaysTold | a raw move whose link drops after KiCad carried it out is run again and reports as `old` the place its first run left (mcp_server/connection.py:236, handlers.py:335-336) |
| in gui_session | OneLine | an adapter whose first read of the board raises is neither kept nor closed (mcp_server/connection.py:168-170) |
| in placement | AnchorsSeenFinal | entities are made into clones with absolute places before anything moves: a tree anchored on a component the same run moves is put where that was, where dependency_order.py:3-7 says an item "always sees that component's real, post-move position"; another run settles it |
| in placement | AlwaysFound | a point on itself, or on a point dropped for a doubled refdes, is a KeyError in the middle of the run (point_resolver.py:91), and a thermal array on it after all moves (via_planner.py:86), where point_resolver.py:82-86 says it is "GUARANTEED already present" |
| in placement | AlwaysWhole | a run that a refused commit (adapter.py:1075-1076), a missing pad (component_resolver.py:85-91) or that KeyError ends has moved what came before it, and no log is written of that, since the log comes last (batch_executor.py:52): undo does not know of it, where docs/architect.md:244 has every operation saved |
| in placement | NoneDragged | a tree anchored by refdes (or by a legacy pad, mirrored, or over a mount) on a part it places moves it at every run (trees.py:1094-1114, :1157-1171), where entity_placement.py:826-834 says such a tree is NOT materialized |
| in lift | AlwaysCopied | another program's Save between a lift's copy and its write is overwritten without a copy (upgrade_on_disk.py:172-188; :45-47 considers a second lift only) |
| in lift | NextOpenIsEnough | a registry whose write failed still goes by names; after a rename or a new record of the old name the next open maps its key to another record or to none (registry_upgrade.py:15-16) |

These say what the model, a translation of the code, does; which of them
deserve a change of the code is its authors' decision.

## 5. Fairness

Only LongOps states a liveness property. `FairSpec` gives weak fairness to: the
worker threads (a call to KiCad returns or times out; kipy's requests have time
limits), the queued results and ends of threads (Qt's event loop serves every
posted event), and the one-shot timer of a deferred start. Nothing obliges the
user to start an operation or to close a window, nor a poll tick to begin. Weak
fairness is enough: once a deferred operation's timer is due, one of the three
outcomes is enabled and stays so, since exactly one of "window gone", "socket
busy", "socket free" holds at any moment.

## 6. The proofs

| module | theorem | for all |
|---|---|---|
| CopperRegistryProofs | `TypeCorrect == Spec => []TypeOK` | constants |
| | `OneOwnerHolds`, `ProtectedSurvivesHolds`, `SettledHolds`, `RepeatIsQuietHolds`, `PacketsClean` | records, places, lists, edits and batches, with `Orderly` |
| | `StaleGoneHolds` with `Listed` | clusters, records, places, lists, edits, batches, refusals, deaths |
| | `KeepsTrackHolds`; `NoDuplicatesHolds` | as above, with `Orderly` and `FixedSlots`; with `Orderly`, `OneCluster` and `Spread` |
| OperationUndoProofs | `UndoRestoresHolds`, `AllLoggedHolds` | components, spots, batches, runs, deaths, refusals, failed and torn logs, with `Revisits = FALSE` and `ImprintLogs = "later"` |
| LongOpsProofs | `TypeCorrect`, `SocketSharedHolds == Spec => SocketShared` (the refinement of Socket), `OneRequestHolds`, `TokenHeldHolds`, `KeptAliveHolds`; `ComesDownHolds` with `OwnWidgets` | numbers of operations, timers, widgets, windows |
| ConfigStagingProofs | `TypeCorrect`, `FileReadsCurrentHolds`, `LossReportedHolds`, `PreviousKeptHolds`, `NewerKeptHolds`, `LoadsCurrentHolds`, `ValidatedIsWrittenHolds` | numbers of files, workers, contents, failures, Discards, writes of others |
| ExplodeRestoreProofs | `TypeCorrect`; `NothingLostHolds`, `LockHoldsHolds`, `JournalStaysHolds` with `InTurn` | items, places, edits, deaths, refusals, lost replies |
| GuiSessionProofs | `SocketsOwnedHolds`, `ShownInForceHolds` (BoardConnection) | projects, boards, attempts, records, changes |
| | `ExitAskedHolds`, `ExitBoardBackHolds` (ExitGuard) | (no constants) |
| | `MovesAsAskedHolds == McpSpec => MovesAsAsked`, the refinement of RawMove | boards, spots, adapters, calls, events |
| PlacementRunProofs | `TypeCorrect`, `PointsCurrentHolds`, `NoneLostHolds`, `RepeatsSettleHolds` | footprints, trees, points, configurations of them, runs |
| ProfileLiftProofs | `LiftTypes`, `ReferencesMeantHolds`, `LoadsWhateverHolds`, `PreviousCopiedHolds`, `KeysFollowHolds`, `LiftsAllHolds` | files, registries, names, opens, edits, troubles |

*Assumptions*. Those of CopperRegistry are predicates of its constants, defined
where they are used. `Orderly` is one of three settings:

- any number of anchors, all of them entities, no refused call and no death;
- one cluster, with any refused calls and lost replies;
- one cluster whose records keep their slots (`FixedSlots`: the lists grow and
  shrink at their end), with any refused calls, lost replies, deaths and torn files.

None of this is a convenience; each part has its counterexample. With an
array or a trace beside an entity it is copper_narrowed; with deaths under lists that shift,
copper_two_keys and, for `PacketsClean`, copper_packet; with a refused call and
two clusters, copper_orphan: a cluster that has left the config, or has been
renamed, leaves its copper to be adopted by another at the same place, and a run
that fails between that adoption and its pruning leaves the item two keys. What
stays open is a setting in between, several clusters that never come to one
another's places. `KeepsTrack` needs `FixedSlots` (copper_shifted). `Spread`
(no list puts two records into one slot) and `OneCluster` are what `NoDuplicates`
means: it speaks of one place and one item, and two records or two clusters
that are planned at one place may well draw there twice. `StaleGone` needs
`Listed` alone, that no cell is emptied (copper_emptied). The run copper_edits is
in the first setting, copper_lost_calls in the second, and copper_faults in the
third, with `Spread` and `Listed`.

`OwnWidgets`:
longops_shared and longops_dialog are the counterexamples without it. `InTurn`
(`~Overlap /\ ~StalePlans`): explode_overlap and explode_stale_plan.
`Revisits = FALSE`: undo_twice_moved; `ImprintLogs = "later"`: undo_same_second and
undo_imprint_dir. The theorems of ConfigStaging, BoardConnection, ExitGuard,
McpConnection, PlacementRun and ProfileLift need none: what breaks a property is a
condition or a history variable in its statement. Assumptions on
constants that serve the proofs alone, and that TLC evaluates in the runs:
`FilesAssumption` (a config has finitely many files), `MarkerAssumption` (a
marker is not a set of moves), `ConnectionAssumption` and `McpAssumption` (bounds
are numbers, and `None` and `NoBoard` are not boards), `PlacementAssumption` (footprints,
trees and points are finitely many and different things, of which the origin is
none), `LiftAssumption` (bounds are numbers, names are not numbers of records, and
`None` is neither).

*Every run*. `RunInv` holds whatever fails: a run works on the registry it has just
saved (`Running`), what is decided in one step and carried out in a later one exists
only in between (`Planned`), a uuid KiCad has not given out is nowhere
(`FreshUuids`), and an item held for a number lies in a slot some list gives that
number (`Slotted`). With `FixedSlots` the last makes every binding of the adoption
pass one of an item that nobody holds (`Sure`), and so a death between two of
its saves is harmless. `StaleGone` needs only that a cluster of the run has a
planned key, whence its old ones are pruned.

*Ownership*. `OneOwner` speaks of rest; inside a run it is false, because the
adoption pass writes key by key. The invariant `OwnerInv` therefore speaks of
`Destined(k)`, what the registry will say of `k` when the decided bindings and
releases are all written: writing one of them changes no `Destined`. Between the
pass and the pruning an item may have two keys, one of the run and one of an
anchor no longer in the config (`OwnersApart`); the pruning removes the second,
and from there on `OneKeyEach`. Fresh uuids (`FreshUuids`) keep the drawn items
apart from every key, and `PendingApart` their recordings from each other.
`doomed \cap Held(entries) = {}` is what the deletion relies on. With one
cluster there is no second anchor, so that `OneKeyEach` holds at the end of a run
that fails on the way, too.

*What a run leaves*. `Settled` follows from `SettleInv`: when a run comes to delete,
a record that is not to be drawn has its own item in place, which by `OneOwner`
no other key dooms; drawing adds items and disturbs none. `RepeatIsQuiet`
compares two runs. `Reconciled` says of the first that each planned key is empty,
or its item is in place, or one in place is still to be recorded, also when a lost
reply made the tool draw a batch twice, the later pair then being the one
recorded last; `Repeating` says of the second that it finds every place taken and
nothing to bind, to drop or to doom. `KeepsTrack`, with `Tracked`: what is still to be
drawn or recorded has no item, so that recording overwrites none. `NoDuplicates`,
with `Single`: nothing is to be drawn where an item is, because the claim before it
has found that item; two records never lie at one place, by `Spread` and
`OneCluster`. `KeepsTrack` and `NoDuplicates` are claimed until a call was refused, and
then a packet can only be refused for a uuid it repeats, which is what
`PacketsClean` excludes.

*Long operations*. `OneRequest` is not inductive: a finished request still holds
the token until its answer is served. `OneHolder` (at most one of running or
posted, over operations and timers) with `TokenHeld` is. `Counted` says that the
number of pushed cursors is the number of operations that are shown, without
which no cursor could be known to come down; `WidgetsInv` says that an
operation's notes of its widgets were taken when they were enabled, which needs
`OwnWidgets`. `SocketShared` needs the types alone: each handler looks at the token
in the step in which it raises it, and `StepShared` maps `StartNow`, `DeferredStart`
and `Tick` to `Take`, `WorkerDone` and `TickDone` to `Answered`, `Deliver` and
`TickResult` to `LetGo`, and all else to a stutter, a refused or abandoned
operation, whose release finds the token another's, included.

*Staging*. That a cache answers rightly is an argument about clocks: `CachesFresh`
says that a cached file is of an earlier tick, or holds what the disk holds, and
is kept by a write on the same tick only because the writer drops the entry.
`ClocksBehind` bounds the clocks by the contents written, a pending edit being
a tick not yet made. `EditsAccounted` splits `LossReported` by whether the edit
is still pending. For the graph, `GraphInv` says that a cached graph saw no
clock from the future and, if its clocks are the present ones, holds what the
user is working on, and that a Save that has written a file left no graph.
`Undisturbed` says this as long as `upset` is empty. It also says of a running Save that
the disk and what is still to be written (`Pending`) are what it has validated, and
that no folder has two identities. `CopiesTaken` holds of every
file a Save has still to write. `NewerKept`: only a write and a failed write take a file
off the list, and one that is stamped and newer was delivered after the look (`TodoStaged`).

*Explode*. `NothingLost` is not inductive: an item the user has moved back to its
home is no longer displaced, and displaced again by the next edit. `Recorded`
says it of every item on the board with a home (`Tracked`), and `HomeInv` adds
that nothing is tracked while an operation is about to shift or has just put
back, or while the GUI knows of no journal and is unlocked. `TaskInv` is what a
step of an operation may rely on: one runs at a time (`OneRunning`), and the
journal is absent, its own, or unchanged since it was read (`AtStep`).

*Connection*. `SocketsOwned` needs to know of every thread that it is waited for or
given up, and that one whose look came before the giving up is remembered
(`ThreadsWaited`), and that a connect runs with no board in use (`BoardKept`): a
board taken over an open one would lose its socket. `ShownInForce` speaks of rest;
`ValuesFresh` says the same of the values in memory, `LayerCurrent` of the layer and
`ProjectedInForce` of what the worker is about to publish.

*Exit*. `ExitAsked` speaks of the end; `NothingUnasked` says it of every moment from
which the program may end without asking again: the question about clusters, a
restore at an exit, and after it. `ClustersBack` says that a program that lives
on after such a restore was hidden by it.

*Raw move*. `Vetting` is the whole argument: between the guard and the commit, the
handle of the adapter in use is the board the caller named, and KiCad answers
only about that, at the second try of a commit too. `StepSimulated` maps `Call` to
`Ask`, `Commit` and every way an attempt fails to `Attempt`, `Answer` to `End`,
`MoveByHand` to `ByHand`, and all else to a stutter.

*Undo*. `UndoRestores` compares the board with what it was when the pass began,
many steps, unlogged passes and perhaps an undo of another pass later. `RunNoted`
says that what a run has done so far it has written down; `Chained` that each log on
the disk leads to the board the next one begins from, and the newest to the board as
it is, but for `strayed` and `adrift`, so that when undo has unlinked one, the one
below it is the newest and still fits; `Restored` says how far an undo has come,
which a death may stop and a second undo begins again. That the entries of one log
agree (`LogsAgree`) is where a component moved twice in a pass breaks the argument.

*Placement*. That a point sees its anchor at rest joins three facts: the order
(`OrderInv`: of the clones that move what a point hangs on, those still to come are of
a level before it), the cache (`CacheInv`: what is not to be read again is
what the board says), and the points (`ResolvedInv`: a resolved point is where
what it hangs on puts it, which nothing still to come moves). `PointsCurrent`
compares this with the whole chain: `InTurn` numbers the resolved points so that
each comes after the one it hangs on, whence a chain of resolved points ends
within as many links as there are points. `Chains` is a recursive function, so its lemmas
(`ChainsAre`: it has a value; `ChainsOne`: a chain has at most one place;
`ChainsDecided`: and it depends on the one footprint at its end) need induction
over numbers. The library's theorem takes an operator; `UpTo` gets it for
a *set* of numbers from a theorem that does not, the well-foundedness of finite
subsets under inclusion. `NoneLost` follows from `FoundInv`: where
no point is dropped for a doubled refdes none is forgotten, and each is of a level
after the one it hangs on. `RepeatsSettle` is an induction over the ranks of the
footprints, done as one invariant: `SettledSoFar` says, for every valid ranking, that
after `n` full runs the footprints up to rank `n` are where they belong, and that the
run under way has not moved them and will not. A run moves a footprint, if at all,
to where the board at its beginning wanted it (`TargetInv`, `FixedWanted`,
`CloneWanted`), and what had come to rest lay there already, since what it hangs on
had come to rest as well (`UnderDecides`); so it stays wherever the run is cut short,
with whatever part of a commit carried out (`MoveSettles`), and a full run that comes
to its end brings the next rank home (`BroughtInv`, `StopSettles`). Refused and
broken-off runs cost nothing that was gained, so no condition excludes them.

*Lift*. The invariant begins with an existential: `meant`, from numbers to records,
fixed at the start (`Numbering`). A seeded number means the file that had the name
at first, which is why two programs lifting at once agree; a minted one means the record it is
minted for. `AllFaithful` says that every content anywhere, on the disk, staged,
copied aside or in the hands of a program, means what it says; `GraphsWhole` that
what each program would load is sound; `AllOriginal` that the names a registry is
mapped by are still those of the start, as long as no edit was saved (`mixed`);
`KeysRight` draws from it what a key means. `Uncrossed` is the state of an open
which nothing has disturbed, from where `LiftsAll` follows at its end.

Only model-checked: liveness (`EveryOpEnds`), which the installed provers do not
reach, as they do not reach ENABLED or RECURSIVE operators (none is used). Every
other property of a passing run is stated by a theorem. Of induction over data
the provers reach what can be said of a set, as in `UpTo`. The divergences of §3
and §4 are counterexamples, and nothing is proved of them.

## 7. What is not modelled

Distances and angles: a place is a value that coincides or does not, and
tolerances, collisions, and geometry of cells are left out, since a bounded model says
nothing about arithmetic on coordinates. Parsing, and the checks of single
entries of a config. Net-trace copper recovered without a registry and the prune
of absent copper. Files created or deleted by a Save. A reader between a write
and the drop of the caches: the two are one step of ConfigStaging. The shutdown
of the poll thread. Handlers of the MCP server that only read. Clones of the
retired section with anchors of their own, nested cells, and the selection as a
tie-break, in PlacementRun; there also imprints, places that a redraw overrides, and
why a tree has no base (it is skipped, as one whose anchor bites its tail). More than
one record or reference per file, and folders, in ProfileLift. Widgets beyond their
being enabled and their holding an edit: most of the source by lines is docks,
dialogs, geometry and parsing, which keep no state of their own that outlives a
call. The components with status `not_modelled` in PROJECT.json, with the reason
there.

## 8. Plan

Built: CopperRegistry, OperationUndo, LongOps, ConfigStaging, ExplodeRestore,
then BoardConnection, ExitGuard, McpConnection with RawMove, PlacementRun,
ProfileLift, and Socket for LongOps. What would come next:

1. *Ownership*, an abstract specification (a partial injective map from keys to
   items, which claims, redraws and releases change) that CopperRegistry
   implements with `Destined` as refinement mapping.
2. Ownership of several clusters under refused calls and deaths, as long as no
   cluster comes to the place of another: what copper_orphan shows to be needed,
   stated as a condition on the edits.
3. The prune of absent copper and the recovery of net-trace copper as actions of
   CopperRegistry; `PlacementRun` composed with it, with `pose` the place arrived at.
