---------------------------- MODULE OperationUndo ----------------------------
(***************************************************************************)
(* The operation log and `kicadstamp undo`: what the batch executor writes *)
(* down of a run, and what undo_last_operation makes of it                 *)
(* (kicadstamp/placement/executor/*.py, imprint_apply.py, cli.py cmd_undo, *)
(* undo.py).                                                               *)
(*                                                                         *)
(* One run is one or two passes of a BatchExecutor: the plan's, and after  *)
(* it the imprints' (execute_imprint_plans makes an executor of its own).  *)
(* A pass executes the moves of its items one item at a time, creates      *)
(* copper, and writes ONE log file at the very end.                        *)
(***************************************************************************)
EXTENDS Naturals, Sequences, SequencesExt, FiniteSets

CONSTANTS
  Refs,        \* components
  Spots,       \* positions with an angle
  MaxItems,    \* bound on the items a pass moves
  MaxRuns,     \* bound on runs
  MaxUuid,     \* bound on the copper ever created
  MaxRaises,   \* bound on the runs an exception or a death cuts short
  MaxLost,     \* bound on the retried commits
  MaxUnsaved,  \* bound on the log files that cannot be written
  MaxRefused,  \* bound on the deletions KiCad refuses during undo
  MaxDeaths,   \* bound on the deaths of the program inside undo
  Revisits,    \* may two items of a pass move one component
  ImprintLogs  \* where the second pass logs: "later", "same second", "elsewhere"

Sides == {"F.Cu", "B.Cu"}
Poses == Spots \X Sides
Uuids == 1 .. MaxUuid
Stamps == 1 .. 2 * MaxRuns

ASSUME BoundsAssumption ==
  /\ MaxItems \in Nat /\ MaxRuns \in Nat /\ MaxUuid \in Nat /\ MaxRaises \in Nat
  /\ MaxLost \in Nat /\ MaxUnsaved \in Nat /\ MaxRefused \in Nat /\ MaxDeaths \in Nat
ASSUME ModesAssumption ==
  /\ Revisits \in BOOLEAN
  /\ ImprintLogs \in {"later", "same second", "elsewhere"}

VARIABLES
  pose,      \* [Refs -> Poses] on the live board
  copper,    \* uuids of the live tool-made items
  next,      \* the next uuid
  logs,      \* [stamps -> log]: the operation_*.json files undo looks at
  torn,      \* stamps of those whose writing was cut short: no reader parses them
  clock,     \* the second of the newest file name
  fresh,     \* the first pass of this run wrote that file
  pc,        \* "idle", "items", "commit", "copper", "write", "undo", "unlink"
  pass,      \* 1 (the plan) or 2 (the imprints)
  moving,    \* the moves of the item in execution: a function on some Refs
  taken,     \* original_states of that item
  moveLog,   \* _pending_move_log: one function Refs -> Poses per item
  made,      \* uuids in _pending_via_log and the track log
  position,  \* undo: moves restored so far
  origin,    \* the board when the run began (history)
  strayed,   \* components a pass moved that left no log (history)
  adrift,    \* copper of such a pass, or kept by a refused deletion (history)
  runs, raises, lost, unsaved, refused, deaths

faultVars  == <<raises, lost, unsaved, refused, deaths>>
boardVars  == <<pose, copper, next>>
fileVars   == <<logs, torn, clock, fresh>>
itemVars   == <<moving, taken>>
looseVars  == <<strayed, adrift>>
vars == <<pose, copper, next, logs, torn, clock, fresh, pc, pass, moving, taken, moveLog,
          made, position, origin, strayed, adrift, runs, raises, lost, unsaved, refused,
          deaths>>

Flip(p) == <<p[1], CHOOSE s \in Sides : s # p[2]>>

\* A board, its components in m put where m says.
Put(m) == [r \in Refs |-> IF r \in DOMAIN m THEN m[r] ELSE pose[r]]

\* The moves an item may ask for.
Moves == UNION {[D -> Poses] : D \in (SUBSET Refs) \ {{}}}

Nothing == [r \in {} |-> <<>>]

Init ==
  /\ pose \in [Refs -> Poses] /\ copper = {} /\ next = 1
  /\ logs = Nothing /\ torn = {} /\ clock = 0 /\ fresh = FALSE /\ pc = "idle" /\ pass = 1
  /\ moving = Nothing /\ taken = Nothing /\ moveLog = <<>> /\ made = {}
  /\ position = 0 /\ origin = [pose |-> pose, copper |-> {}]
  /\ strayed = {} /\ adrift = {}
  /\ runs = 0 /\ raises = 0 /\ lost = 0 /\ unsaved = 0 /\ refused = 0 /\ deaths = 0

-----------------------------------------------------------------------------
(* A run.                                                                  *)

StartRun ==
  /\ pc = "idle" /\ runs < MaxRuns /\ runs' = runs + 1
  /\ pc' = "items" /\ pass' = 1
  /\ origin' = [pose |-> pose, copper |-> copper]
  /\ fresh' = FALSE
  /\ UNCHANGED <<boardVars, logs, torn, clock, itemVars, moveLog, made, position,
                 looseVars, faultVars>>

Visited == UNION {DOMAIN moveLog[i] : i \in DOMAIN moveLog}

\* Mutant: the states are read after the flip.
TakenAfterFlip(m) ==
  [r \in DOMAIN m |-> IF m[r][2] # pose[r][2] THEN Flip(pose[r]) ELSE pose[r]]

\* original_states: what execute_moves writes down before it touches anything.
OriginalStates(m) == [r \in DOMAIN m |-> pose[r]]

\* execute_moves: note the original states, then flip what must change side.
\* A flip is a GUI action of its own, outside the commit that follows.
ExecuteMoves(m) ==
  /\ pc = "items" /\ Len(moveLog) < IF pass = 1 THEN MaxItems ELSE 1
  /\ Revisits \/ DOMAIN m \cap Visited = {}
  /\ moving' = m /\ taken' = OriginalStates(m)
  /\ pose' = Put([r \in {x \in DOMAIN m : m[x][2] # pose[x][2]} |-> Flip(pose[r])])
  /\ pc' = "commit"
  /\ UNCHANGED <<copper, next, fileVars, pass, moveLog, made, position, origin,
                 looseVars, runs, faultVars>>

\* The batches of the item go in, and only now is its log entry appended.
CommitMoves ==
  /\ pc = "commit"
  /\ pose' = Put(moving) /\ moveLog' = Append(moveLog, taken)
  /\ moving' = Nothing /\ taken' = Nothing /\ pc' = "items"
  /\ UNCHANGED <<copper, next, fileVars, pass, made, position, origin, looseVars, runs,
                 faultVars>>

\* A pass of which no log will tell.
GoesUnlogged ==
  /\ strayed' = strayed \cup Visited \cup DOMAIN moving
  /\ adrift' = adrift \cup made \cup (copper' \ copper)

\* The exception of a refused batch, or a death: what was pending is lost.
RunEnds ==
  /\ raises < MaxRaises /\ raises' = raises + 1 /\ GoesUnlogged
  /\ pc' = "idle" /\ pass' = 1 /\ moving' = Nothing /\ taken' = Nothing
  /\ moveLog' = <<>> /\ made' = {}

\* commit_with_retry raises: some batches of the item were already pushed.
MovesRaise ==
  /\ pc = "commit"
  /\ \E part \in SUBSET DOMAIN moving : pose' = Put([r \in part |-> moving[r]])
  /\ UNCHANGED <<copper, next, fileVars, position, origin, runs, lost, unsaved, refused,
                 deaths>>
  /\ RunEnds

StartCopper ==
  /\ pc = "items" /\ pc' = "copper"
  /\ UNCHANGED <<boardVars, fileVars, pass, itemVars, moveLog, made, position, origin,
                 looseVars, runs, faultVars>>

\* Mutant: a retry starts a fresh list, so the first attempt's items are gone.
LoggedLastAttempt(first, second) == second

\* created_via_log and created_track_log: appended inside work(), so every
\* attempt of a batch adds its own items.
Logged(first, second) == first \cup second

CreateBatch ==
  /\ pc = "copper" /\ next <= MaxUuid
  /\ copper' = copper \cup {next} /\ made' = made \cup {next} /\ next' = next + 1
  /\ UNCHANGED <<pose, fileVars, pc, pass, itemVars, moveLog, position, origin, looseVars,
                 runs, faultVars>>

\* The first attempt is reported failed; its item stays when only the reply
\* to the push was lost.
CreateRetried ==
  /\ pc = "copper" /\ next < MaxUuid /\ lost < MaxLost /\ lost' = lost + 1
  /\ copper' \in {copper \cup {next + 1}, copper \cup {next, next + 1}}
  /\ made' = made \cup Logged({next}, {next + 1}) /\ next' = next + 2
  /\ UNCHANGED <<pose, fileVars, pc, pass, itemVars, moveLog, position, origin, looseVars,
                 runs, raises, unsaved, refused, deaths>>

\* Both attempts fail, or the program dies: earlier batches stay on the board,
\* and this one when only the reply to its push was lost.
CopperRaises ==
  /\ pc = "copper"
  /\ \/ UNCHANGED <<copper, next>>
     \/ next <= MaxUuid /\ copper' = copper \cup {next} /\ next' = next + 1
  /\ RunEnds
  /\ UNCHANGED <<pose, fileVars, position, origin, runs, lost, unsaved, refused, deaths>>

FinishCopper ==
  /\ pc = "copper" /\ pc' = "write"
  /\ UNCHANGED <<boardVars, fileVars, pass, itemVars, moveLog, made, position, origin,
                 looseVars, runs, faultVars>>

\* The name of the file holds the second it is written in.
Stamp == IF fresh /\ ImprintLogs = "same second" THEN clock ELSE clock + 1

LogRecord == [moves |-> moveLog, made |-> made, origin |-> origin]

Store(l) == [s \in (DOMAIN logs) \cup {Stamp} |-> IF s = Stamp THEN l ELSE logs[s]]

\* The file was opened, and so emptied, and json.dump did not come to its end.
HalfWritten ==
  /\ torn' = torn \cup {Stamp} /\ logs' = [s \in DOMAIN logs \ {Stamp} |-> logs[s]]
  /\ clock' = Stamp /\ fresh' = (pass = 1)

\* The pending logs are cleared whatever the write came to.  A pass that ended
\* may be followed by the imprints' one, which begins where it left the board.
PassEnds ==
  /\ pc = "write"
  /\ moveLog' = <<>> /\ made' = {} /\ origin' = [pose |-> pose, copper |-> copper]
  /\ \/ pass = 1 /\ pass' = 2 /\ pc' = "items"
     \/ pass' = 1 /\ pc' = "idle"
  /\ UNCHANGED <<boardVars, itemVars, position, runs, raises, lost, refused, deaths>>

NothingToLog == moveLog = <<>> /\ made = {}

WriteLog ==
  /\ PassEnds
  /\ IF NothingToLog \/ (pass = 2 /\ ImprintLogs = "elsewhere")
     THEN UNCHANGED fileVars
     ELSE /\ logs' = Store(LogRecord) /\ torn' = torn \ {Stamp}
          /\ clock' = Stamp /\ fresh' = (pass = 1)
  /\ UNCHANGED <<looseVars, unsaved>>

\* No directory, no space, no permission: the exception is logged and swallowed.
WriteFails ==
  /\ PassEnds /\ ~NothingToLog
  /\ unsaved < MaxUnsaved /\ unsaved' = unsaved + 1 /\ GoesUnlogged
  /\ UNCHANGED fileVars \/ (HalfWritten /\ ~(pass = 2 /\ ImprintLogs = "elsewhere"))

\* The program dies before the file is written, or half-way through it.
WriteDies ==
  /\ pc = "write" /\ UNCHANGED boardVars
  /\ UNCHANGED fileVars \/ (~NothingToLog /\ HalfWritten)
  /\ RunEnds
  /\ UNCHANGED <<position, origin, runs, lost, unsaved, refused, deaths>>

-----------------------------------------------------------------------------
(* cmd_undo and undo_last_operation.                                       *)

Newest == CHOOSE s \in DOMAIN logs : \A t \in DOMAIN logs : t <= s

\* A torn file that is the newest makes every undo raise before it begins.
StartUndo ==
  /\ pc = "idle" /\ DOMAIN logs # {} /\ \A t \in torn : t < Newest
  /\ pc' = "undo" /\ position' = 0
  /\ UNCHANGED <<boardVars, fileVars, pass, itemVars, moveLog, made, origin, looseVars,
                 runs, faultVars>>

\* The user removes a file undo cannot read.
DeleteTorn ==
  /\ pc = "idle" /\ \E t \in torn : torn' = torn \ {t}
  /\ UNCHANGED <<boardVars, logs, clock, fresh, pc, pass, itemVars, moveLog, made,
                 position, origin, looseVars, runs, faultVars>>

\* The entries are restored in the order they were written.
RestoreItem ==
  /\ pc = "undo" /\ position < Len(logs[Newest].moves)
  /\ pose' = Put(logs[Newest].moves[position + 1]) /\ position' = position + 1
  /\ UNCHANGED <<copper, next, fileVars, pc, pass, itemVars, moveLog, made, origin,
                 looseVars, runs, faultVars>>

\* One remove_by_id per item.  What it returns is only logged.
RemoveCreated ==
  /\ pc = "undo" /\ position = Len(logs[Newest].moves)
  /\ \E kept \in SUBSET (logs[Newest].made \cap copper) :
        /\ refused + Cardinality(kept) <= MaxRefused
        /\ refused' = refused + Cardinality(kept)
        /\ copper' = copper \ (logs[Newest].made \ kept) /\ adrift' = adrift \cup kept
  /\ pc' = "unlink"
  /\ UNCHANGED <<pose, next, fileVars, pass, itemVars, moveLog, made, position, origin,
                 strayed, runs, raises, lost, unsaved, deaths>>

Unlink ==
  /\ pc = "unlink"
  /\ logs' = [s \in (DOMAIN logs) \ {Newest} |-> logs[s]]
  /\ pc' = "idle" /\ position' = 0
  /\ UNCHANGED <<boardVars, torn, clock, fresh, pass, itemVars, moveLog, made, origin,
                 looseVars, runs, faultVars>>

\* Dead before the file is unlinked: part of an entry restored, a component
\* flipped and not yet moved, some of the copper deleted.  A file that cannot be
\* unlinked is only logged, and stays as well.
UndoDies ==
  /\ pc \in {"undo", "unlink"} /\ deaths < MaxDeaths /\ deaths' = deaths + 1
  /\ \/ pc = "undo" /\ position < Len(logs[Newest].moves)
        /\ LET m == logs[Newest].moves[position + 1] IN
           \E part \in SUBSET DOMAIN m :
              \/ pose' = Put([r \in part |-> m[r]])
              \/ pose' = Put([r \in part |-> <<pose[r][1], m[r][2]>>])
        /\ UNCHANGED copper
     \/ /\ \E part \in SUBSET logs[Newest].made :
              pc = "undo" /\ position = Len(logs[Newest].moves) /\ copper' = copper \ part
        /\ UNCHANGED pose
     \/ pc = "unlink" /\ UNCHANGED <<pose, copper>>
  /\ pc' = "idle" /\ position' = 0
  /\ UNCHANGED <<next, fileVars, pass, itemVars, moveLog, made, origin, looseVars, runs,
                 raises, lost, unsaved, refused>>

Next ==
  \/ StartRun \/ (\E m \in Moves : ExecuteMoves(m)) \/ CommitMoves \/ MovesRaise
  \/ StartCopper \/ CreateBatch \/ CreateRetried \/ CopperRaises \/ FinishCopper
  \/ WriteLog \/ WriteFails \/ WriteDies \/ DeleteTorn
  \/ StartUndo \/ RestoreItem \/ RemoveCreated \/ Unlink \/ UndoDies

Spec == Init /\ [][Next]_vars

-----------------------------------------------------------------------------
(* Properties.                                                             *)

\* Every variable keeps its shape; in particular the stamp of a second pass
\* never runs past the seconds there are.
TypeOK ==
  /\ pose \in [Refs -> Poses] /\ copper \subseteq Uuids /\ next \in 1 .. MaxUuid + 1
  /\ DOMAIN logs \subseteq Stamps /\ torn \subseteq Stamps /\ clock \in {0} \cup Stamps
  /\ \A s \in DOMAIN logs : logs[s].made \subseteq Uuids /\ s <= clock
  /\ pc \in {"idle", "items", "commit", "copper", "write", "undo", "unlink"}
  /\ pass \in {1, 2} /\ made \subseteq Uuids
  /\ DOMAIN moving = DOMAIN taken /\ Len(moveLog) <= MaxItems
  /\ position \in 0 .. MaxItems

\* An undo that runs to its end, however many deaths and repetitions of it
\* before, puts every component its log names back where it stood when the
\* undone pass began, whatever other runs did to it since; and of the rest of
\* the board all that no pass without a log has touched and no refused deletion
\* has left (docs/commands.md:205).
UndoRestores ==
  pc = "unlink" =>
    LET log == logs[Newest] IN
    /\ \A i \in DOMAIN log.moves : \A r \in DOMAIN log.moves[i] : pose[r] = log.origin.pose[r]
    /\ \A r \in Refs \ strayed : pose[r] = log.origin.pose[r]
    /\ copper \ adrift = log.origin.copper \ adrift

\* Between operations every item the program drew is named by a log undo looks
\* at, except the ones of a pass that was cut short or whose log could not be written, and the
\* ones whose deletion an undo asked for in vain (operation_logger.py:34-42).
AllLogged ==
  pc = "idle" => \A u \in copper \ adrift : \E s \in DOMAIN logs : u \in logs[s].made

\* Every operation is saved as JSON, enabling rollback (docs/architect.md:244).
EverySaved ==
  pc = "idle" /\ raises = 0 /\ refused = 0 =>
    \A u \in copper : \E s \in DOMAIN logs : u \in logs[s].made
=============================================================================
