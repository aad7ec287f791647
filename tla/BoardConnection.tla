--------------------------- MODULE BoardConnection ---------------------------
(***************************************************************************)
(* The GUI's one connection to the board KiCad has open: the connect that  *)
(* runs on a throwaway thread under a time limit, the refresh of the poll  *)
(* worker, and the override store the snapshot is resolved against, which  *)
(* the UI thread rebinds (gui/connection.py, kicadstamp/adapter_factory.py,*)
(* kicadstamp/explore.py Board).                                           *)
(*                                                                         *)
(* Worker jobs exclude each other (long_op_active, see LongOps); the UI    *)
(* thread asks nobody.  An adapter is named by its number; it opens one    *)
(* socket.                                                                 *)
(***************************************************************************)
EXTENDS Naturals

CONSTANTS
  Projects,     \* profiles, each with an override store of its own
  Documents,    \* boards KiCad may have open
  None,
  MaxAdapters,  \* bound on connection attempts
  MaxRecords,   \* bound on the records written to a store
  MaxChanges    \* bound on the changes of the open document and of the project

Adapters == 1 .. MaxAdapters
NoAdapter == 0

\* A copy of a project's store, by the number of records written to it.  With
\* none, or an empty one, the values are those on the board.
OnBoard == <<None, 0>>
Copies == (Projects \X (0 .. MaxRecords)) \cup {OnBoard}

ASSUME ConnectionAssumption ==
  /\ MaxAdapters \in Nat /\ MaxRecords \in Nat /\ MaxChanges \in Nat
  /\ None \notin Projects \cup Documents \cup Copies

VARIABLES
  document,  \* what KiCad has open in its PCB editor, or None
  project,   \* _config_path
  store,     \* [Projects -> records in the store's file]
  made,      \* adapters made so far
  path,      \* [Adapters -> the profile the attempt was made for]
  thread,    \* [Adapters -> where the attempt's thread stands]
  gaveUp,    \* attempts whose caller has moved on
  raced,     \* those whose thread had looked before that (history)
  socket,    \* [Adapters -> "none", "open", "closed"]
  layer,     \* [Adapters -> the copy bound to its layer, or None: there is no layer]
  known,     \* [Adapters -> the document last read]
  values,    \* [Adapters -> the values read since then, or None]: _role_cache
  board,     \* the adapter in use, or NoAdapter
  job,       \* the poll worker's: "idle", "connecting", "project", "assign"
  projected, \* what the worker's select() found and has still to publish
  snapshot,  \* what the program shows: [document, value], or None
  crossed,   \* has the UI thread rebound under a connect or a rebuild
  changes

uiVars == <<project, store>>
kicadVars == <<document, changes>>
attemptVars == <<made, path, thread, gaveUp, raced>>
vars == <<document, project, store, made, path, thread, gaveUp, raced, socket, layer, known, values,
          board, job, projected, snapshot, crossed, changes>>

Threads == {"none", "dialing", "built", "looked", "kept", "closed", "failed"}

Shown == [document : Documents \cup {None}, value : Copies]

ConnectionTypeOK ==
  /\ document \in Documents \cup {None} /\ project \in Projects \cup {None}
  /\ store \in [Projects -> 0 .. MaxRecords] /\ made \in 0 .. MaxAdapters
  /\ path \in [Adapters -> Projects \cup {None}]
  /\ thread \in [Adapters -> Threads] /\ gaveUp \subseteq Adapters /\ raced \subseteq gaveUp
  /\ socket \in [Adapters -> {"none", "open", "closed"}]
  /\ layer \in [Adapters -> Copies \cup {None}] /\ known \in [Adapters -> Documents \cup {None}]
  /\ values \in [Adapters -> Copies \cup {None}]
  /\ board \in Adapters \cup {NoAdapter}
  /\ job \in {"idle", "connecting", "project", "assign"}
  /\ projected \in Shown \cup {None} /\ snapshot \in Shown \cup {None}
  /\ crossed \in BOOLEAN

ConnectionInit ==
  /\ document \in Documents \cup {None} /\ project = None
  /\ store \in [Projects -> 0 .. MaxRecords]
  /\ made = 0 /\ path = [a \in Adapters |-> None]
  /\ thread = [a \in Adapters |-> "none"] /\ gaveUp = {} /\ raced = {}
  /\ socket = [a \in Adapters |-> "none"] /\ layer = [a \in Adapters |-> None]
  /\ known = [a \in Adapters |-> None] /\ values = [a \in Adapters |-> None]
  /\ board = NoAdapter /\ job = "idle" /\ projected = None /\ snapshot = None
  /\ crossed = FALSE /\ changes = 0

-----------------------------------------------------------------------------
(* The store layer and the snapshot.                                       *)

\* create_board_adapter: without a profile, or with an empty store, no layer
\* is put on at all.
Layered(p) == IF p = None \/ store[p] = 0 THEN None ELSE <<p, store[p]>>

\* store_for_config, as it is bound to a layer that is there.
Bound(p, files) == IF p = None THEN OnBoard ELSE <<p, files[p]>>

\* FieldOverrideAdapter.get_field_values.
Resolved(l) == IF l = None \/ l[2] = 0 THEN OnBoard ELSE l

\* Board.select: a value is resolved once and then kept.
Selected(a, kept, l) ==
  [document |-> known[a], value |-> IF kept = None THEN Resolved(l) ELSE kept]

\* Mutant: the values resolved against the previous store are kept.
KeepsValues(a) == values[a]

\* forget_role_cluster_values.
Forgotten(a) == None

\* bind_store, and the snapshot made again from what is in memory.
Rebind(l) ==
  LET shown == Selected(board, Forgotten(board), l)
  IN  /\ layer' = [layer EXCEPT ![board] = l]
      /\ values' = [values EXCEPT ![board] = shown.value]
      /\ snapshot' = shown

Rebindable == board # NoAdapter /\ layer[board] # None

\* Where a rebind meets a job: the attempt has taken its profile, or the
\* snapshot is computed, or about to be, and not yet published.
Crosses == job \in {"connecting", "assign"}

\* set_project_config.
SetProject(p) ==
  /\ p # project /\ changes < MaxChanges /\ changes' = changes + 1 /\ project' = p
  /\ IF Rebindable THEN Rebind(Bound(p, store)) ELSE UNCHANGED <<layer, values, snapshot>>
  /\ crossed' = (crossed \/ Crosses)
  /\ UNCHANGED <<document, store, attemptVars, socket, known, board, job, projected>>

\* A pane writes a record to the project's store, and reload_store reads the
\* file of the bound store again.
RecordOverride ==
  /\ project # None /\ store[project] < MaxRecords
  /\ store' = [store EXCEPT ![project] = @ + 1]
  /\ IF Rebindable /\ layer[board][1] # None
     THEN Rebind(Bound(layer[board][1], store'))
     ELSE UNCHANGED <<layer, values, snapshot>>
  /\ crossed' = (crossed \/ Crosses)
  /\ UNCHANGED <<kicadVars, project, attemptVars, socket, known, board, job, projected>>

-----------------------------------------------------------------------------
(* disconnect.                                                             *)

\* adapter.close() of the board in use, if any.
BoardClosed ==
  [a \in Adapters |-> IF a = board THEN "closed" ELSE socket[a]]

Disconnect == socket' = BoardClosed /\ board' = NoAdapter

\* The field tool lets go of the board before it looks whether KiCad is
\* closed, whatever the worker is doing.
UiDisconnect ==
  /\ board # NoAdapter /\ Disconnect
  /\ UNCHANGED <<kicadVars, uiVars, attemptVars, layer, known, values, job, projected, snapshot,
                 crossed>>

\* A read of the selection fails.
SelectionLost == job = "idle" /\ UiDisconnect

-----------------------------------------------------------------------------
(* connect, and the thread it dials on.                                    *)

Connect ==
  /\ job = "idle" /\ board = NoAdapter /\ made < MaxAdapters
  /\ made' = made + 1 /\ path' = [path EXCEPT ![made'] = project]
  /\ thread' = [thread EXCEPT ![made'] = "dialing"]
  /\ job' = "connecting" /\ crossed' = FALSE
  /\ UNCHANGED <<kicadVars, uiVars, gaveUp, raced, socket, layer, known, values, board, projected,
                 snapshot>>

\* Board.connect: the adapter opens its socket, the profile's store is put on
\* it, and the board is read.  Without a document the read raises, and the
\* adapter goes with the exception.
Dialled(a) ==
  /\ thread[a] = "dialing"
  /\ socket' = [socket EXCEPT ![a] = "open"]
  /\ layer' = [layer EXCEPT ![a] = Layered(path[a])]
  /\ known' = [known EXCEPT ![a] = document]
  /\ thread' = [thread EXCEPT ![a] = IF document = None THEN "failed" ELSE "built"]
  /\ UNCHANGED <<kicadVars, uiVars, made, path, gaveUp, raced, values, board, job, projected,
                 snapshot,
                 crossed>>

\* KiCad is not there.
DialFails(a) ==
  /\ thread[a] = "dialing" /\ thread' = [thread EXCEPT ![a] = "failed"]
  /\ UNCHANGED <<kicadVars, uiVars, made, path, gaveUp, raced, socket, layer, known, values,
                 board, job,
                 projected, snapshot, crossed>>

\* Mutant: a late board is handed over as any other.
NeverLate(a) == FALSE

Late(a) == a \in gaveUp

\* The thread looks whether anybody waits, and closes a board nobody takes.
LookGaveUp(a) ==
  /\ thread[a] = "built"
  /\ thread' = [thread EXCEPT ![a] = IF Late(a) THEN "closed" ELSE "looked"]
  /\ socket' = [socket EXCEPT ![a] = IF Late(a) THEN "closed" ELSE @]
  /\ UNCHANGED <<kicadVars, uiVars, made, path, gaveUp, raced, layer, known, values, board, job,
                 projected, snapshot, crossed>>

\* ... and hands it over, at the end of its life.
HandOver(a) ==
  /\ thread[a] = "looked" /\ thread' = [thread EXCEPT ![a] = "kept"]
  /\ UNCHANGED <<kicadVars, uiVars, made, path, gaveUp, raced, socket, layer, known, values,
                 board, job,
                 projected, snapshot, crossed>>

\* The wait is over and the thread still alive.
GiveUp ==
  /\ job = "connecting" /\ thread[made] \in {"dialing", "built", "looked"}
  /\ gaveUp' = gaveUp \cup {made} /\ job' = "idle"
  /\ raced' = IF thread[made] = "looked" THEN raced \cup {made} ELSE raced
  /\ UNCHANGED <<kicadVars, uiVars, made, path, thread, socket, layer, known, values, board,
                 projected, snapshot, crossed>>

ConnectFails ==
  /\ job = "connecting" /\ thread[made] = "failed" /\ job' = "idle"
  /\ UNCHANGED <<kicadVars, uiVars, attemptVars, socket, layer, known, values, board, projected,
                 snapshot, crossed>>

TakeBoard ==
  /\ job = "connecting" /\ thread[made] = "kept"
  /\ board' = made /\ job' = "project"
  /\ UNCHANGED <<kicadVars, uiVars, attemptVars, socket, layer, known, values, projected, snapshot,
                 crossed>>

-----------------------------------------------------------------------------
(* refresh.                                                                *)

\* Board.refresh: the document is read and the values are forgotten.
Refresh ==
  /\ job = "idle" /\ board # NoAdapter /\ document # None
  /\ known' = [known EXCEPT ![board] = document]
  /\ values' = [values EXCEPT ![board] = None]
  /\ job' = "project"
  /\ UNCHANGED <<kicadVars, uiVars, attemptVars, socket, layer, board, projected, snapshot,
                 crossed>>

\* The cheap tick re-reads a board only when KiCad has another one open.
RefreshIfBoardChanged == board # NoAdapter /\ document # known[board] /\ Refresh

\* The read fails at any step, and the connection is dropped: KiCad is gone,
\* or the UI thread has let go of the board.
JobFails ==
  /\ \/ job = "idle" /\ board # NoAdapter
     \/ job = "project"
  /\ Disconnect /\ job' = "idle"
  /\ UNCHANGED <<kicadVars, uiVars, attemptVars, layer, known, values, projected, snapshot,
                 crossed>>

\* _rebuild_snapshot selects ...
SelectAll ==
  /\ job = "project" /\ board # NoAdapter
  /\ projected' = Selected(board, values[board], layer[board])
  /\ values' = [values EXCEPT ![board] = projected'.value]
  /\ job' = "assign"
  /\ UNCHANGED <<kicadVars, uiVars, attemptVars, socket, layer, known, board, snapshot, crossed>>

\* ... and publishes.
Publish ==
  /\ job = "assign" /\ snapshot' = projected /\ projected' = None /\ job' = "idle"
  /\ UNCHANGED <<kicadVars, uiVars, attemptVars, socket, layer, known, values, board, crossed>>

\* The user opens another board in KiCad, or closes the editor.
OpenDocument ==
  /\ changes < MaxChanges /\ changes' = changes + 1
  /\ \E d \in Documents \cup {None} : d # document /\ document' = d
  /\ UNCHANGED <<uiVars, attemptVars, socket, layer, known, values, board, job, projected,
                 snapshot, crossed>>

ConnectionNext ==
  \/ \E p \in Projects \cup {None} : SetProject(p)
  \/ RecordOverride \/ UiDisconnect \/ SelectionLost
  \/ Connect \/ GiveUp \/ ConnectFails \/ TakeBoard
  \/ \E a \in Adapters : Dialled(a) \/ DialFails(a) \/ LookGaveUp(a) \/ HandOver(a)
  \/ Refresh \/ RefreshIfBoardChanged \/ JobFails \/ SelectAll \/ Publish
  \/ OpenDocument

ConnectionSpec == ConnectionInit /\ [][ConnectionNext]_vars

-----------------------------------------------------------------------------
(* Properties.                                                             *)

\* What the project says of a footprint.
InForce == IF project = None \/ store[project] = 0 THEN OnBoard
           ELSE <<project, store[project]>>

\* With no job under way, the snapshot shows the document the connection names,
\* with the values the open project has on file, however projects were switched,
\* records written and boards swapped.  It needs a layer to bind to, and no
\* rebind may have met a connect or a rebuild (gui/connection.py:561-641).
ShownInForce ==
  job = "idle" /\ board # NoAdapter /\ layer[board] # None /\ ~crossed =>
    snapshot = [document |-> known[board], value |-> InForce]

\* ... and whatever it was bound to when it was made.
AlwaysShownInForce ==
  job = "idle" /\ board # NoAdapter /\ ~crossed =>
    snapshot = [document |-> known[board], value |-> InForce]

\* However attempts time out, come late and overlap, and whoever lets go of the
\* board, a socket that is open is the one in use or of an attempt still under
\* way; else it is of an adapter whose first read of the board raised, or of one
\* whose thread had looked before its caller stopped waiting.
SocketsOwned ==
  \A a \in Adapters : socket[a] = "open" =>
    \/ a = board
    \/ thread[a] \in {"built", "looked"}
    \/ job = "connecting" /\ a = made
    \/ thread[a] = "failed" \/ a \in raced

\* No attempt leaves a board nobody owns (gui/connection.py:310-316).
LateBoardClosed == \A a \in gaveUp : thread[a] = "kept" => socket[a] # "open"
=============================================================================
