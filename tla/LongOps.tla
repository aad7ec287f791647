------------------------------- MODULE LongOps -------------------------------
(***************************************************************************)
(* The GUI's one socket to KiCad and those who share it: the operations of *)
(* start_long_op and the poll ticks of PollWorkerHandle (gui/worker.py,    *)
(* gui/main_window.py), with the guard widgets, the wait cursor and the    *)
(* busy indicator an operation takes along, and the gate the "Explode" tab *)
(* closes for the others (gui/explode_guard.py).                           *)
(*                                                                         *)
(* The UI thread runs one handler at a time, so a handler is an action; a  *)
(* worker thread, a queued signal and a timer are states of an operation.  *)
(***************************************************************************)
EXTENDS Naturals, FiniteSets

CONSTANTS
  Ops,      \* calls of start_long_op, each made once
  Timers,   \* the poll timers of the main window
  Widgets,
  Guards,   \* [Ops -> SUBSET Widgets]: the guard widgets handed over
  Windows,  \* sets of widgets that are destroyed together
  Exempt,   \* operations started with allowed_while_exploded
  Reads     \* those that read whether this board is exploded

ASSUME OpsAssumption ==
  /\ Guards \in [Ops -> SUBSET Widgets] /\ Windows \subseteq SUBSET Widgets
  /\ Exempt \subseteq Ops /\ Reads \subseteq Exempt
ASSUME NamesAssumption == Ops \cap Timers = {}

VARIABLES
  long_op_active,  \* the token of the shared socket
  op,              \* [Ops -> "new", "deferred", "running", "posted", "stopping", "retired"]
  tick,            \* [Timers -> "idle", "running", "posted"]
  answer,          \* [Ops -> "none", "finished", "failed"]: the signal the caller got
  enabled,         \* [Widgets -> BOOLEAN]
  gone,            \* destroyed widgets
  prior,           \* [Ops -> [Widgets -> BOOLEAN]]: _prior_enabled
  cursors,         \* override cursors pushed and not popped
  indicator,       \* the status bar says "busy"
  active           \* _ACTIVE_CONTROLLERS

CONSTANT Journal   \* is there a journal on the disk for this board
VARIABLE exploded  \* ExplodeGuard.active

ASSUME JournalAssumption == Journal \in BOOLEAN

visuals == <<enabled, prior, cursors, indicator>>
vars == <<long_op_active, op, tick, answer, enabled, gone, prior, cursors, indicator,
          active, exploded>>

TypeOK ==
  /\ long_op_active \in BOOLEAN
  /\ op \in [Ops -> {"new", "deferred", "running", "posted", "stopping", "retired"}]
  /\ tick \in [Timers -> {"idle", "running", "posted"}]
  /\ answer \in [Ops -> {"none", "finished", "failed"}]
  /\ enabled \in [Widgets -> BOOLEAN] /\ gone \in SUBSET Widgets
  /\ prior \in [Ops -> [Widgets -> BOOLEAN]]
  /\ cursors \in Nat /\ indicator \in BOOLEAN
  /\ active \in SUBSET Ops /\ exploded \in BOOLEAN

Init ==
  /\ long_op_active = FALSE
  /\ op = [o \in Ops |-> "new"] /\ tick = [t \in Timers |-> "idle"]
  /\ answer = [o \in Ops |-> "none"]
  /\ enabled = [w \in Widgets |-> TRUE] /\ gone = {}
  /\ prior = [o \in Ops |-> [w \in Widgets |-> TRUE]]
  /\ cursors = 0 /\ indicator = FALSE /\ active = {} /\ exploded = FALSE

-----------------------------------------------------------------------------
(* What the handlers are made of.                                          *)

\* Mutant: an operation does not ask whether the socket is taken.
Unasked == FALSE

socket_busy == long_op_active

\* Mutant: the second call writes _prior_enabled again.
ShownAnew(o) == [w \in Widgets |-> enabled[w]]
ShownBefore(o) == prior[o]

\* _show_busy is called when an operation is deferred and again when it gets
\* the socket; the second call changes nothing.
PriorOnRetry(o) == ShownBefore(o)

show_busy(o) ==
  /\ prior' = [prior EXCEPT ![o] = [w \in Widgets |-> enabled[w]]]
  /\ enabled' = [w \in Widgets |-> w \notin Guards[o] /\ enabled[w]]
  /\ cursors' = cursors + 1 /\ indicator' = TRUE

\* Mutant: every release drops the token, whoever raised it.
DroppedAlways(o) == FALSE

\* _release drops the token only if this operation raised it (_acquired).
TokenAfter(o) == long_op_active /\ op[o] \notin {"running", "posted"}

\* _release: the token, the widgets that are still there, the cursor and the
\* indicator.
release(o) ==
  /\ long_op_active' = TokenAfter(o)
  /\ enabled' = [w \in Widgets |-> IF w \in Guards[o] \ gone THEN prior[o][w] ELSE enabled[w]]
  /\ cursors' = cursors - 1 /\ indicator' = FALSE
  /\ UNCHANGED prior

gate_message(o) == exploded /\ o \notin Exempt

Goes(o, state) == op' = [op EXCEPT ![o] = state]
Says(o, signal) == answer' = [answer EXCEPT ![o] = signal]

-----------------------------------------------------------------------------
(* start_long_op and LongOpController, on the UI thread.                   *)

\* The gate is closed: the caller hears it at once.
StartRefused(o) ==
  /\ op[o] = "new" /\ gate_message(o)
  /\ Goes(o, "retired") /\ Says(o, "failed")
  /\ UNCHANGED <<long_op_active, tick, visuals, gone, active, exploded>>

\* start: the socket is free.
StartNow(o) ==
  /\ op[o] = "new" /\ ~gate_message(o) /\ Guards[o] \cap gone = {} /\ ~socket_busy
  /\ long_op_active' = TRUE /\ show_busy(o) /\ Goes(o, "running")
  /\ active' = active \cup {o}
  /\ UNCHANGED <<tick, answer, gone, exploded>>

\* start: it is not; one retry is armed.
StartDeferred(o) ==
  /\ op[o] = "new" /\ ~gate_message(o) /\ Guards[o] \cap gone = {} /\ socket_busy
  /\ show_busy(o) /\ Goes(o, "deferred") /\ active' = active \cup {o}
  /\ UNCHANGED <<long_op_active, tick, answer, gone, exploded>>

\* Mutant: an abandoned operation stays in the keep-alive set.
AbandonLeaks(o) ==
  /\ op[o] = "deferred" /\ Guards[o] \cap gone # {}
  /\ cursors' = cursors - 1 /\ indicator' = FALSE
  /\ Goes(o, "retired")
  /\ UNCHANGED <<long_op_active, tick, answer, enabled, gone, prior, active, exploded>>

\* _deferred_start, the owner destroyed meanwhile: _abandon.
Abandon(o) ==
  /\ op[o] = "deferred" /\ Guards[o] \cap gone # {}
  /\ cursors' = cursors - 1 /\ indicator' = FALSE
  /\ Goes(o, "retired") /\ active' = active \ {o}
  /\ UNCHANGED <<long_op_active, tick, answer, enabled, gone, prior, exploded>>

\* _deferred_start, the socket still taken: _refuse_busy.
RefuseBusy(o) ==
  /\ op[o] = "deferred" /\ Guards[o] \cap gone = {} /\ socket_busy
  /\ release(o) /\ Says(o, "failed") /\ Goes(o, "retired") /\ active' = active \ {o}
  /\ UNCHANGED <<tick, gone, exploded>>

\* _deferred_start, the socket free.
DeferredStart(o) ==
  /\ op[o] = "deferred" /\ Guards[o] \cap gone = {} /\ ~socket_busy
  /\ long_op_active' = TRUE /\ Goes(o, "running")
  /\ prior' = [prior EXCEPT ![o] = PriorOnRetry(o)]
  /\ UNCHANGED <<tick, answer, enabled, gone, cursors, indicator, active, exploded>>

\* The worker thread: fn returned or raised, and the outcome is posted.
WorkerDone(o) ==
  /\ op[o] = "running" /\ Goes(o, "posted")
  /\ UNCHANGED <<long_op_active, tick, answer, visuals, gone, active, exploded>>

\* Mutant: the controller is let go with its result, its thread still running.
DeliverLetsGo(o) ==
  /\ op[o] = "posted" /\ release(o) /\ Goes(o, "stopping") /\ active' = active \ {o}
  /\ Says(o, "finished")
  /\ UNCHANGED <<tick, gone, exploded>>

\* _on_worker_succeeded / _on_worker_failed: release, then the caller's slot.
\* The slot of a state read hands the guard the journal it found; one that
\* failed, or could not name the board, leaves the guard alone.
Deliver(o) ==
  /\ op[o] = "posted" /\ release(o) /\ Goes(o, "stopping")
  /\ \E signal \in {"finished", "failed"} :
       /\ Says(o, signal)
       /\ exploded' \in IF signal = "finished" /\ o \in Reads THEN {exploded, Journal}
                        ELSE {exploded}
  /\ UNCHANGED <<tick, gone, active>>

\* The QThread has really ended (thread_stopped).
ThreadStopped(o) ==
  /\ op[o] = "stopping" /\ Goes(o, "retired") /\ active' = active \ {o}
  /\ UNCHANGED <<long_op_active, tick, answer, visuals, gone, exploded>>

-----------------------------------------------------------------------------
(* The poll ticks, and the user.                                           *)

\* Mutant: a poll tick does not ask whether the socket is taken.
TickUnasked(t) ==
  /\ tick[t] = "idle"
  /\ long_op_active' = TRUE /\ tick' = [tick EXCEPT ![t] = "running"]
  /\ UNCHANGED <<op, answer, visuals, gone, active, exploded>>

\* _poll and _poll_board_selection ask; submit raises the token.
Tick(t) ==
  /\ ~socket_busy /\ tick[t] = "idle"
  /\ long_op_active' = TRUE /\ tick' = [tick EXCEPT ![t] = "running"]
  /\ UNCHANGED <<op, answer, visuals, gone, active, exploded>>

TickDone(t) ==
  /\ tick[t] = "running" /\ tick' = [tick EXCEPT ![t] = "posted"]
  /\ UNCHANGED <<long_op_active, op, answer, visuals, gone, active, exploded>>

\* PollWorkerHandle._on_result drops the token.
TickResult(t) ==
  /\ tick[t] = "posted" /\ tick' = [tick EXCEPT ![t] = "idle"]
  /\ long_op_active' = FALSE
  /\ UNCHANGED <<op, answer, visuals, gone, active, exploded>>

\* A dock or a dialog is closed and its widgets are destroyed.
Close(W) ==
  /\ W \cap gone = {} /\ gone' = gone \cup W
  /\ UNCHANGED <<long_op_active, op, tick, answer, visuals, active, exploded>>

OpStep(o) ==
  StartRefused(o) \/ StartNow(o) \/ StartDeferred(o) \/ Abandon(o) \/ RefuseBusy(o)
    \/ DeferredStart(o) \/ WorkerDone(o) \/ Deliver(o) \/ ThreadStopped(o)
TickStep(t) == Tick(t) \/ TickDone(t) \/ TickResult(t)

Next ==
  \/ \E o \in Ops : OpStep(o)
  \/ \E t \in Timers : TickStep(t)
  \/ \E W \in Windows \ {{}} : Close(W)

Spec == Init /\ [][Next]_vars

\* A call to KiCad ends (the IPC timeout), a worker posts its outcome, and the
\* event loop serves every timer and every queued signal.  Nobody has to start
\* an operation, close a window or let a tick begin.
Fairness ==
  /\ \A o \in Ops : /\ WF_vars(Abandon(o) \/ RefuseBusy(o) \/ DeferredStart(o))
                    /\ WF_vars(WorkerDone(o)) /\ WF_vars(Deliver(o))
                    /\ WF_vars(ThreadStopped(o))
  /\ \A t \in Timers : WF_vars(TickDone(t)) /\ WF_vars(TickResult(t))
FairSpec == Spec /\ Fairness

-----------------------------------------------------------------------------
(* Properties.                                                             *)

\* No two operations have a guard widget in common, and the guard widgets of
\* an operation are destroyed together.
OwnWidgets ==
  /\ \A o, p \in Ops : Guards[o] \cap Guards[p] # {} => o = p
  /\ \A W \in Windows, o \in Ops : Guards[o] \cap W # {} => Guards[o] \subseteq W

Requesting == {o \in Ops : op[o] = "running"} \cup {t \in Timers : tick[t] = "running"}
Holding == {o \in Ops : op[o] \in {"running", "posted"}}
             \cup {t \in Timers : tick[t] \in {"running", "posted"}}
Shown == {o \in Ops : op[o] \in {"deferred", "running", "posted"}}

\* Two requests are never on the socket together: a deferred operation, a tick
\* and a fresh operation each check the token in the very handler that raises it.
OneRequest == \A x, y \in Requesting : x = y

\* The token is up exactly while somebody's request or its answer is under way:
\* no release takes the token of another owner down, and none is left behind.
TokenHeld == long_op_active <=> Holding # {}

\* Where a user of the socket is with its request.
PlaceAt(state) ==
  CASE state = "running" -> "asking"
    [] state = "posted" -> "answered"
    [] OTHER -> "away"

PlaceOf == [x \in Ops \cup Timers |-> PlaceAt(IF x \in Ops THEN op[x] ELSE tick[x])]

Shared == INSTANCE Socket WITH Users <- Ops \cup Timers, token <- long_op_active,
                               place <- PlaceOf

\* Operations and ticks share the socket as Socket says, whatever is deferred,
\* refused, abandoned or closed meanwhile: the token is taken by a user that
\* finds it down in the same handler, and taken down by its owner alone
\* (gui/worker.py:384-467, :544-555, :1067-1082).
SocketShared == Shared!Spec

\* When no operation is under way nothing of it is left: every widget of an
\* open window is as usable as before, no wait cursor and no indicator stay.
ComesDown ==
  Shown = {} => /\ cursors = 0 /\ ~indicator
                /\ \A w \in Widgets \ gone : enabled[w]

\* A controller is kept alive from its start until its thread has really ended:
\* one that is let go has no armed retry, no thread and no queued answer.
KeptAlive ==
  \A o \in Ops : op[o] \in {"deferred", "running", "posted", "stopping"} => o \in active

\* Every operation comes to its end, and its caller hears of it unless the
\* window that asked is gone.
EveryOpEnds ==
  \A o \in Ops : (o \in active) ~>
    (o \notin active /\ (answer[o] # "none" \/ Guards[o] \cap gone # {}))

\* While the user's operation is on the socket the indicator says so.
BusyVisible == (\E o \in Ops : op[o] = "running") => indicator

\* A closed gate lets no operation begin that is not the tab's own.
GateHolds ==
  [][\A o \in Ops : (op[o] # "running" /\ op'[o] = "running") => ~gate_message(o)]_vars
=============================================================================
