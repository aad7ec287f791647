------------------------- MODULE GuiSessionProofs -------------------------
(***************************************************************************)
(* What holds of the board connection of the GUI, of its ways out, and of  *)
(* the connection of the MCP server, each for every value of its constants.*)
(***************************************************************************)
EXTENDS BoardConnection, ExitGuard, McpConnection, TLAPS

(***************************************************************************)
(* The board connection of the GUI: who owns a socket, and what the        *)
(* snapshot shows, for every number of projects, boards and attempts.      *)
(***************************************************************************)

\* The parts of the type invariant the arguments rest on.
Shape ==
  /\ made \in 0 .. MaxAdapters /\ board \in Adapters \cup {NoAdapter}
  /\ thread \in [Adapters -> Threads]
  /\ socket \in [Adapters -> {"none", "open", "closed"}]
  /\ job \in {"idle", "connecting", "project", "assign"}

-----------------------------------------------------------------------------
(* Sockets.                                                                *)

\* A connect dials with no board in use, and the one in use is an attempt's that
\* has come to its end.
BoardKept ==
  /\ job = "connecting" => board = NoAdapter /\ made \in Adapters
  /\ board # NoAdapter => thread[board] = "kept"

\* A thread that runs is the connect's own, or given up; a look that came before
\* the giving up is remembered.
ThreadsWaited == \A a \in Adapters :
  /\ a > made => thread[a] = "none"
  /\ thread[a] \in {"dialing", "built", "looked"} =>
       a \in gaveUp \/ (job = "connecting" /\ a = made)
  /\ thread[a] = "looked" /\ a \in gaveUp => a \in raced
  /\ thread[a] = "dialing" => socket[a] = "none"
  /\ thread[a] = "none" => socket[a] = "none"

SInv == Shape /\ BoardKept /\ ThreadsWaited /\ SocketsOwned

LEMMA SocketsInit == ConnectionInit => SInv
BY ConnectionAssumption
DEF ConnectionInit, SInv, Shape, BoardKept, ThreadsWaited, SocketsOwned, Adapters, NoAdapter,
    Threads

LEMMA SocketsKept == SInv /\ [ConnectionNext]_vars => SInv'
<1> SUFFICES ASSUME SInv, [ConnectionNext]_vars PROVE SInv'
  OBVIOUS
<1> USE ConnectionAssumption
    DEF SInv, Shape, BoardKept, ThreadsWaited, SocketsOwned, Threads, NoAdapter,
        attemptVars
<1>1. ASSUME NEW p \in Projects \cup {None}, SetProject(p) PROVE SInv'
  BY <1>1 DEF SetProject
<1>2. CASE RecordOverride
  BY <1>2 DEF RecordOverride
<1>3. CASE UiDisconnect
  BY <1>3 DEF UiDisconnect, Disconnect, BoardClosed
<1>4. CASE SelectionLost
  BY <1>3, <1>4 DEF SelectionLost
<1>5. CASE Connect
  <2>1. made' \in Adapters /\ made' \in 0 .. MaxAdapters
    BY <1>5 DEF Connect, Adapters
  <2>2. /\ made' = made + 1 /\ socket[made'] = "none" /\ board = NoAdapter
        /\ \A a \in Adapters : a > made' => a > made /\ a # made'
    BY <1>5, <2>1 DEF Connect, Adapters
  <2>3. /\ thread'[made'] = "dialing" /\ thread' \in [Adapters -> Threads]
        /\ \A a \in Adapters : a # made' => thread'[a] = thread[a]
    BY <1>5, <2>1 DEF Connect
  <2>4. UNCHANGED <<gaveUp, raced, socket, board>> /\ job = "idle" /\ job' = "connecting"
    BY <1>5 DEF Connect
  <2>5. Shape' /\ BoardKept'
    BY <2>1, <2>2, <2>3, <2>4
  <2>6. ThreadsWaited'
    BY <2>1, <2>2, <2>3, <2>4
  <2>7. SocketsOwned'
    BY <2>1, <2>2, <2>3, <2>4
  <2> QED BY <2>5, <2>6, <2>7
<1>6. CASE GiveUp
  BY <1>6 DEF GiveUp
<1>7. CASE ConnectFails
  BY <1>7 DEF ConnectFails
<1>8. CASE TakeBoard
  <2>1. /\ UNCHANGED <<made, thread, gaveUp, raced, socket>> /\ job = "connecting"
        /\ thread[made] = "kept" /\ board' = made /\ job' = "project"
        /\ board = NoAdapter /\ made \in Adapters
    BY <1>8 DEF TakeBoard
  <2>2. Shape' /\ BoardKept'
    BY <2>1
  <2>3. ThreadsWaited'
    BY <2>1
  <2>4. SocketsOwned'
    BY <2>1 DEF Adapters
  <2> QED BY <2>2, <2>3, <2>4
<1>9. ASSUME NEW a \in Adapters, Dialled(a) PROVE SInv'
  BY <1>9 DEF Dialled
<1>10. ASSUME NEW a \in Adapters, DialFails(a) PROVE SInv'
  BY <1>10 DEF DialFails
<1>11. ASSUME NEW a \in Adapters, LookGaveUp(a) PROVE SInv'
  BY <1>11 DEF LookGaveUp, Late
<1>12. ASSUME NEW a \in Adapters, HandOver(a) PROVE SInv'
  BY <1>12 DEF HandOver
<1>13. CASE Refresh
  BY <1>13 DEF Refresh
<1>14. CASE RefreshIfBoardChanged
  BY <1>13, <1>14 DEF RefreshIfBoardChanged
<1>15. CASE JobFails
  <2>1. /\ UNCHANGED <<made, thread, gaveUp, raced>> /\ job # "connecting" /\ job' = "idle"
        /\ socket' = BoardClosed /\ board' = NoAdapter
    BY <1>15 DEF JobFails, Disconnect
  <2>2. \A a \in Adapters : socket'[a] = IF a = board THEN "closed" ELSE socket[a]
    BY <2>1 DEF BoardClosed
  <2>3. Shape' /\ BoardKept'
    BY <2>1, <2>2 DEF BoardClosed
  <2>4. ThreadsWaited'
    <3>1. \A a \in Adapters : thread[a] \in {"none", "dialing"} => a # board
      BY DEF Adapters
    <3> QED BY <2>1, <2>2, <3>1
  <2>5. SocketsOwned'
    BY <2>1, <2>2
  <2> QED BY <2>3, <2>4, <2>5
<1>16. CASE SelectAll
  BY <1>16 DEF SelectAll
<1>17. CASE Publish
  BY <1>17 DEF Publish
<1>18. CASE OpenDocument
  BY <1>18 DEF OpenDocument
<1>19. CASE UNCHANGED vars
  BY <1>19 DEF vars
<1> QED
  BY <1>1, <1>2, <1>3, <1>4, <1>5, <1>6, <1>7, <1>8, <1>9, <1>10, <1>11, <1>12, <1>13, <1>14,
     <1>15, <1>16, <1>17, <1>18, <1>19 DEF ConnectionNext

\* An open socket has an owner, apart from the losses the property names
\* (gui/connection.py:284-350, kicadstamp/explore.py:166-190).
THEOREM SocketsOwnedHolds == ConnectionSpec => []SocketsOwned
<1>1. SInv => SocketsOwned
  BY DEF SInv
<1> QED BY SocketsInit, SocketsKept, <1>1, PTL DEF ConnectionSpec

-----------------------------------------------------------------------------
(* The snapshot.                                                           *)

Values ==
  /\ document \in Documents \cup {None}
  /\ project \in Projects \cup {None} /\ store \in [Projects -> 0 .. MaxRecords]
  /\ path \in [Adapters -> Projects \cup {None}]
  /\ layer \in [Adapters -> Copies \cup {None}]
  /\ values \in [Adapters -> Copies \cup {None}]
  /\ known \in [Adapters -> Documents \cup {None}] /\ crossed \in BOOLEAN

\* Values are kept of nobody but a board in use, and are those of its layer.
ValuesFresh == \A a \in Adapters :
  /\ values[a] # None => values[a] = Resolved(layer[a])
  /\ thread[a] \in {"none", "dialing"} => values[a] = None

\* Until the project's store is rebound under a connect, the attempt's layer, and
\* then the layer of the board in use, is of the store of the open project.
LayerCurrent ==
  ~crossed =>
    /\ job = "connecting" => path[made] = project
    /\ job = "connecting" /\ thread[made] \in {"built", "looked", "kept"} /\ layer[made] # None
         => layer[made] = Bound(project, store)
    /\ board # NoAdapter /\ layer[board] # None => layer[board] = Bound(project, store)

Expected == [document |-> known[board], value |-> InForce]

\* What is selected and still to be published is what will be in force.
ProjectedInForce ==
  job = "assign" /\ board # NoAdapter /\ layer[board] # None /\ ~crossed => projected = Expected

VInv == SInv /\ Values /\ ValuesFresh /\ LayerCurrent /\ ProjectedInForce /\ ShownInForce

\* A layer of the open project's store resolves to what is in force.
LEMMA BoundInForce ==
  ASSUME Values
  PROVE  /\ Bound(project, store) \in Copies /\ Bound(project, store) # None
         /\ Resolved(Bound(project, store)) = InForce /\ InForce \in Copies
BY ConnectionAssumption DEF Values, Bound, Resolved, InForce, Copies, OnBoard

LEMMA ShownInit == ConnectionInit => VInv
<1> SUFFICES ASSUME ConnectionInit PROVE VInv
  OBVIOUS
<1>1. SInv
  BY SocketsInit
<1>2. Values
  BY DEF ConnectionInit, Values
<1> QED
  BY <1>1, <1>2 DEF ConnectionInit, VInv, ValuesFresh, LayerCurrent, ProjectedInForce, Expected,
                    ShownInForce, NoAdapter, Adapters

\* Binding the board in use to the store of the open project.
LEMMA Rebound ==
  ASSUME SInv, SInv', Values, ValuesFresh, board # NoAdapter,
         project' \in Projects \cup {None}, store' \in [Projects -> 0 .. MaxRecords],
         Rebind(Bound(project', store')), crossed' = (crossed \/ Crosses),
         UNCHANGED <<document, path, known, board, job, made, thread, projected>>
  PROVE  VInv'
<1> DEFINE l == Bound(project', store')
<1>1. board \in Adapters /\ layer' = [layer EXCEPT ![board] = l]
  BY DEF Rebind, SInv, Shape
<1>2. /\ l \in Copies /\ l # None /\ Resolved(l) \in Copies
      /\ Resolved(l) = InForce'
  BY ConnectionAssumption DEF Bound, Resolved, InForce, Copies, OnBoard
<1>3. /\ values' = [values EXCEPT ![board] = Resolved(l)]
      /\ snapshot' = [document |-> known[board], value |-> Resolved(l)]
  BY DEF Rebind, Selected, Forgotten
<1>4. Values'
  BY <1>1, <1>2, <1>3 DEF Values, Crosses
<1>5. ValuesFresh'
  <2>1. thread[board] = "kept"
    BY DEF SInv, BoardKept
  <2>2. \A a \in Adapters : a # board => values'[a] = values[a] /\ layer'[a] = layer[a]
    BY <1>1, <1>3 DEF Values
  <2>3. values'[board] = Resolved(l) /\ layer'[board] = l
    BY <1>1, <1>3 DEF Values
  <2> QED BY <2>1, <2>2, <2>3 DEF ValuesFresh, Resolved
<1>6. layer'[board] = l
  BY <1>1 DEF Values
<1>7. job # "connecting"
  BY DEF SInv, BoardKept
<1>8. LayerCurrent' /\ ProjectedInForce' /\ ShownInForce'
  BY <1>2, <1>3, <1>6, <1>7 DEF LayerCurrent, ProjectedInForce, Expected, ShownInForce, Crosses,
      InForce
<1> QED BY <1>4, <1>5, <1>8 DEF VInv

LEMMA ShownKept == VInv /\ [ConnectionNext]_vars => VInv'
<1> SUFFICES ASSUME VInv, [ConnectionNext]_vars PROVE VInv'
  OBVIOUS
<1>0. SInv'
  BY SocketsKept DEF VInv
<1> DEFINE Rest == Values' /\ ValuesFresh' /\ LayerCurrent' /\ ProjectedInForce' /\ ShownInForce'
<1> SUFFICES Rest
  BY <1>0 DEF VInv
<1>a. Values /\ SInv /\ ValuesFresh /\ LayerCurrent /\ ProjectedInForce /\ ShownInForce
  BY DEF VInv
<1> USE ConnectionAssumption DEF NoAdapter, attemptVars, uiVars, kicadVars
<1>1. ASSUME NEW p \in Projects \cup {None}, SetProject(p) PROVE Rest
  <2>1. CASE Rebindable
    <3>1. Rebind(Bound(project', store'))
      BY <1>1, <2>1 DEF SetProject
    <3>2. project' \in Projects \cup {None} /\ store' = store
      BY <1>1 DEF SetProject
    <3> QED BY <1>0, <1>a, <1>1, <2>1, <3>1, <3>2, Rebound DEF SetProject, Rebindable, Values,
                                                              VInv
  <2>2. CASE ~Rebindable
    BY <1>a, <1>0, <1>1, <2>2
    DEF SetProject, Rebindable, Values, ValuesFresh, LayerCurrent, ProjectedInForce, Expected,
        ShownInForce, Crosses, InForce, SInv, BoardKept, Resolved
  <2> QED BY <2>1, <2>2
<1>2. CASE RecordOverride
  <2>1. store' \in [Projects -> 0 .. MaxRecords] /\ project' = project
    BY <1>a, <1>2 DEF RecordOverride, Values
  <2>2. CASE Rebindable /\ layer[board][1] # None
    <3>1. CASE layer[board][1] = project
      <4>1. Rebind(Bound(project', store'))
        BY <1>2, <2>1, <2>2, <3>1 DEF RecordOverride
      <4> QED BY <1>0, <1>a, <1>2, <2>1, <2>2, <4>1, Rebound
              DEF RecordOverride, Rebindable, Values, VInv
    <3>2. CASE layer[board][1] # project
      <4>1. project # None
        BY <1>2 DEF RecordOverride
      <4>2. Bound(project, store)[1] = project
        BY <4>1 DEF Bound
      <4>3. crossed
        BY <1>a, <2>2, <3>2, <4>2 DEF LayerCurrent, Rebindable
      <4>4. crossed'
        BY <1>2, <4>3 DEF RecordOverride
      <4>5. board \in Adapters /\ layer[board] \in Copies
        BY <1>a, <2>2 DEF SInv, Shape, Rebindable, Values
      <4> DEFINE l == Bound(layer[board][1], store')
      <4>6. l \in Copies /\ l # None /\ Resolved(l) \in Copies
        BY <2>1, <2>2, <4>5 DEF Bound, Resolved, Copies, OnBoard
      <4>7. layer' = [layer EXCEPT ![board] = l] /\ values' = [values EXCEPT ![board] = Resolved(l)]
        BY <1>2, <2>2 DEF RecordOverride, Rebind, Selected, Forgotten
      <4>8. Values'
        BY <1>a, <1>2, <2>1, <4>4, <4>5, <4>6, <4>7 DEF RecordOverride, Values
      <4>9. ValuesFresh'
        <5>1. thread[board] = "kept" /\ thread' = thread
          BY <1>a, <1>2, <2>2 DEF SInv, BoardKept, Rebindable, RecordOverride
        <5>2. \A a \in Adapters : a # board => values'[a] = values[a] /\ layer'[a] = layer[a]
          BY <1>a, <4>7 DEF Values
        <5>3. values'[board] = Resolved(l) /\ layer'[board] = l
          BY <1>a, <4>5, <4>7 DEF Values
        <5> QED BY <1>a, <5>1, <5>2, <5>3 DEF ValuesFresh, Resolved
      <4> QED BY <4>4, <4>8, <4>9 DEF LayerCurrent, ProjectedInForce, Expected, ShownInForce
    <3> QED BY <3>1, <3>2
  <2>3. CASE ~(Rebindable /\ layer[board][1] # None)
    <3>1. UNCHANGED <<layer, values, snapshot>>
      BY <1>2, <2>3 DEF RecordOverride
    <3>2. CASE ~Rebindable
      BY <1>a, <1>0, <1>2, <2>1, <3>1, <3>2
      DEF RecordOverride, Rebindable, Values, ValuesFresh, LayerCurrent, ProjectedInForce, Expected,
          ShownInForce, Crosses, InForce, SInv, BoardKept, Resolved
    <3>3. CASE Rebindable /\ layer[board][1] = None
      <4>1. Bound(project, store)[1] = project /\ project # None
        BY <1>2 DEF RecordOverride, Bound
      <4>2. crossed /\ crossed'
        BY <1>a, <1>2, <3>3, <4>1 DEF LayerCurrent, Rebindable, RecordOverride
      <4> QED BY <1>a, <1>2, <2>1, <3>1, <4>2
              DEF RecordOverride, Values, ValuesFresh, LayerCurrent, ProjectedInForce, Expected,
                  ShownInForce, Resolved
    <3> QED BY <2>3, <3>2, <3>3
  <2> QED BY <2>2, <2>3
<1>3. CASE UiDisconnect
  BY <1>a, <1>3 DEF UiDisconnect, Disconnect, Values, ValuesFresh, LayerCurrent,
     ProjectedInForce, Expected, ShownInForce, Bound, Resolved
<1>4. CASE SelectionLost
  BY <1>3, <1>4 DEF SelectionLost
<1>5. CASE Connect
  <2>1. made' \in Adapters
    BY <1>5, <1>0 DEF Connect, SInv, BoardKept
  <2>2. /\ path' = [path EXCEPT ![made'] = project] /\ thread'[made'] = "dialing"
        /\ board' = NoAdapter /\ job' = "connecting" /\ crossed' = FALSE
        /\ \A a \in Adapters : a # made' => thread'[a] = thread[a]
    BY <1>a, <1>5, <2>1 DEF Connect, SInv, Shape
  <2>3. UNCHANGED <<document, project, store, layer, values, known>>
    BY <1>5 DEF Connect, kicadVars
  <2>4. Values' /\ path'[made'] = project
    BY <1>a, <2>1, <2>2, <2>3 DEF Values
  <2>5. LayerCurrent' /\ ProjectedInForce' /\ ShownInForce'
    BY <2>2, <2>3, <2>4 DEF LayerCurrent, ProjectedInForce, Expected, ShownInForce
  <2>6. values[made'] = None
    <3>1. made' > made
      BY <1>5, <1>a DEF Connect, SInv, Shape
    <3> QED BY <1>a, <2>1, <3>1 DEF ValuesFresh, SInv, ThreadsWaited
  <2>7. ValuesFresh'
    BY <1>a, <2>2, <2>3, <2>6 DEF ValuesFresh, Resolved
  <2> QED BY <2>4, <2>5, <2>7
<1>6. CASE GiveUp
  BY <1>a, <1>6 DEF GiveUp, Values, ValuesFresh, LayerCurrent, ProjectedInForce, Expected,
      ShownInForce,
     InForce, Bound, Resolved, SInv, BoardKept
<1>7. CASE ConnectFails
  BY <1>a, <1>7 DEF ConnectFails, Values, ValuesFresh, LayerCurrent, ProjectedInForce, Expected,
     ShownInForce, InForce, Bound, Resolved, SInv, BoardKept
<1>8. CASE TakeBoard
  BY <1>a, <1>8 DEF TakeBoard, Values, ValuesFresh, LayerCurrent, ProjectedInForce, Expected,
     ShownInForce, InForce, Bound, Resolved, SInv, BoardKept
<1>9. ASSUME NEW a \in Adapters, Dialled(a) PROVE Rest
  <2>1. /\ thread[a] = "dialing" /\ layer' = [layer EXCEPT ![a] = Layered(path[a])]
        /\ known' = [known EXCEPT ![a] = document]
        /\ \A b \in Adapters : b # a => thread'[b] = thread[b]
        /\ UNCHANGED <<document, project, store, made, path, values, board, job, projected,
                       snapshot,
                       crossed>>
    BY <1>9, <1>a DEF Dialled, SInv, Shape
  <2>2. board # NoAdapter => board \in Adapters /\ board # a
    BY <1>a, <2>1 DEF SInv, Shape, BoardKept
  <2>3. path[a] \in Projects \cup {None} /\ values[a] = None
    BY <1>a, <2>1 DEF Values, ValuesFresh
  <2>4. Layered(path[a]) \in Copies \cup {None}
    BY <1>a, <2>3 DEF Layered, Copies, OnBoard, Values
  <2>5. Layered(path[a]) # None => Layered(path[a]) = Bound(path[a], store)
    BY <2>3 DEF Layered, Bound
  <2>6. layer'[a] = Layered(path[a]) /\ \A b \in Adapters : b # a =>
                                         layer'[b] = layer[b] /\ known'[b] = known[b]
    BY <1>a, <2>1 DEF Values
  <2>7. Values'
    BY <1>a, <2>1, <2>4 DEF Values
  <2>8. ValuesFresh'
    BY <1>a, <2>1, <2>3, <2>6 DEF ValuesFresh, Resolved
  <2>9. LayerCurrent'
    <3>1. job = "connecting" => made \in Adapters
      BY <1>a DEF SInv, BoardKept
    <3>2. CASE made = a
      BY <1>a, <2>1, <2>2, <2>5, <2>6, <3>1, <3>2 DEF LayerCurrent, Bound
    <3>3. CASE made # a
      BY <1>a, <2>1, <2>2, <2>5, <2>6, <3>1, <3>3 DEF LayerCurrent, Bound
    <3> QED BY <3>2, <3>3
  <2>10. ProjectedInForce' /\ ShownInForce'
    BY <1>a, <2>1, <2>2, <2>6 DEF ProjectedInForce, Expected, ShownInForce, InForce
  <2> QED BY <2>7, <2>8, <2>9, <2>10
<1>10. ASSUME NEW a \in Adapters,
              UNCHANGED <<document, project, store, made, path, layer, known, values, board, job,
                          projected, snapshot, crossed>>,
              \A b \in Adapters : b # a => thread'[b] = thread[b],
              thread[a] \in {"dialing", "built", "looked"},
              thread'[a] \in {"failed", "closed", "looked", "kept"},
              thread[a] = "dialing" => thread'[a] = "failed"
       PROVE  Rest
  <2>1. Values' /\ ValuesFresh' /\ ProjectedInForce' /\ ShownInForce'
    BY <1>a, <1>10 DEF Values, ValuesFresh, ProjectedInForce, Expected, ShownInForce, InForce,
        Resolved
  <2>2. LayerCurrent'
    BY <1>a, <1>10 DEF LayerCurrent, Bound, SInv, BoardKept
  <2> QED BY <2>1, <2>2
<1>11. ASSUME NEW a \in Adapters, DialFails(a) PROVE Rest
  BY <1>a, <1>10, <1>11 DEF DialFails, SInv, Shape
<1>12. ASSUME NEW a \in Adapters, LookGaveUp(a) PROVE Rest
  BY <1>a, <1>10, <1>12 DEF LookGaveUp, Late, SInv, Shape
<1>13. ASSUME NEW a \in Adapters, HandOver(a) PROVE Rest
  BY <1>a, <1>10, <1>13 DEF HandOver, SInv, Shape
<1>14. CASE Refresh
  <2>1. board \in Adapters /\ document \in Documents \cup {None}
    BY <1>a, <1>14 DEF SInv, Shape, Refresh, Values
  <2>2. Values' /\ ValuesFresh'
    BY <1>a, <1>14, <2>1 DEF Refresh, Values, ValuesFresh, Resolved
  <2>3. LayerCurrent' /\ ProjectedInForce' /\ ShownInForce'
    BY <1>a, <1>14, <2>1 DEF Refresh, LayerCurrent, ProjectedInForce, Expected, ShownInForce, Bound
  <2> QED BY <2>2, <2>3
<1>15. CASE RefreshIfBoardChanged
  BY <1>14, <1>15 DEF RefreshIfBoardChanged
<1>16. CASE JobFails
  BY <1>a, <1>16 DEF JobFails, Disconnect, Values, ValuesFresh, LayerCurrent,
     ProjectedInForce, Expected, ShownInForce, Bound, Resolved
<1>17. CASE SelectAll
  <2>1. /\ board \in Adapters /\ thread[board] = "kept" /\ projected' =
             Selected(board, values[board], layer[board])
        /\ values' = [values EXCEPT ![board] = projected'.value]
        /\ UNCHANGED <<document, project, store, path, thread, layer, known, board, made, crossed>>
        /\ job' = "assign"
    BY <1>a, <1>17 DEF SelectAll, SInv, Shape, BoardKept
  <2>2. /\ projected' = [document |-> known[board], value |-> Resolved(layer[board])]
        /\ Resolved(layer[board]) \in Copies
    BY <1>a, <2>1 DEF Selected, ValuesFresh, Values, Resolved, Copies, OnBoard
  <2>3. Values' /\ ValuesFresh'
    BY <1>a, <2>1, <2>2 DEF Values, ValuesFresh, Resolved
  <2>4. LayerCurrent' /\ ShownInForce'
    BY <1>a, <2>1 DEF LayerCurrent, ShownInForce, Bound
  <2>5. ~crossed /\ layer[board] # None => Resolved(layer[board]) = InForce
    BY <1>a, <2>1, BoundInForce DEF LayerCurrent, Adapters
  <2>6. ProjectedInForce'
    BY <2>1, <2>2, <2>5 DEF ProjectedInForce, Expected, InForce
  <2> QED BY <2>3, <2>4, <2>6
<1>18. CASE Publish
  BY <1>a, <1>18 DEF Publish, Values, ValuesFresh, LayerCurrent, ProjectedInForce, Expected,
     ShownInForce, InForce, Bound, Resolved
<1>19. CASE OpenDocument
  <2>1. document' \in Documents \cup {None}
    BY <1>19 DEF OpenDocument
  <2> QED BY <1>a, <1>19, <2>1 DEF OpenDocument, Values, ValuesFresh, LayerCurrent,
             ProjectedInForce, Expected, ShownInForce, InForce, Bound, Resolved
<1>20. CASE UNCHANGED vars
  BY <1>a, <1>20 DEF vars, Values, ValuesFresh, LayerCurrent, ProjectedInForce, Expected,
     ShownInForce, InForce, Bound, Resolved
<1> QED
  BY <1>1, <1>2, <1>3, <1>4, <1>5, <1>6, <1>7, <1>8, <1>9, <1>11, <1>12, <1>13, <1>14, <1>15,
     <1>16, <1>17, <1>18, <1>19, <1>20 DEF ConnectionNext

\* With no job under way the snapshot shows what the open project says of the
\* board the connection names (gui/connection.py:561-641).
THEOREM ShownInForceHolds == ConnectionSpec => []ShownInForce
<1>1. VInv => ShownInForce
  BY DEF VInv
<1> QED BY ShownInit, ShownKept, <1>1, PTL DEF ConnectionSpec

-----------------------------------------------------------------------------
(***************************************************************************)
(* The ways out of the program: what has been asked stays asked between a  *)
(* question and the end of the program, except for what is edited while a  *)
(* restore that will end it is under way.                                  *)
(***************************************************************************)

\* A question is on the screen only over a form without an acceptable edit.
FormSettled == question # "none" => form # "valid"

\* Past the question about edits, at the question about clusters, in the restore
\* at an exit and after it, nothing is unasked but what was edited since.
NothingUnasked ==
  /\ program = "ended" /\ Unasked => late
  /\ (question = "clusters" \/ exitOk \/ restoring \in Ways) /\ Unasked => late

\* A program that runs on after a restore at an exit was only hidden, and one
\* that ended has its clusters back.
ClustersBack ==
  /\ program = "running" /\ exitOk => hidden
  /\ ExitBoardBack

ExitInv == ExitTypeOK /\ FormSettled /\ NothingUnasked /\ ClustersBack

LEMMA ExitInitHolds == ExitInit => ExitInv
BY DEF ExitInit, ExitInv, ExitTypeOK, FormSettled, NothingUnasked, ClustersBack, Unasked,
       ExitBoardBack, Ways

\* One lemma for the ways out that all come by the question about clusters.
LEMMA AskedClusters ==
  ASSUME ExitInv, program = "running", NEW w \in Ways, AskClusters(w),
         form' # "valid", staged' => agreed', staged' \in BOOLEAN, agreed' \in BOOLEAN,
         form' \in {"clean", "valid", "invalid"},
         UNCHANGED <<exploded, restoring, exitOk, tray, late, hidden>>, failed' \in BOOLEAN
  PROVE  ExitInv'
BY DEF ExitInv, ExitTypeOK, FormSettled, NothingUnasked, ClustersBack, ExitBoardBack, Unasked,
       AskClusters, ClustersInTheWay, Ways

LEMMA AskedEdits ==
  ASSUME ExitInv, program = "running", NEW w \in Ways, AskEdits(w),
         UNCHANGED <<exploded, restoring, exitOk, tray, late, hidden, failed>>
  PROVE  ExitInv'
<1>1. CASE exitOk
  BY <1>1 DEF AskEdits, AskClusters, ClustersInTheWay, ExitInv, ExitTypeOK, FormSettled,
              NothingUnasked, ClustersBack, ExitBoardBack, Unasked, Ways
<1>2. CASE ~exitOk /\ staged'
  BY <1>2 DEF AskEdits, FormAccepted, ExitInv, ExitTypeOK, FormSettled,
              NothingUnasked, ClustersBack, ExitBoardBack, Unasked, Ways
<1>3. CASE ~exitOk /\ ~staged'
  <2>1. /\ AskClusters(w) /\ form' # "valid" /\ form' \in {"clean", "valid", "invalid"}
        /\ staged' \in BOOLEAN /\ agreed' \in BOOLEAN
    BY <1>3 DEF AskEdits, FormAccepted, ExitInv, ExitTypeOK
  <2> QED BY <1>3, <2>1, AskedClusters DEF ExitInv, ExitTypeOK
<1> QED BY <1>1, <1>2, <1>3 DEF ExitInv, ExitTypeOK

LEMMA ExitInvKept == ExitInv /\ [ExitNext]_exitVars => ExitInv'
<1> SUFFICES ASSUME ExitInv, [ExitNext]_exitVars PROVE ExitInv'
  OBVIOUS
<1> USE DEF ExitInv, ExitTypeOK, FormSettled, NothingUnasked, ClustersBack, ExitBoardBack,
            Unasked, Ways, AtWork, LateNow
<1>1. CASE StageEdit
  BY <1>1 DEF StageEdit
<1>2. CASE TypeIntoForm
  <2>1. /\ program = "running" /\ question = "none" /\ form' \in {"valid", "invalid"}
        /\ late' = (late \/ exitOk \/ restoring \in Ways)
        /\ UNCHANGED <<staged, agreed, exploded, restoring, exitOk, tray, question, way, program,
                       hidden, failed>>
    BY <1>2 DEF TypeIntoForm
  <2>2. ExitTypeOK' /\ FormSettled' /\ ClustersBack'
    BY <2>1
  <2>3. NothingUnasked'
    BY <2>1
  <2> QED BY <2>2, <2>3
<1>3. CASE SetTray
  BY <1>3 DEF SetTray
<1>4. CASE Explode
  BY <1>4 DEF Explode
<1>5. CASE RestoreClicked
  BY <1>5 DEF RestoreClicked
<1>6. CASE Save
  BY <1>6 DEF Save, Saved, SettledForm, StagedWithForm
<1>7. CASE Close
  BY <1>7, AskedEdits DEF Close
<1>8. CASE Quit
  BY <1>8, AskedEdits DEF Quit
<1>9. CASE Cancel
  BY <1>9 DEF Cancel
<1>10. CASE AnswerSave
  <2>1. PICK left \in BOOLEAN, fails \in BOOLEAN :
          /\ Saved(left, fails) /\ failed' = fails
          /\ IF left THEN question' = "none" /\ UNCHANGED <<way, program>> ELSE AskClusters(way)
    BY <1>10 DEF AnswerSave
  <2>2. CASE left
    BY <1>10, <2>1, <2>2 DEF AnswerSave, Saved, SettledForm, StagedWithForm
  <2>3. CASE ~left
    <3>1. form' # "valid" /\ staged' = FALSE /\ form' \in {"clean", "valid", "invalid"}
      BY <1>10, <2>1, <2>3 DEF AnswerSave, Saved, SettledForm, StagedWithForm
    <3> QED BY <1>10, <2>1, <2>3, <3>1, AskedClusters DEF AnswerSave
  <2> QED BY <2>2, <2>3
<1>11. CASE AnswerDiscard
  BY <1>11, AskedClusters DEF AnswerDiscard
<1>12. CASE AnswerPutBack
  BY <1>12 DEF AnswerPutBack
<1>13. CASE RestoreDone
  <2>1. /\ program = "running" /\ restoring \in {"stay", "close", "quit"}
        /\ exploded' = FALSE /\ restoring' = "none"
        /\ UNCHANGED <<form, staged, agreed, tray, way, late, failed>>
    BY <1>13 DEF RestoreDone
  <2>2. CASE restoring = "stay"
    <3>1. UNCHANGED <<exitOk, hidden, program, question>>
      BY <1>13, <2>2 DEF RestoreDone
    <3> QED BY <2>1, <2>2, <3>1
  <2>3. CASE restoring # "stay"
    <3>1. exitOk' = TRUE /\ (Unasked => late)
      BY <1>13, <2>1, <2>3 DEF RestoreDone
    <3>2. CASE restoring = "quit" \/ ~tray
      <4>1. program' = "ended" /\ question' = "none" /\ hidden' = hidden
        BY <1>13, <2>1, <2>3, <3>2 DEF RestoreDone
      <4> QED BY <2>1, <3>1, <4>1
    <3>3. CASE restoring = "close" /\ tray
      <4>1. program' = "running" /\ question' = question /\ hidden' = TRUE
        BY <1>13, <2>1, <3>3 DEF RestoreDone
      <4> QED BY <2>1, <3>1, <4>1
    <3> QED BY <2>1, <2>3, <3>2, <3>3
  <2> QED BY <2>2, <2>3
<1>14. CASE RestoreFails
  BY <1>14 DEF RestoreFails
<1>15. CASE UNCHANGED exitVars
  BY <1>15 DEF exitVars
<1> QED
  BY <1>1, <1>2, <1>3, <1>4, <1>5, <1>6, <1>7, <1>8, <1>9, <1>10, <1>11, <1>12, <1>13, <1>14,
     <1>15 DEF ExitNext

\* The program never ends over an edit the user was not asked about
\* (gui/exit_guard.py:47-97).
THEOREM ExitAskedHolds == ExitSpec => []ExitAsked
<1>1. ExitInv => ExitAsked
  BY DEF ExitInv, NothingUnasked, ExitAsked
<1> QED BY ExitInitHolds, ExitInvKept, <1>1, PTL DEF ExitSpec

\* ... nor over clusters that lie spread on the board (gui/explode_wiring.py:213-243).
THEOREM ExitBoardBackHolds == ExitSpec => []ExitBoardBack
<1>1. ExitInv => ExitBoardBack
  BY DEF ExitInv, ClustersBack
<1> QED BY ExitInitHolds, ExitInvKept, <1>1, PTL DEF ExitSpec

-----------------------------------------------------------------------------
(***************************************************************************)
(* The connection of the MCP server implements RawMove, whatever the       *)
(* bounds: no move without the board having been named on the very adapter *)
(* that carries it out.                                                    *)
(***************************************************************************)

Vetted == {"read", "commit"}
Loaded == {"refresh", "guard", "read", "commit", "reload"}

\* The parts of the type invariant the argument rests on.
CallShape ==
  /\ spot \in [Boards -> Spots] /\ expected \in Boards /\ target \in Spots
  /\ links \in Nat /\ adapter \in Links \cup {NoLink} /\ rerun \in BOOLEAN
  /\ handle \in [Links -> Boards \cup {NoBoard}] /\ openBoard \in Boards \cup {NoBoard}
  /\ stage \in {"idle", "ensure"} \cup Loaded
  /\ tried \in BOOLEAN /\ (tried => stage = "commit")

\* A call that reads or moves has checked the board of its adapter; one that has
\* left "ensure" has an adapter.
Vetting ==
  /\ stage \in Loaded => adapter \in Links
  /\ stage \in Vetted => handle[adapter] = expected

McpInv == CallShape /\ Vetting

\* The start is one of RawMove's, and has the invariant.
LEMMA McpInitHolds == McpInit => McpInv /\ Asked!Init
<1> SUFFICES ASSUME McpInit PROVE McpInv /\ Asked!Init
  OBVIOUS
<1>1. McpInv
  BY McpAssumption DEF McpInit, McpInv, CallShape, Vetting, Vetted, Loaded, Links, NoLink
<1>2. Asked!Init
  BY DEF McpInit, Asked!Init, RequestOpen, AttemptsLeft
<1> QED BY <1>1, <1>2

\* The steps of the server and of KiCad keep the invariant.
LEMMA McpInvKept == McpInv /\ [McpNext]_mcpVars => McpInv'
<1> SUFFICES ASSUME McpInv, [McpNext]_mcpVars PROVE McpInv'
  OBVIOUS
<1> USE McpAssumption DEF McpInv, CallShape, Vetting, Vetted, Loaded
<1>1. ASSUME NEW b \in Boards, NEW s \in Spots, Call(b, s) PROVE McpInv'
  BY <1>1 DEF Call, link
<1>2. CASE Reuse
  BY <1>2 DEF Reuse, Proceed, link, unchangedByLink, NoLink
<1>3. CASE Dial
  <2>1. links' \in Links /\ links' \in Nat
    BY <1>3 DEF Dial, Links
  <2>2. CASE Proceed("guard") /\ handle' = [handle EXCEPT ![links'] = openBoard]
             /\ openBoard # NoBoard /\ adapter' = links'
    BY <1>3, <2>1, <2>2 DEF Dial, Proceed, unchangedByLink
  <2>3. CASE Fails /\ UNCHANGED <<handle, adapter>>
    BY <1>3, <2>1, <2>3 DEF Dial, Fails, unchangedByLink
  <2> QED BY <1>3, <2>2, <2>3 DEF Dial
<1>4. ASSUME Reconnect, UNCHANGED <<openBoard, spot>> PROVE McpInv'
  <2>1. CASE rerun
    BY <1>4, <2>1 DEF Reconnect, Fails, link
  <2>2. CASE ~rerun
    BY <1>4, <2>2 DEF Reconnect, NoLink
  <2> QED BY <2>1, <2>2
<1>5. CASE LinkError
  BY <1>5, <1>4 DEF LinkError, unchangedByLink
<1>6. CASE OtherError
  BY <1>6 DEF OtherError, Fails, link, unchangedByLink
<1>7. CASE RefreshBoard
  BY <1>7 DEF RefreshBoard, Proceed, unchangedByLink
<1>8. CASE Guard
  BY <1>8 DEF Guard, SameBoard, Proceed, link, unchangedByLink
<1>9. CASE ReadSpot
  BY <1>9 DEF ReadSpot, link, unchangedByLink
<1>10. ASSUME Moved, stage = "commit"
       PROVE spot' \in [Boards -> Spots] /\ openBoard' = openBoard
  BY <1>10 DEF Moved
<1>11. CASE Commit
  BY <1>10, <1>11 DEF Commit, Proceed, link
<1>12. CASE CommitFails
  <2>1. spot' \in [Boards -> Spots] /\ openBoard' = openBoard
    BY <1>10, <1>12 DEF CommitFails, unchangedByLink
  <2>2. CASE tried' = TRUE /\ UNCHANGED <<stage, rerun, expected, target, old, answer, link>>
    BY <1>12, <2>1, <2>2 DEF CommitFails, link
  <2>3. CASE Reconnect /\ rerun
    BY <2>1, <2>3 DEF Reconnect, Fails, link
  <2>4. CASE Reconnect /\ ~rerun
    BY <2>1, <2>4 DEF Reconnect, NoLink
  <2>5. CASE Fails /\ UNCHANGED link
    BY <2>1, <2>5 DEF Fails, link
  <2> QED BY <1>12, <2>2, <2>3, <2>4, <2>5 DEF CommitFails
<1>13. CASE Answer
  BY <1>13 DEF Answer, unchangedByLink
<1>14. CASE SwitchBoard
  BY <1>14 DEF SwitchBoard, link, call
<1>15. CASE MoveByHand
  BY <1>15 DEF MoveByHand, link, call
<1>16. CASE Restart
  BY <1>16 DEF Restart, call
<1>17. CASE UNCHANGED mcpVars
  BY <1>17 DEF mcpVars, link, call
<1> QED
  BY <1>1, <1>2, <1>3, <1>5, <1>6, <1>7, <1>8, <1>9, <1>11, <1>12, <1>13, <1>14, <1>15,
     <1>16, <1>17 DEF McpNext

\* Every step is one of RawMove, or changes nothing of it.
LEMMA StepSimulated == McpInv /\ [McpNext]_mcpVars => [Asked!Next]_(Asked!vars)
<1> SUFFICES ASSUME McpInv, [McpNext]_mcpVars PROVE Asked!Next \/ UNCHANGED Asked!vars
  OBVIOUS
<1> USE McpAssumption DEF McpInv, CallShape, Vetting, Vetted, Loaded
<1> DEFINE Same == UNCHANGED <<spot, RequestOpen, AttemptsLeft>>
<1>0. Same => UNCHANGED Asked!vars
  BY DEF Asked!vars
<1>1. ASSUME NEW b \in Boards, NEW s \in Spots, Call(b, s) PROVE Asked!Ask
  <2>1. RequestOpen = {} /\ RequestOpen' = {[board |-> b, to |-> s]} /\ UNCHANGED spot
    BY <1>1 DEF Call, RequestOpen
  <2>2. AttemptsLeft' = 4
    BY <1>1 DEF Call, AttemptsLeft
  <2> QED BY <2>1, <2>2 DEF Asked!Ask, Asked!Requests, Asked!MaxAttempts
<1>2. CASE Reuse
  <2>1. Same
    BY <1>2 DEF Reuse, Proceed, unchangedByLink, RequestOpen, AttemptsLeft
  <2> QED BY <2>1, <1>0
<1>3. ASSUME stage # "idle", Fails, UNCHANGED spot PROVE Asked!End
  <2>1. RequestOpen # {} /\ RequestOpen' = {}
    BY <1>3 DEF Fails, RequestOpen
  <2>2. AttemptsLeft' = 0
    BY <1>3 DEF Fails, AttemptsLeft
  <2> QED BY <1>3, <2>1, <2>2 DEF Asked!End
<1>4. CASE Dial
  <2>1. CASE Proceed("guard")
    <3>1. Same
      BY <1>4, <2>1 DEF Dial, Proceed, unchangedByLink, RequestOpen, AttemptsLeft
    <3> QED BY <3>1, <1>0
  <2>2. CASE Fails
    BY <1>4, <2>2, <1>3 DEF Dial, Asked!Next, unchangedByLink
  <2> QED BY <1>4, <2>1, <2>2 DEF Dial
<1>5. CASE LinkError
  <2>1. CASE rerun
    BY <1>5, <2>1, <1>3 DEF LinkError, Reconnect, Asked!Next, unchangedByLink
  <2>2. CASE ~rerun /\ stage = "reload"
    <3>1. Same
      BY <1>5, <2>2 DEF LinkError, Reconnect, unchangedByLink, RequestOpen, AttemptsLeft
    <3> QED BY <3>1, <1>0
  <2>3. CASE ~rerun /\ stage # "reload"
    <3>1. AttemptsLeft = 4 /\ AttemptsLeft' = 2 /\ RequestOpen' = RequestOpen
      BY <1>5, <2>3 DEF LinkError, Reconnect, RequestOpen, AttemptsLeft
    <3>2. UNCHANGED spot
      BY <1>5 DEF LinkError, unchangedByLink
    <3> QED BY <3>1, <3>2 DEF Asked!Attempt, Asked!Next
  <2> QED BY <2>1, <2>2, <2>3
<1>6. CASE OtherError
  BY <1>6, <1>3 DEF OtherError, Asked!Next, unchangedByLink
<1>7. CASE RefreshBoard
  <2>1. Same
    BY <1>7 DEF RefreshBoard, Proceed, unchangedByLink, RequestOpen, AttemptsLeft
  <2> QED BY <2>1, <1>0
<1>8. CASE Guard
  <2>1. CASE SameBoard
    <3>1. Same
      BY <1>8, <2>1 DEF Guard, Proceed, unchangedByLink, RequestOpen, AttemptsLeft
    <3> QED BY <3>1, <1>0
  <2>2. CASE ~SameBoard
    <3>1. Fails /\ UNCHANGED spot /\ stage # "idle"
      BY <1>8, <2>2 DEF Guard, Proceed, Fails, unchangedByLink
    <3> QED BY <3>1, <1>3 DEF Asked!Next
  <2> QED BY <2>1, <2>2
<1>9. CASE ReadSpot
  <2>1. Same
    BY <1>9 DEF ReadSpot, unchangedByLink, RequestOpen, AttemptsLeft
  <2> QED BY <2>1, <1>0
<1>10. ASSUME Moved, stage = "commit"
       PROVE \E q \in RequestOpen : spot' = [spot EXCEPT ![q.board] = q.to]
  BY <1>10 DEF Moved, RequestOpen
<1>11. CASE Commit
  <2>1. /\ RequestOpen' = RequestOpen
        /\ AttemptsLeft \in Nat /\ AttemptsLeft' \in Nat /\ AttemptsLeft' < AttemptsLeft
    BY <1>11 DEF Commit, Proceed, RequestOpen, AttemptsLeft
  <2>2. Asked!Attempt
    BY <1>10, <1>11, <2>1 DEF Commit, Asked!Attempt
  <2> QED BY <2>2 DEF Asked!Next
<1>12. CASE CommitFails
  <2>1. UNCHANGED spot \/ \E q \in RequestOpen : spot' = [spot EXCEPT ![q.board] = q.to]
    BY <1>10, <1>12 DEF CommitFails, unchangedByLink
  <2>2. AttemptsLeft \in Nat /\ AttemptsLeft > 0
    BY <1>12 DEF CommitFails, AttemptsLeft
  <2>3. CASE Fails
    <3>1. RequestOpen' = {} /\ AttemptsLeft' = 0
      BY <2>3 DEF Fails, RequestOpen, AttemptsLeft
    <3> QED BY <2>1, <2>2, <3>1 DEF Asked!Attempt, Asked!Next
  <2>4. CASE ~tried /\ tried' = TRUE /\ UNCHANGED <<stage, rerun, expected, target>>
    <3>1. RequestOpen' = RequestOpen /\ AttemptsLeft' \in 0 .. AttemptsLeft - 1
      BY <1>12, <2>4 DEF CommitFails, RequestOpen, AttemptsLeft
    <3> QED BY <2>1, <2>2, <3>1 DEF Asked!Attempt, Asked!Next
  <2>5. CASE tried /\ Reconnect /\ ~rerun
    <3>1. RequestOpen' = RequestOpen /\ AttemptsLeft' \in 0 .. AttemptsLeft - 1
      BY <1>12, <2>5 DEF CommitFails, Reconnect, RequestOpen, AttemptsLeft
    <3> QED BY <2>1, <2>2, <3>1 DEF Asked!Attempt, Asked!Next
  <2> QED BY <1>12, <2>3, <2>4, <2>5 DEF CommitFails, Reconnect
<1>13. CASE Answer
  BY <1>13 DEF Answer, Asked!End, Asked!Next, unchangedByLink, RequestOpen, AttemptsLeft
<1>14. CASE SwitchBoard
  <2>1. Same
    BY <1>14 DEF SwitchBoard, call, RequestOpen, AttemptsLeft
  <2> QED BY <2>1, <1>0
<1>15. CASE MoveByHand
  <2>1. RequestOpen' = RequestOpen /\ AttemptsLeft' = AttemptsLeft
    BY <1>15 DEF MoveByHand, call, RequestOpen, AttemptsLeft
  <2>2. \E b \in Boards, s \in Spots : spot' = [spot EXCEPT ![b] = s]
    BY <1>15 DEF MoveByHand
  <2> QED BY <2>1, <2>2 DEF Asked!ByHand, Asked!Next
<1>16. CASE Restart
  <2>1. Same
    BY <1>16 DEF Restart, call, RequestOpen, AttemptsLeft
  <2> QED BY <2>1, <1>0
<1>17. CASE UNCHANGED mcpVars
  <2>1. Same
    BY <1>17 DEF mcpVars, call, RequestOpen, AttemptsLeft
  <2> QED BY <2>1, <1>0
<1> QED
  BY <1>1, <1>2, <1>4, <1>5, <1>6, <1>7, <1>8, <1>9, <1>11, <1>12, <1>13, <1>14, <1>15,
     <1>16, <1>17 DEF McpNext, Asked!Next

\* The connection of the MCP server, with its retries, reconnects and re-runs,
\* implements what a raw move promises (mcp_server/connection.py:174-236,
\* handlers.py:328-363, adapter.py:1044-1080).
THEOREM MovesAsAskedHolds == McpSpec => MovesAsAsked
<1>1. McpInit => McpInv /\ Asked!Init
  BY McpInitHolds
<1>2. McpInv /\ [McpNext]_mcpVars => McpInv'
  BY McpInvKept
<1>3. McpInv /\ [McpNext]_mcpVars => [Asked!Next]_(Asked!vars)
  BY StepSimulated
<1> QED BY <1>1, <1>2, <1>3, PTL DEF McpSpec, MovesAsAsked, Asked!Spec
=============================================================================
