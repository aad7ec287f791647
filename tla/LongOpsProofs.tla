---------------------------- MODULE LongOpsProofs ----------------------------
(***************************************************************************)
(* The token of the socket and what an operation leaves behind, for any    *)
(* number of operations, timers, widgets and windows.                      *)
(***************************************************************************)
EXTENDS LongOps, FiniteSetTheorems, TLAPS

\* Every pushed cursor belongs to one operation that is shown busy.
Counted == IsFiniteSet(Shown) /\ cursors = Cardinality(Shown)

\* The token is up for exactly one holder or for none.
OneHolder == \A x, y \in Holding : x = y

IInv == TypeOK /\ Counted /\ OneHolder /\ TokenHeld /\ KeptAlive

\* The states an operation is in, for the steps that look only at them.
LEMMA GoesTyped ==
  ASSUME TypeOK, NEW o \in Ops,
         NEW s \in {"new", "deferred", "running", "posted", "stopping", "retired"}, Goes(o, s)
  PROVE  /\ op' \in [Ops -> {"new", "deferred", "running", "posted", "stopping", "retired"}]
         /\ op'[o] = s
         /\ \A p \in Ops \ {o} : op'[p] = op[p]
BY DEF TypeOK, Goes

LEMMA SaysTyped ==
  ASSUME TypeOK, NEW o \in Ops, NEW s \in {"finished", "failed"}, Says(o, s)
  PROVE  answer' \in [Ops -> {"none", "finished", "failed"}]
BY DEF TypeOK, Says

LEMMA ReleaseTyped ==
  ASSUME TypeOK, NEW o \in Ops, release(o)
  PROVE  /\ enabled' \in [Widgets -> BOOLEAN] /\ prior' = prior /\ indicator' = FALSE
         /\ long_op_active' = TokenAfter(o)
<1>1. \A w \in Widgets : enabled[w] \in BOOLEAN /\ prior[o][w] \in BOOLEAN
  BY DEF TypeOK
<1>2. \A w \in Widgets :
        (IF w \in Guards[o] \ gone THEN prior[o][w] ELSE enabled[w]) \in BOOLEAN
  BY <1>1
<1> QED BY <1>2 DEF release

\* One more operation is shown.
LEMMA ShownMore ==
  ASSUME Counted, NEW o \in Ops, o \notin Shown, Shown' = Shown \cup {o},
         cursors' = cursors + 1
  PROVE  Counted' /\ cursors' \in Nat
<1>1. /\ IsFiniteSet(Shown \cup {o})
      /\ Cardinality(Shown \cup {o}) = Cardinality(Shown) + 1
  BY FS_AddElement DEF Counted
<1>2. Cardinality(Shown \cup {o}) \in Nat
  BY <1>1, FS_CardinalityType
<1> QED BY <1>1, <1>2 DEF Counted

\* One operation less is shown: its cursor was among those pushed.
LEMMA ShownLess ==
  ASSUME Counted, NEW o \in Ops, o \in Shown, Shown' = Shown \ {o}, cursors' = cursors - 1
  PROVE  Counted' /\ cursors' \in Nat
<1>1. /\ IsFiniteSet(Shown \ {o})
      /\ Cardinality(Shown \ {o}) = Cardinality(Shown) - 1
  BY FS_RemoveElement DEF Counted
<1>2. Cardinality(Shown \ {o}) \in Nat
  BY <1>1, FS_CardinalityType
<1> QED BY <1>1, <1>2 DEF Counted

LEMMA SameShown ==
  ASSUME TypeOK, Counted, Shown' = Shown, cursors' = cursors
  PROVE  Counted' /\ cursors' \in Nat
BY DEF Counted, TypeOK

LEMMA InitIInv == Init => IInv
<1> SUFFICES ASSUME Init PROVE IInv
  OBVIOUS
<1>1. TypeOK
  BY DEF Init, TypeOK
<1>2. Shown = {} /\ Holding = {}
  BY DEF Init, Shown, Holding
<1>3. Counted
  BY <1>2, FS_EmptySet DEF Init, Counted
<1> QED BY <1>1, <1>2, <1>3 DEF Init, IInv, OneHolder, TokenHeld, KeptAlive

LEMMA StepIInv == IInv /\ [Next]_vars => IInv'
<1> SUFFICES ASSUME IInv, [Next]_vars PROVE IInv'
  OBVIOUS
<1> USE DEF IInv
<1>1. CASE UNCHANGED vars
  BY <1>1 DEF vars, TypeOK, Counted, Shown, OneHolder, TokenHeld, KeptAlive, Holding
<1>2. ASSUME NEW o \in Ops, StartRefused(o) PROVE IInv'
  <2>1. /\ op[o] = "new" /\ Goes(o, "retired") /\ Says(o, "failed")
        /\ UNCHANGED <<long_op_active, tick, visuals, gone, active, exploded>>
    BY <1>2 DEF StartRefused
  <2>2. TypeOK'
    BY <2>1, GoesTyped, SaysTyped DEF TypeOK, visuals
  <2>3. Shown' = Shown /\ Holding' = Holding
    BY <2>1, GoesTyped DEF Shown, Holding
  <2>4. Counted'
    BY <2>1, <2>3, SameShown DEF visuals
  <2>5. KeptAlive'
    BY <2>1, GoesTyped DEF KeptAlive
  <2> QED BY <2>1, <2>2, <2>3, <2>4, <2>5 DEF OneHolder, TokenHeld
<1>3. ASSUME NEW o \in Ops, StartNow(o) PROVE IInv'
  <2>1. /\ op[o] = "new" /\ ~long_op_active /\ long_op_active' = TRUE /\ show_busy(o)
        /\ Goes(o, "running") /\ active' = active \cup {o}
        /\ UNCHANGED <<tick, answer, gone, exploded>>
    BY <1>3 DEF StartNow, socket_busy
  <2>2. Shown' = Shown \cup {o} /\ o \notin Shown
    BY <2>1, GoesTyped DEF Shown
  <2>3. Counted' /\ cursors' \in Nat
    BY <2>1, <2>2, ShownMore DEF show_busy
  <2>4. TypeOK'
    BY <2>1, <2>3, GoesTyped DEF TypeOK, show_busy
  <2>5. Holding = {} /\ Holding' = {o}
    BY <2>1, GoesTyped DEF TokenHeld, Holding
  <2>6. KeptAlive'
    BY <2>1, GoesTyped DEF KeptAlive
  <2> QED BY <2>1, <2>3, <2>4, <2>5, <2>6 DEF OneHolder, TokenHeld
<1>4. ASSUME NEW o \in Ops, StartDeferred(o) PROVE IInv'
  <2>1. /\ op[o] = "new" /\ show_busy(o) /\ Goes(o, "deferred") /\ active' = active \cup {o}
        /\ UNCHANGED <<long_op_active, tick, answer, gone, exploded>>
    BY <1>4 DEF StartDeferred
  <2>2. Shown' = Shown \cup {o} /\ o \notin Shown /\ Holding' = Holding
    BY <2>1, GoesTyped DEF Shown, Holding
  <2>3. Counted' /\ cursors' \in Nat
    BY <2>1, <2>2, ShownMore DEF show_busy
  <2>4. TypeOK'
    BY <2>1, <2>3, GoesTyped DEF TypeOK, show_busy
  <2>5. KeptAlive'
    BY <2>1, GoesTyped DEF KeptAlive
  <2> QED BY <2>1, <2>2, <2>3, <2>4, <2>5 DEF OneHolder, TokenHeld
<1>5. ASSUME NEW o \in Ops, Abandon(o) PROVE IInv'
  <2>1. /\ op[o] = "deferred" /\ cursors' = cursors - 1 /\ indicator' = FALSE
        /\ Goes(o, "retired") /\ active' = active \ {o}
        /\ UNCHANGED <<long_op_active, tick, answer, enabled, gone, prior, exploded>>
    BY <1>5 DEF Abandon
  <2>2. Shown' = Shown \ {o} /\ o \in Shown /\ Holding' = Holding
    BY <2>1, GoesTyped DEF Shown, Holding
  <2>3. Counted' /\ cursors' \in Nat
    BY <2>1, <2>2, ShownLess
  <2>4. TypeOK'
    BY <2>1, <2>3, GoesTyped DEF TypeOK
  <2>5. KeptAlive'
    BY <2>1, GoesTyped DEF KeptAlive
  <2> QED BY <2>1, <2>2, <2>3, <2>4, <2>5 DEF OneHolder, TokenHeld
<1>6. ASSUME NEW o \in Ops, RefuseBusy(o) PROVE IInv'
  <2>1. /\ op[o] = "deferred" /\ long_op_active /\ release(o) /\ Says(o, "failed")
        /\ Goes(o, "retired") /\ active' = active \ {o} /\ UNCHANGED <<tick, gone, exploded>>
    BY <1>6 DEF RefuseBusy, socket_busy
  <2>2. Shown' = Shown \ {o} /\ o \in Shown /\ Holding' = Holding
    BY <2>1, GoesTyped DEF Shown, Holding
  <2>3. Counted' /\ cursors' \in Nat
    BY <2>1, <2>2, ShownLess DEF release
  <2>4. long_op_active' = long_op_active
    BY <2>1 DEF release, TokenAfter, TypeOK
  <2>5. TypeOK'
    BY <2>1, <2>3, <2>4, GoesTyped, SaysTyped, ReleaseTyped DEF TypeOK
  <2>6. KeptAlive'
    BY <2>1, GoesTyped DEF KeptAlive
  <2> QED BY <2>1, <2>2, <2>3, <2>4, <2>5, <2>6 DEF OneHolder, TokenHeld
<1>7. ASSUME NEW o \in Ops, DeferredStart(o) PROVE IInv'
  <2>1. /\ op[o] = "deferred" /\ ~long_op_active /\ long_op_active' = TRUE
        /\ Goes(o, "running") /\ prior' = [prior EXCEPT ![o] = prior[o]]
        /\ UNCHANGED <<tick, answer, enabled, gone, cursors, indicator, active, exploded>>
    BY <1>7 DEF DeferredStart, socket_busy, PriorOnRetry, ShownBefore
  <2>2. Shown' = Shown
    BY <2>1, GoesTyped DEF Shown
  <2>3. Counted'
    BY <2>1, <2>2, SameShown
  <2>4. TypeOK'
    BY <2>1, GoesTyped DEF TypeOK
  <2>5. Holding = {} /\ Holding' = {o}
    BY <2>1, GoesTyped DEF TokenHeld, Holding
  <2>6. KeptAlive'
    BY <2>1, GoesTyped DEF KeptAlive
  <2> QED BY <2>1, <2>3, <2>4, <2>5, <2>6 DEF OneHolder, TokenHeld
<1>8. ASSUME NEW o \in Ops, WorkerDone(o) PROVE IInv'
  <2>1. /\ op[o] = "running" /\ Goes(o, "posted")
        /\ UNCHANGED <<long_op_active, tick, answer, visuals, gone, active, exploded>>
    BY <1>8 DEF WorkerDone
  <2>2. Shown' = Shown /\ Holding' = Holding
    BY <2>1, GoesTyped DEF Shown, Holding
  <2>3. Counted'
    BY <2>1, <2>2, SameShown DEF visuals
  <2>4. TypeOK'
    BY <2>1, GoesTyped DEF TypeOK, visuals
  <2>5. KeptAlive'
    BY <2>1, GoesTyped DEF KeptAlive
  <2> QED BY <2>1, <2>2, <2>3, <2>4, <2>5 DEF OneHolder, TokenHeld
<1>9. ASSUME NEW o \in Ops, Deliver(o) PROVE IInv'
  <2>1. /\ op[o] = "posted" /\ release(o) /\ Goes(o, "stopping")
        /\ answer' \in [Ops -> {"none", "finished", "failed"}]
        /\ exploded' \in {exploded, Journal} /\ UNCHANGED <<tick, gone, active>>
    BY <1>9, SaysTyped DEF Deliver
  <2>2. Shown' = Shown \ {o} /\ o \in Shown
    BY <2>1, GoesTyped DEF Shown
  <2>3. Counted' /\ cursors' \in Nat
    BY <2>1, <2>2, ShownLess DEF release
  <2>4. long_op_active' = FALSE
    BY <2>1 DEF release, TokenAfter
  <2>5. TypeOK'
    BY <2>1, <2>3, <2>4, GoesTyped, ReleaseTyped, JournalAssumption DEF TypeOK
  <2>6. Holding = {o} /\ Holding' = {}
    <3>1. o \in Holding
      BY <2>1 DEF Holding
    <3>2. Holding = {o}
      BY <3>1 DEF OneHolder
    <3>3. Holding' = Holding \ {o}
      BY <2>1, GoesTyped, NamesAssumption DEF Holding
    <3> QED BY <3>2, <3>3
  <2>7. KeptAlive'
    BY <2>1, GoesTyped DEF KeptAlive
  <2> QED BY <2>3, <2>4, <2>5, <2>6, <2>7 DEF OneHolder, TokenHeld
<1>10. ASSUME NEW o \in Ops, ThreadStopped(o) PROVE IInv'
  <2>1. /\ op[o] = "stopping" /\ Goes(o, "retired") /\ active' = active \ {o}
        /\ UNCHANGED <<long_op_active, tick, answer, visuals, gone, exploded>>
    BY <1>10 DEF ThreadStopped
  <2>2. Shown' = Shown /\ Holding' = Holding
    BY <2>1, GoesTyped DEF Shown, Holding
  <2>3. Counted'
    BY <2>1, <2>2, SameShown DEF visuals
  <2>4. TypeOK'
    BY <2>1, GoesTyped DEF TypeOK, visuals
  <2>5. KeptAlive'
    BY <2>1, GoesTyped DEF KeptAlive
  <2> QED BY <2>1, <2>2, <2>3, <2>4, <2>5 DEF OneHolder, TokenHeld
<1>11. ASSUME NEW t \in Timers, TickStep(t) PROVE IInv'
  <2>1. UNCHANGED <<op, answer, visuals, gone, active, exploded>> /\ Shown' = Shown
    BY <1>11 DEF TickStep, Tick, TickDone, TickResult, Shown
  <2>2. Counted' /\ KeptAlive'
    BY <2>1, SameShown DEF visuals, KeptAlive
  <2>3. TypeOK'
    BY <1>11, <2>1 DEF TypeOK, visuals, TickStep, Tick, TickDone, TickResult
  <2>4. CASE Tick(t)
    <3>1. Holding = {} /\ Holding' = {t} /\ long_op_active' = TRUE
      BY <2>1, <2>4 DEF Tick, socket_busy, TokenHeld, Holding, TypeOK
    <3> QED BY <2>2, <2>3, <3>1 DEF OneHolder, TokenHeld
  <2>5. CASE TickDone(t)
    <3>1. Holding' = Holding /\ long_op_active' = long_op_active
      BY <2>1, <2>5 DEF TickDone, Holding, TypeOK
    <3> QED BY <2>2, <2>3, <3>1 DEF OneHolder, TokenHeld
  <2>6. CASE TickResult(t)
    <3>1. t \in Holding
      BY <2>6 DEF TickResult, Holding
    <3>2. Holding = {t}
      BY <3>1 DEF OneHolder
    <3>3. Holding' = Holding \ {t}
      BY <2>1, <2>6, NamesAssumption DEF TickResult, Holding, TypeOK
    <3> QED BY <2>2, <2>3, <2>6, <3>2, <3>3 DEF OneHolder, TokenHeld, TickResult
  <2> QED BY <1>11, <2>4, <2>5, <2>6 DEF TickStep
<1>12. ASSUME NEW W \in Windows, Close(W) PROVE IInv'
  <2>1. Shown' = Shown /\ Holding' = Holding
    BY <1>12 DEF Close, Shown, Holding
  <2>2. Counted'
    BY <1>12, <2>1, SameShown DEF Close, visuals
  <2>3. W \subseteq Widgets
    BY OpsAssumption
  <2> QED BY <1>12, <2>1, <2>2, <2>3 DEF Close, visuals, TypeOK, OneHolder, TokenHeld, KeptAlive
<1> QED
  BY <1>1, <1>2, <1>3, <1>4, <1>5, <1>6, <1>7, <1>8, <1>9, <1>10, <1>11, <1>12 DEF Next, OpStep

LEMMA IInvAlways == Spec => []IInv
BY InitIInv, StepIInv, PTL DEF Spec

\* The types, the cursor count among them: it never goes below zero, because
\* whatever pops a cursor has pushed one.
THEOREM TypeCorrect == Spec => []TypeOK
<1>1. IInv => TypeOK
  BY DEF IInv
<1> QED BY <1>1, IInvAlways, PTL

\* The socket never carries two requests, whatever the timers and the user do.
THEOREM OneRequestHolds == Spec => []OneRequest
<1>1. IInv => OneRequest
  BY DEF IInv, OneHolder, OneRequest, Holding, Requesting
<1> QED BY <1>1, IInvAlways, PTL

\* The token is up exactly while its one holder is at work: nobody takes down
\* another's.
THEOREM TokenHeldHolds == Spec => []TokenHeld
<1>1. IInv => TokenHeld
  BY DEF IInv
<1> QED BY <1>1, IInvAlways, PTL

\* No controller is let go while its retry is armed or its thread runs.
THEOREM KeptAliveHolds == Spec => []KeptAlive
<1>1. IInv => KeptAlive
  BY DEF IInv
<1> QED BY <1>1, IInvAlways, PTL

-----------------------------------------------------------------------------
(* The operations and the ticks share the socket as Socket says.           *)

\* Where the users are when nobody is at the socket: all away.
LEMMA SharedInit == Init => Shared!Init
<1> SUFFICES ASSUME Init PROVE Shared!Init
  OBVIOUS
<1>1. \A x \in Ops \cup Timers : PlaceOf[x] = "away"
  BY DEF Init, PlaceOf, PlaceAt
<1>2. PlaceOf = [x \in Ops \cup Timers |-> "away"]
  BY <1>1 DEF PlaceOf
<1> QED BY <1>2 DEF Init, Shared!Init

\* One operation goes on, and nobody else moves.
LEMMA OpPlaced ==
  ASSUME TypeOK, NEW o \in Ops,
         NEW s \in {"new", "deferred", "running", "posted", "stopping", "retired"},
         Goes(o, s), tick' = tick
  PROVE  /\ PlaceOf[o] = PlaceAt(op[o])
         /\ PlaceOf' = [PlaceOf EXCEPT ![o] = PlaceAt(s)]
         /\ PlaceAt(s) = PlaceAt(op[o]) => PlaceOf' = PlaceOf
<1>1. /\ op'[o] = s /\ \A p \in Ops \ {o} : op'[p] = op[p]
  BY GoesTyped
<1>2. \A x \in Ops \cup Timers :
        PlaceOf'[x] = IF x = o THEN PlaceAt(s) ELSE PlaceOf[x]
  BY <1>1 DEF PlaceOf
<1>3. PlaceOf' = [PlaceOf EXCEPT ![o] = PlaceAt(s)]
  BY <1>2 DEF PlaceOf
<1>4. PlaceOf[o] = PlaceAt(op[o])
  BY DEF PlaceOf
<1>5. PlaceAt(s) = PlaceAt(op[o]) => PlaceOf' = PlaceOf
  BY <1>2, <1>4 DEF PlaceOf
<1> QED BY <1>3, <1>4, <1>5

\* One tick goes on; no operation is of its name.
LEMMA TickPlaced ==
  ASSUME TypeOK, NEW t \in Timers, NEW s \in {"idle", "running", "posted"},
         tick' = [tick EXCEPT ![t] = s], op' = op
  PROVE  /\ PlaceOf[t] = PlaceAt(tick[t])
         /\ PlaceOf' = [PlaceOf EXCEPT ![t] = PlaceAt(s)]
<1>1. t \notin Ops /\ tick'[t] = s /\ \A u \in Timers \ {t} : tick'[u] = tick[u]
  BY NamesAssumption DEF TypeOK
<1>2. \A x \in Ops \cup Timers :
        PlaceOf'[x] = IF x = t THEN PlaceAt(s) ELSE PlaceOf[x]
  BY <1>1 DEF PlaceOf
<1> QED BY <1>1, <1>2 DEF PlaceOf

\* Every step is one of Socket, or changes nothing of it.
LEMMA StepShared == TypeOK /\ [Next]_vars => [Shared!Next]_(Shared!vars)
<1> SUFFICES ASSUME TypeOK, [Next]_vars PROVE Shared!Next \/ UNCHANGED Shared!vars
  OBVIOUS
<1>0. ASSUME NEW x \in Ops \cup Timers,
             Shared!Take(x) \/ Shared!Answered(x) \/ Shared!LetGo(x)
      PROVE  Shared!Next
  BY <1>0 DEF Shared!Next
<1>1. ASSUME UNCHANGED <<op, tick, long_op_active>> PROVE UNCHANGED Shared!vars
  <2>1. PlaceOf' = PlaceOf
    BY <1>1 DEF PlaceOf
  <2> QED BY <1>1, <2>1 DEF Shared!vars
<1>2. ASSUME NEW o \in Ops,
             StartRefused(o) \/ StartDeferred(o) \/ Abandon(o) \/ RefuseBusy(o) \/ ThreadStopped(o)
      PROVE  UNCHANGED Shared!vars
  <2>1. /\ op[o] \in {"new", "deferred", "stopping"} /\ tick' = tick
        /\ Goes(o, "retired") \/ Goes(o, "deferred")
    BY <1>2 DEF StartRefused, StartDeferred, Abandon, RefuseBusy, ThreadStopped
  <2>2. PlaceOf' = PlaceOf
    BY <2>1, OpPlaced DEF PlaceAt
  <2>3. long_op_active' = long_op_active
    <3>1. CASE RefuseBusy(o)
      BY <2>1, <3>1 DEF RefuseBusy, release, TokenAfter, TypeOK
    <3>2. CASE ~RefuseBusy(o)
      BY <1>2, <3>2 DEF StartRefused, StartDeferred, Abandon, ThreadStopped
    <3> QED BY <3>1, <3>2
  <2> QED BY <2>2, <2>3 DEF Shared!vars
<1>3. ASSUME NEW o \in Ops, StartNow(o) \/ DeferredStart(o) PROVE Shared!Take(o)
  <2>1. /\ op[o] \in {"new", "deferred"} /\ Goes(o, "running") /\ tick' = tick
        /\ ~long_op_active /\ long_op_active' = TRUE
    BY <1>3 DEF StartNow, DeferredStart, socket_busy
  <2>2. PlaceOf[o] = "away" /\ PlaceOf' = [PlaceOf EXCEPT ![o] = "asking"]
    BY <2>1, OpPlaced DEF PlaceAt
  <2> QED BY <2>1, <2>2 DEF Shared!Take
<1>4. ASSUME NEW o \in Ops, WorkerDone(o) PROVE Shared!Answered(o)
  <2>1. op[o] = "running" /\ Goes(o, "posted") /\ UNCHANGED <<tick, long_op_active>>
    BY <1>4 DEF WorkerDone
  <2>2. PlaceOf[o] = "asking" /\ PlaceOf' = [PlaceOf EXCEPT ![o] = "answered"]
    BY <2>1, OpPlaced DEF PlaceAt
  <2> QED BY <2>1, <2>2 DEF Shared!Answered
<1>5. ASSUME NEW o \in Ops, Deliver(o) PROVE Shared!LetGo(o)
  <2>1. op[o] = "posted" /\ Goes(o, "stopping") /\ tick' = tick /\ long_op_active' = FALSE
    BY <1>5 DEF Deliver, release, TokenAfter
  <2>2. PlaceOf[o] = "answered" /\ PlaceOf' = [PlaceOf EXCEPT ![o] = "away"]
    BY <2>1, OpPlaced DEF PlaceAt
  <2> QED BY <2>1, <2>2 DEF Shared!LetGo
<1>6. ASSUME NEW t \in Timers, TickStep(t)
      PROVE  Shared!Take(t) \/ Shared!Answered(t) \/ Shared!LetGo(t)
  <2>1. CASE Tick(t)
    <3>1. PlaceOf[t] = "away" /\ PlaceOf' = [PlaceOf EXCEPT ![t] = "asking"]
      BY <2>1, TickPlaced DEF Tick, PlaceAt
    <3> QED BY <2>1, <3>1 DEF Tick, socket_busy, Shared!Take
  <2>2. CASE TickDone(t)
    <3>1. PlaceOf[t] = "asking" /\ PlaceOf' = [PlaceOf EXCEPT ![t] = "answered"]
      BY <2>2, TickPlaced DEF TickDone, PlaceAt
    <3> QED BY <2>2, <3>1 DEF TickDone, Shared!Answered
  <2>3. CASE TickResult(t)
    <3>1. PlaceOf[t] = "answered" /\ PlaceOf' = [PlaceOf EXCEPT ![t] = "away"]
      BY <2>3, TickPlaced DEF TickResult, PlaceAt
    <3> QED BY <2>3, <3>1 DEF TickResult, Shared!LetGo
  <2> QED BY <1>6, <2>1, <2>2, <2>3 DEF TickStep
<1>7. CASE UNCHANGED vars
  BY <1>1, <1>7 DEF vars
<1>8. ASSUME NEW W \in Windows, Close(W) PROVE UNCHANGED Shared!vars
  BY <1>1, <1>8 DEF Close
<1>9. ASSUME NEW o \in Ops, OpStep(o) PROVE Shared!Next \/ UNCHANGED Shared!vars
  BY <1>0, <1>2, <1>3, <1>4, <1>5, <1>9 DEF OpStep
<1>10. ASSUME NEW t \in Timers, TickStep(t) PROVE Shared!Next
  BY <1>0, <1>6, <1>10
<1> QED BY <1>7, <1>8, <1>9, <1>10 DEF Next

\* The operations and the ticks implement the lock of Socket: for any numbers of
\* them, and whatever is deferred, refused, abandoned or closed, the token is
\* raised by one that finds it down and taken down by its owner alone.
THEOREM SocketSharedHolds == Spec => SocketShared
<1>1. Init => Shared!Init
  BY SharedInit
<1>2. TypeOK /\ [Next]_vars => [Shared!Next]_(Shared!vars)
  BY StepShared
<1> QED BY <1>1, <1>2, TypeCorrect, PTL DEF Spec, SocketShared, Shared!Spec

-----------------------------------------------------------------------------
(* What is left behind, when every operation has widgets of its own.       *)

WidgetsInv ==
  /\ \A o \in Shown : \A w \in Guards[o] : prior[o][w]
  /\ \A w \in Widgets \ gone : enabled[w] <=> \A o \in Shown : w \notin Guards[o]
  /\ \A o \in Ops : Guards[o] \cap gone # {} => Guards[o] \subseteq gone
  /\ Shown = {} => ~indicator

LEMMA InitWidgets == Init => WidgetsInv
BY DEF Init, WidgetsInv, Shown

\* An operation that shows itself busy finds its own widgets usable.
LEMMA ShowKeeps ==
  ASSUME IInv, WidgetsInv, OwnWidgets, NEW o \in Ops, o \notin Shown,
         Guards[o] \cap gone = {}, show_busy(o), Shown' = Shown \cup {o}, gone' = gone
  PROVE  WidgetsInv'
<1>1. Guards \in [Ops -> SUBSET Widgets] /\ Shown \subseteq Ops
  BY OpsAssumption DEF Shown
<1>2. \A w \in Guards[o] : enabled[w]
  BY <1>1 DEF WidgetsInv, OwnWidgets
<1>3. \A p \in Shown' : \A w \in Guards[p] : prior'[p][w]
  BY <1>1, <1>2 DEF WidgetsInv, show_busy, IInv, TypeOK
<1>4. \A w \in Widgets \ gone : enabled'[w] <=> \A p \in Shown' : w \notin Guards[p]
  BY <1>1 DEF WidgetsInv, show_busy
<1>5. indicator'
  BY DEF show_busy
<1> QED BY <1>3, <1>4, <1>5 DEF WidgetsInv

\* A released operation gives its widgets back usable, and nobody else's.
LEMMA ReleaseKeeps ==
  ASSUME IInv, WidgetsInv, OwnWidgets, NEW o \in Ops, o \in Shown,
         release(o), Shown' = Shown \ {o}, gone' = gone
  PROVE  WidgetsInv'
<1>1. Guards \in [Ops -> SUBSET Widgets] /\ Shown \subseteq Ops
  BY OpsAssumption DEF Shown
<1>2. ASSUME NEW w \in Widgets \ gone
      PROVE  enabled'[w] <=> \A p \in Shown' : w \notin Guards[p]
  <2>1. CASE w \in Guards[o]
    <3>1. enabled'[w] = prior[o][w] /\ prior[o][w]
      BY <2>1 DEF release, WidgetsInv
    <3>2. \A p \in Shown' : w \notin Guards[p]
      BY <1>1, <2>1 DEF OwnWidgets
    <3> QED BY <3>1, <3>2
  <2>2. CASE w \notin Guards[o]
    BY <2>2 DEF release, WidgetsInv
  <2> QED BY <2>1, <2>2
<1>3. ~indicator' /\ prior' = prior
  BY DEF release
<1> QED BY <1>2, <1>3 DEF WidgetsInv

LEMMA StepWidgets ==
  ASSUME OwnWidgets
  PROVE  IInv /\ WidgetsInv /\ [Next]_vars => WidgetsInv'
<1> SUFFICES ASSUME IInv, WidgetsInv, [Next]_vars PROVE WidgetsInv'
  OBVIOUS
<1>0. TypeOK /\ Guards \in [Ops -> SUBSET Widgets]
  BY OpsAssumption DEF IInv
<1>1. CASE UNCHANGED vars
  BY <1>1 DEF vars, WidgetsInv, Shown
<1>2. ASSUME NEW o \in Ops, StartRefused(o) \/ WorkerDone(o) \/ ThreadStopped(o)
      PROVE  WidgetsInv'
  <2>1. UNCHANGED <<visuals, gone>>
    BY <1>2 DEF StartRefused, WorkerDone, ThreadStopped
  <2>2. Shown' = Shown
    BY <1>0, <1>2, GoesTyped DEF StartRefused, WorkerDone, ThreadStopped, Shown
  <2> QED BY <2>1, <2>2 DEF WidgetsInv, visuals
<1>3. ASSUME NEW o \in Ops, StartNow(o) \/ StartDeferred(o) PROVE WidgetsInv'
  <2>1. o \notin Shown /\ Shown' = Shown \cup {o}
    BY <1>0, <1>3, GoesTyped DEF StartNow, StartDeferred, Shown
  <2> QED BY <1>3, <2>1, ShowKeeps DEF StartNow, StartDeferred
<1>4. ASSUME NEW o \in Ops, RefuseBusy(o) \/ Deliver(o) PROVE WidgetsInv'
  <2>1. o \in Shown /\ Shown' = Shown \ {o}
    BY <1>0, <1>4, GoesTyped DEF RefuseBusy, Deliver, Shown
  <2> QED BY <1>4, <2>1, ReleaseKeeps DEF RefuseBusy, Deliver
<1>5. ASSUME NEW o \in Ops, Abandon(o) PROVE WidgetsInv'
  <2>1. Shown' = Shown \ {o}
    BY <1>0, <1>5, GoesTyped DEF Abandon, Shown
  <2>2. Guards[o] \subseteq gone
    BY <1>5 DEF Abandon, WidgetsInv
  <2> QED BY <1>5, <2>1, <2>2 DEF Abandon, WidgetsInv
<1>6. ASSUME NEW o \in Ops, DeferredStart(o) PROVE WidgetsInv'
  <2>1. Shown' = Shown /\ o \in Shown
    BY <1>0, <1>6, GoesTyped DEF DeferredStart, Shown
  <2>2. prior' = prior /\ UNCHANGED <<enabled, gone, indicator>>
    BY <1>0, <1>6 DEF DeferredStart, PriorOnRetry, ShownBefore, TypeOK
  <2> QED BY <2>1, <2>2 DEF WidgetsInv
<1>7. ASSUME NEW t \in Timers, TickStep(t) PROVE WidgetsInv'
  BY <1>7 DEF TickStep, Tick, TickDone, TickResult, WidgetsInv, Shown, visuals
<1>8. ASSUME NEW W \in Windows, Close(W) PROVE WidgetsInv'
  <2>1. gone' = gone \cup W /\ UNCHANGED visuals /\ Shown' = Shown
    BY <1>8 DEF Close, Shown
  <2>2. \A o \in Ops : Guards[o] \cap gone' # {} => Guards[o] \subseteq gone'
    BY <2>1 DEF WidgetsInv, OwnWidgets
  <2> QED BY <2>1, <2>2 DEF WidgetsInv, visuals
<1> QED BY <1>1, <1>2, <1>3, <1>4, <1>5, <1>6, <1>7, <1>8 DEF Next, OpStep

\* When the operations have widgets of their own, which go with one window,
\* nothing of an operation outlives it: no widget of an open window stays
\* disabled, no wait cursor and no indicator stay on.
THEOREM ComesDownHolds ==
  ASSUME OwnWidgets
  PROVE  Spec => []ComesDown
<1>1. IInv /\ WidgetsInv => ComesDown
  <2> SUFFICES ASSUME IInv, WidgetsInv, Shown = {} 
               PROVE  cursors = 0 /\ ~indicator /\ \A w \in Widgets \ gone : enabled[w]
    BY DEF ComesDown
  <2>1. cursors = 0
    BY FS_EmptySet DEF IInv, Counted
  <2> QED BY <2>1 DEF WidgetsInv
<1>2. IInv /\ WidgetsInv /\ [Next]_vars => WidgetsInv'
  BY StepWidgets
<1> QED BY <1>1, <1>2, InitWidgets, IInvAlways, PTL DEF Spec
=============================================================================
