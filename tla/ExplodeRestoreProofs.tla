------------------------ MODULE ExplodeRestoreProofs ------------------------
(***************************************************************************)
(* What the journal of an explode is good for, for any number of items,    *)
(* places, edits, deaths, refusals and lost replies.                       *)
(***************************************************************************)
EXTENDS ExplodeRestore, TLAPS

AllMoves == UNION {Moves(S) : S \in SUBSET Items}

Steps == {"idle", "write", "shift", "verify", "refresh", "apply", "putback", "check"}

\* An operation that shifts or puts back has its moves and its first look at
\* the board, on which all that it shifts was found.
TaskTyped ==
  /\ pc \in [Processes -> Steps]
  /\ job \in [Processes -> AllMoves \cup {None}]
  /\ snap \in [Processes -> [Items -> Places \cup {Gone}] \cup {None}]
  /\ \A p \in Processes :
       pc[p] \in {"write", "shift", "verify", "putback", "check"} =>
         job[p] \in AllMoves /\ snap[p] \in [Items -> Places \cup {Gone}]
  /\ \A p \in Processes :
       pc[p] \in {"write", "shift", "verify"} => \A i \in DOMAIN job[p].after : snap[p][i] # Gone

TypeInv ==
  /\ board \in [Items -> Places \cup {Gone}]
  /\ home \in [Items -> Places \cup {None}]
  /\ journal \in AllMoves \cup {None}
  /\ guard \in BOOLEAN /\ known \in BOOLEAN
  /\ answer \in {None, "has", "none", "unknown"}
  /\ plan \in [Processes -> AllMoves \cup {None}]
  /\ TaskTyped

-----------------------------------------------------------------------------
(* Type correctness.                                                       *)

\* Moves have a place before and after for the same items.
LEMMA MovesTyped ==
  ASSUME NEW m \in AllMoves
  PROVE  /\ DOMAIN m.before \subseteq Items /\ DOMAIN m.after = DOMAIN m.before
         /\ m.before \in [DOMAIN m.before -> Places]
         /\ m.after \in [DOMAIN m.before -> Places]
         /\ m # None
<1>1. PICK S \in SUBSET Items : m \in Moves(S)
  BY DEF AllMoves
<1>2. m.before \in [S -> Places] /\ m.after \in [S -> Places]
  BY <1>1 DEF Moves
<1> QED BY <1>1, <1>2, MarkerAssumption

LEMMA PutTyped ==
  ASSUME TypeInv, NEW S \in SUBSET Items, NEW m \in [S -> Places]
  PROVE  Put(m) \in [Items -> Places \cup {Gone}]
BY DEF TypeInv, Put

LEMMA InitTypeInv == Init => TypeInv
BY DEF Init, TypeInv, TaskTyped, Steps

\* The next step of an operation needs no more than the one before.
LEMMA GoesTyped ==
  ASSUME TaskTyped, NEW p \in Processes, NEW s \in Steps, Goes(p, s),
         \/ s \in {"idle", "refresh", "apply"}
         \/ pc[p] = "write" /\ s = "shift"
         \/ pc[p] = "shift" /\ s = "verify"
         \/ pc[p] = "putback" /\ s = "check"
  PROVE  TaskTyped'
BY DEF TaskTyped, Goes

LEMMA EndsTyped ==
  ASSUME TaskTyped, NEW p \in Processes, Ends(p)
  PROVE  TaskTyped'
<1>1. pc'[p] = "idle" /\ \A q \in Processes \ {p} :
        pc'[q] = pc[q] /\ job'[q] = job[q] /\ snap'[q] = snap[q]
  BY DEF TaskTyped, Ends
<1>2. /\ pc' \in [Processes -> Steps]
      /\ job' \in [Processes -> AllMoves \cup {None}]
      /\ snap' \in [Processes -> [Items -> Places \cup {Gone}] \cup {None}]
  BY DEF TaskTyped, Ends, Steps
<1> QED BY <1>1, <1>2 DEF TaskTyped

\* An operation begins with its moves and its look at the board.
LEMMA BeginsTyped ==
  ASSUME TaskTyped, board \in [Items -> Places \cup {Gone}],
         NEW p \in Processes, NEW m \in AllMoves, NEW s \in {"write", "putback"},
         s = "write" => \A i \in DOMAIN m.after : board[i] # Gone,
         pc' = [pc EXCEPT ![p] = s], job' = [job EXCEPT ![p] = m],
         snap' = [snap EXCEPT ![p] = board]
  PROVE  TaskTyped'
<1>1. pc'[p] = s /\ job'[p] = m /\ snap'[p] = board
      /\ \A q \in Processes \ {p} :
           pc'[q] = pc[q] /\ job'[q] = job[q] /\ snap'[q] = snap[q]
  BY DEF TaskTyped
<1>2. /\ pc' \in [Processes -> Steps]
      /\ job' \in [Processes -> AllMoves \cup {None}]
      /\ snap' \in [Processes -> [Items -> Places \cup {Gone}] \cup {None}]
  BY DEF TaskTyped, Steps
<1>3. \A q \in Processes :
        pc'[q] \in {"write", "shift", "verify", "putback", "check"} =>
          job'[q] \in AllMoves /\ snap'[q] \in [Items -> Places \cup {Gone}]
  BY <1>1 DEF TaskTyped
<1>4. \A q \in Processes :
        pc'[q] \in {"write", "shift", "verify"} =>
          \A i \in DOMAIN job'[q].after : snap'[q][i] # Gone
  BY <1>1 DEF TaskTyped
<1> QED BY <1>2, <1>3, <1>4 DEF TaskTyped

LEMMA ShiftedTyped ==
  ASSUME TypeInv, NEW p \in Processes, job[p] \in AllMoves, Shifted(p)
  PROVE  board' \in [Items -> Places \cup {Gone}] /\ home' \in [Items -> Places \cup {None}]
<1>1. board' \in [Items -> Places \cup {Gone}]
  BY MovesTyped, PutTyped DEF Shifted
<1>2. home' \in [Items -> Places \cup {None}]
  BY DEF Shifted, TypeInv, Live
<1> QED BY <1>1, <1>2

LEMMA ReturnedTyped ==
  ASSUME TypeInv, NEW p \in Processes, job[p] \in AllMoves, Returned(p)
  PROVE  board' \in [Items -> Places \cup {Gone}] /\ home' \in [Items -> Places \cup {None}]
<1> DEFINE S == {x \in DOMAIN job[p].before : snap[p][x] # Gone}
<1>1. S \in SUBSET Items /\ Back(p) \in [S -> Places]
  BY MovesTyped DEF Back
<1>2. board' \in [Items -> Places \cup {Gone}]
  BY <1>1, PutTyped DEF Returned
<1>3. home' \in [Items -> Places \cup {None}]
  BY DEF Returned, TypeInv
<1> QED BY <1>2, <1>3

LEMMA StepTypeInv == TypeInv /\ [Next]_vars => TypeInv'
<1> SUFFICES ASSUME TypeInv, [Next]_vars PROVE TypeInv'
  OBVIOUS
<1> USE DEF lockVars, faultVars, taskVars
<1>1. ASSUME NEW p \in Processes, Plan(p) PROVE TypeInv'
  <2>1. plan' \in [Processes -> AllMoves \cup {None}]
    <3>1. PICK S \in SUBSET Live : \E m \in Moves(S) : plan' = [plan EXCEPT ![p] = m]
      BY <1>1 DEF Plan
    <3>2. PICK m \in Moves(S) : plan' = [plan EXCEPT ![p] = m]
      BY <3>1
    <3>3. m \in AllMoves
      BY <3>1 DEF AllMoves, Live
    <3> QED BY <3>2, <3>3 DEF TypeInv
  <2> QED BY <1>1, <2>1 DEF Plan, TypeInv, TaskTyped
<1>2. ASSUME NEW p \in Processes, Explode(p) PROVE TypeInv'
  <2> DEFINE m == [before |-> [i \in Present(p) |-> plan[p].before[i]],
                   after |-> [i \in Present(p) |-> plan[p].after[i]]]
  <2>1. plan[p] \in AllMoves
    BY <1>2 DEF Explode, TypeInv
  <2>2. Present(p) \subseteq Items /\ Present(p) \subseteq DOMAIN plan[p].before
    BY DEF Present, Live
  <2>3. m \in Moves(Present(p))
    BY <2>1, <2>2, MovesTyped DEF Moves
  <2>4. m \in AllMoves
    BY <2>2, <2>3 DEF AllMoves
  <2>5. \A i \in DOMAIN m.after : board[i] # Gone
    BY DEF Present, Live
  <2>6. TaskTyped'
    BY <1>2, <2>4, <2>5, BeginsTyped DEF Explode, TypeInv
  <2> QED BY <1>2, <2>6 DEF Explode, TypeInv
<1>3. ASSUME NEW p \in Processes, WriteJournal(p) PROVE TypeInv'
  <2>1. TaskTyped'
    BY <1>3, GoesTyped DEF WriteJournal, TypeInv, Steps
  <2>2. job[p] \in AllMoves
    BY <1>3 DEF WriteJournal, TypeInv, TaskTyped
  <2> QED BY <1>3, <2>1, <2>2 DEF WriteJournal, TypeInv
<1>4. ASSUME NEW p \in Processes, Shift(p) PROVE TypeInv'
  <2>1. TaskTyped'
    BY <1>4, GoesTyped DEF Shift, TypeInv, Steps
  <2>2. job[p] \in AllMoves
    BY <1>4 DEF Shift, TypeInv, TaskTyped
  <2> QED BY <1>4, <2>1, <2>2, ShiftedTyped DEF Shift, TypeInv
<1>5. ASSUME NEW p \in Processes, ShiftRaises(p) PROVE TypeInv'
  <2>1. board' \in [Items -> Places \cup {Gone}] /\ home' \in [Items -> Places \cup {None}]
    BY <1>5, ShiftedTyped DEF ShiftRaises, TypeInv, TaskTyped
  <2> QED BY <1>5, <2>1, EndsTyped DEF ShiftRaises, TypeInv
<1>6. ASSUME NEW p \in Processes, Verify(p) PROVE TypeInv'
  <2>1. plan' \in [Processes -> AllMoves \cup {None}]
    BY <1>6 DEF Verify, TypeInv
  <2>2. CASE Goes(p, "refresh")
    <3>1. TaskTyped'
      BY <2>2, GoesTyped DEF TypeInv, Steps
    <3> QED BY <1>6, <2>1, <3>1 DEF Verify, TypeInv
  <2>3. CASE Ends(p)
    BY <1>6, <2>1, <2>3, EndsTyped DEF Verify, TypeInv
  <2> QED BY <1>6, <2>2, <2>3 DEF Verify
<1>7. ASSUME NEW p \in Processes, Restore(p) PROVE TypeInv'
  <2>1. journal \in AllMoves
    BY <1>7 DEF Restore, TypeInv
  <2>2. TaskTyped'
    BY <1>7, <2>1, BeginsTyped DEF Restore, TypeInv
  <2> QED BY <1>7, <2>2 DEF Restore, TypeInv
<1>8. ASSUME NEW p \in Processes, PutBack(p) PROVE TypeInv'
  <2>1. TaskTyped'
    BY <1>8, GoesTyped DEF PutBack, TypeInv, Steps
  <2>2. job[p] \in AllMoves
    BY <1>8 DEF PutBack, TypeInv, TaskTyped
  <2> QED BY <1>8, <2>1, <2>2, ReturnedTyped DEF PutBack, TypeInv
<1>9. ASSUME NEW p \in Processes, PutBackRaises(p) PROVE TypeInv'
  <2>1. board' \in [Items -> Places \cup {Gone}] /\ home' \in [Items -> Places \cup {None}]
    BY <1>9, ReturnedTyped DEF PutBackRaises, TypeInv, TaskTyped
  <2> QED BY <1>9, <2>1, EndsTyped DEF PutBackRaises, JournalAfterRaise, TypeInv
<1>10. ASSUME NEW p \in Processes, CheckBack(p) PROVE TypeInv'
  <2>1. plan' \in [Processes -> AllMoves \cup {None}]
    BY <1>10 DEF CheckBack, TypeInv
  <2> QED BY <1>10, <2>1, EndsTyped DEF CheckBack, TypeInv
<1>11. ASSUME NEW p \in Processes, Crash(p) PROVE TypeInv'
  <2>1. plan' \in [Processes -> AllMoves \cup {None}]
    BY <1>11 DEF Crash, TypeInv
  <2> QED BY <1>11, <2>1, EndsTyped DEF Crash, TypeInv
<1>12. CASE ReadState
  <2>1. TaskTyped'
    BY <1>12, GoesTyped, ExplodeAssumption DEF ReadState, TypeInv, Steps
  <2> QED BY <1>12, <2>1 DEF ReadState, TypeInv
<1>13. CASE RefreshRefused
  BY <1>13, EndsTyped, ExplodeAssumption DEF RefreshRefused, TypeInv
<1>14. CASE ApplyState
  BY <1>14, EndsTyped, ExplodeAssumption DEF ApplyState, GuardAfterRead, TypeInv
<1>15. CASE Forget
  BY <1>15 DEF Forget, TypeInv, TaskTyped
<1>16. ASSUME NEW i \in Items, Edit(i) PROVE TypeInv'
  BY <1>16 DEF Edit, TypeInv, TaskTyped
<1>17. CASE UNCHANGED vars
  BY <1>17 DEF vars, TypeInv, TaskTyped
<1> QED
  BY <1>1, <1>2, <1>3, <1>4, <1>5, <1>6, <1>7, <1>8, <1>9, <1>10, <1>11, <1>12, <1>13,
     <1>14, <1>15, <1>16, <1>17 DEF Next

LEMMA TypeInvHolds == Spec => []TypeInv
BY InitTypeInv, StepTypeInv, PTL DEF Spec

\* Every variable keeps its shape, and what an explode shifts was on the board
\* when it looked.
THEOREM TypeCorrect == Spec => []TypeOK
<1>1. TypeInv => TypeOK
  BY DEF TypeInv, TaskTyped, TypeOK, AllMoves, Steps
<1> QED BY <1>1, TypeInvHolds, PTL

-----------------------------------------------------------------------------
(* One operation at a time, from a plan that is up to date.                *)

\* Without these NothingLost is false.
InTurn == ~Overlap /\ ~StalePlans

OneRunning == \A p, q \in Processes : pc[p] # "idle" /\ pc[q] # "idle" => p = q

\* What the running operation may rely on at its present step.
AtStep(p) ==
  /\ pc[p] = "write" => journal = None
  /\ pc[p] \in {"shift", "putback", "check"} => journal = job[p]
  /\ pc[p] \in {"write", "shift"} =>
       \A i \in Live \cap DOMAIN job[p].before : board[i] = job[p].before[i]
  /\ pc[p] = "shift" => ~known
  /\ pc[p] = "putback" => \A i \in Live : snap[p][i] # Gone
  /\ pc[p] = "apply" =>
       /\ p = "gui" /\ answer \in {"has", "none", "unknown"}
       /\ answer = "none" => journal = None

TaskInv == OneRunning /\ \A p \in Processes : AtStep(p)

\* The others rest while p takes its step.
LEMMA OthersRest ==
  ASSUME TypeInv, OneRunning, NEW p \in Processes, pc[p] # "idle",
         NEW s \in Steps, pc' = [pc EXCEPT ![p] = s]
  PROVE  /\ pc'[p] = s /\ \A q \in Processes \ {p} : pc[q] = "idle" /\ pc'[q] = "idle"
         /\ OneRunning'
BY DEF OneRunning, TypeInv, TaskTyped

\* An operation begins when all rest.
LEMMA AllRest ==
  ASSUME InTurn, TypeInv, NEW p \in Processes, Begins(p),
         NEW s \in Steps, pc' = [pc EXCEPT ![p] = s]
  PROVE  /\ pc'[p] = s /\ \A q \in Processes \ {p} : pc[q] = "idle" /\ pc'[q] = "idle"
         /\ OneRunning'
BY DEF InTurn, Begins, OneRunning, TypeInv, TaskTyped

LEMMA IdleAtStep ==
  ASSUME NEW p \in Processes, pc[p] = "idle"
  PROVE  AtStep(p)
BY DEF AtStep

LEMMA StepTaskInv ==
  ASSUME InTurn
  PROVE  TypeInv /\ TaskInv /\ [Next]_vars => TaskInv'
<1> SUFFICES ASSUME TypeInv, TaskInv, [Next]_vars PROVE TaskInv'
  OBVIOUS
<1> USE DEF TaskInv, lockVars, faultVars, taskVars
<1>0. /\ "idle" \in Steps /\ "write" \in Steps /\ "shift" \in Steps /\ "verify" \in Steps
      /\ "refresh" \in Steps /\ "apply" \in Steps /\ "putback" \in Steps
      /\ "check" \in Steps /\ "gui" \in Processes
  BY ExplodeAssumption DEF Steps
<1>1. ASSUME NEW p \in Processes, Plan(p) PROVE TaskInv'
  BY <1>1 DEF Plan, OneRunning, AtStep, Live
<1>2. ASSUME NEW p \in Processes, Explode(p) PROVE TaskInv'
  <2>1. /\ pc'[p] = "write" /\ \A q \in Processes \ {p} : pc'[q] = "idle"
        /\ OneRunning'
    BY <1>0, <1>2, AllRest DEF Explode
  <2>2. journal' = None /\ board' = board
    BY <1>2 DEF Explode
  <2>3. job'[p].before = [i \in Present(p) |-> plan[p].before[i]]
    BY <1>2 DEF Explode, TypeInv, TaskTyped
  <2>4. Fresh(plan[p])
    BY <1>2 DEF Explode, InTurn
  <2>5. \A i \in Live \cap DOMAIN job'[p].before : board[i] = job'[p].before[i]
    BY <2>3, <2>4 DEF Fresh, Present
  <2>6. AtStep(p)'
    BY <2>1, <2>2, <2>5 DEF AtStep, Live
  <2> QED BY <2>1, <2>6, IdleAtStep DEF AtStep
<1>3. ASSUME NEW p \in Processes, WriteJournal(p) PROVE TaskInv'
  <2>1. /\ pc'[p] = "shift" /\ \A q \in Processes \ {p} : pc'[q] = "idle"
        /\ OneRunning'
    BY <1>0, <1>3, OthersRest DEF WriteJournal, Goes
  <2>2. AtStep(p)'
    BY <1>3, <2>1 DEF WriteJournal, Goes, AtStep, Live
  <2> QED BY <2>1, <2>2 DEF AtStep
<1>4. ASSUME NEW p \in Processes, Shift(p) PROVE TaskInv'
  <2>1. /\ pc'[p] = "verify" /\ \A q \in Processes \ {p} : pc'[q] = "idle"
        /\ OneRunning'
    BY <1>0, <1>4, OthersRest DEF Shift, Goes
  <2> QED BY <2>1 DEF AtStep
<1>5. ASSUME NEW p \in Processes, ShiftRaises(p) PROVE TaskInv'
  <2>1. /\ pc'[p] = "idle" /\ \A q \in Processes \ {p} : pc'[q] = "idle"
        /\ OneRunning'
    BY <1>0, <1>5, OthersRest DEF ShiftRaises, Ends
  <2> QED BY <2>1 DEF AtStep
<1>6. ASSUME NEW p \in Processes, Verify(p) PROVE TaskInv'
  <2>1. PICK s \in {"refresh", "idle"} : pc' = [pc EXCEPT ![p] = s]
    BY <1>6 DEF Verify, Goes, Ends
  <2>2. /\ pc'[p] = s /\ \A q \in Processes \ {p} : pc'[q] = "idle"
        /\ OneRunning'
    BY <1>0, <1>6, <2>1, OthersRest DEF Verify
  <2> QED BY <2>2 DEF AtStep
<1>7. ASSUME NEW p \in Processes, Restore(p) PROVE TaskInv'
  <2>1. /\ pc'[p] = "putback" /\ \A q \in Processes \ {p} : pc'[q] = "idle"
        /\ OneRunning'
    BY <1>0, <1>7, AllRest DEF Restore
  <2>2. journal' = journal /\ board' = board /\ job'[p] = journal /\ snap'[p] = board
    BY <1>7 DEF Restore, TypeInv, TaskTyped
  <2>3. AtStep(p)'
    BY <2>1, <2>2 DEF AtStep, Live
  <2> QED BY <2>1, <2>3 DEF AtStep
<1>8. ASSUME NEW p \in Processes, PutBack(p) PROVE TaskInv'
  <2>1. /\ pc'[p] = "check" /\ \A q \in Processes \ {p} : pc'[q] = "idle"
        /\ OneRunning'
    BY <1>0, <1>8, OthersRest DEF PutBack, Goes
  <2>2. AtStep(p)'
    BY <1>8, <2>1 DEF PutBack, Goes, AtStep
  <2> QED BY <2>1, <2>2 DEF AtStep
<1>9. ASSUME NEW p \in Processes, PutBackRaises(p) PROVE TaskInv'
  <2>1. /\ pc'[p] = "idle" /\ \A q \in Processes \ {p} : pc'[q] = "idle"
        /\ OneRunning'
    BY <1>0, <1>9, OthersRest DEF PutBackRaises, Ends
  <2> QED BY <2>1 DEF AtStep
<1>10. ASSUME NEW p \in Processes, CheckBack(p) PROVE TaskInv'
  <2>1. /\ pc'[p] = "idle" /\ \A q \in Processes \ {p} : pc'[q] = "idle"
        /\ OneRunning'
    BY <1>0, <1>10, OthersRest DEF CheckBack, Ends
  <2> QED BY <2>1 DEF AtStep
<1>11. ASSUME NEW p \in Processes, Crash(p) PROVE TaskInv'
  <2>1. pc'[p] = "idle" /\ \A q \in Processes \ {p} :
          pc'[q] = pc[q] /\ job'[q] = job[q] /\ snap'[q] = snap[q]
    BY <1>11 DEF Crash, Ends, TypeInv, TaskTyped
  <2>2. OneRunning'
    BY <2>1 DEF OneRunning
  <2>3. board' = board /\ journal' = journal /\ (known' => known)
        /\ (p # "gui" => answer' = answer)
    BY <1>11 DEF Crash
  <2>4. ASSUME NEW q \in Processes \ {p} PROVE AtStep(q)'
    <3>1. CASE pc[q] = "apply"
      BY <2>1, <2>3, <3>1 DEF AtStep
    <3>2. CASE pc[q] # "apply"
      BY <2>1, <2>3, <3>2 DEF AtStep, Live
    <3> QED BY <3>1, <3>2
  <2>5. AtStep(p)'
    BY <2>1 DEF AtStep
  <2> QED BY <2>2, <2>4, <2>5
<1>12. CASE ReadState
  <2>1. /\ pc'["gui"] = "apply" /\ \A q \in Processes \ {"gui"} : pc'[q] = "idle"
        /\ OneRunning'
    BY <1>0, <1>12, OthersRest, AllRest DEF ReadState, Goes
  <2>2. AtStep("gui")'
    BY <1>12, <2>1 DEF ReadState, AtStep
  <2> QED BY <2>1, <2>2 DEF AtStep
<1>13. CASE RefreshRefused
  <2>1. /\ pc'["gui"] = "idle" /\ \A q \in Processes \ {"gui"} : pc'[q] = "idle"
        /\ OneRunning'
    BY <1>0, <1>13, OthersRest DEF RefreshRefused, Ends
  <2> QED BY <2>1 DEF AtStep
<1>14. CASE ApplyState
  <2>1. /\ pc'["gui"] = "idle" /\ \A q \in Processes \ {"gui"} : pc'[q] = "idle"
        /\ OneRunning'
    BY <1>0, <1>14, OthersRest DEF ApplyState, Ends
  <2> QED BY <2>1 DEF AtStep
<1>15. CASE Forget
  <2>1. \A q \in Processes : pc[q] = "idle" /\ pc'[q] = "idle"
    BY <1>15 DEF Forget, Begins, InTurn
  <2> QED BY <2>1 DEF AtStep, OneRunning
<1>16. ASSUME NEW i \in Items, Edit(i) PROVE TaskInv'
  <2>1. PICK x \in Places \cup {Gone} : board' = [board EXCEPT ![i] = x]
    BY <1>16 DEF Edit
  <2>2. Live' \subseteq Live
    BY <1>16, <2>1 DEF Edit, Live, TypeInv
  <2>3. pc' = pc /\ job' = job /\ snap' = snap /\ journal' = journal /\ known' = known
        /\ answer' = answer /\ \A p \in Processes : pc[p] \notin {"write", "shift"}
    BY <1>16 DEF Edit, InTurn
  <2> QED BY <2>2, <2>3 DEF AtStep, OneRunning
<1>17. CASE UNCHANGED vars
  BY <1>17 DEF vars, AtStep, OneRunning, Live
<1> QED
  BY <1>1, <1>2, <1>3, <1>4, <1>5, <1>6, <1>7, <1>8, <1>9, <1>10, <1>11, <1>12, <1>13,
     <1>14, <1>15, <1>16, <1>17 DEF Next

LEMMA InitTaskInv == Init => TaskInv
BY DEF Init, TaskInv, OneRunning, AtStep

-----------------------------------------------------------------------------
(* The journal has the home of all that is shifted.                        *)

\* The items the program has shifted and not seen back.
Tracked == {i \in Live : home[i] # None}

\* Stronger than NothingLost: an item that merely lies at its home again, moved
\* there by the user, is tracked until a restore has seen it.
Recorded ==
  \A i \in Tracked :
    journal # None /\ i \in DOMAIN journal.before /\ journal.before[i] = home[i]

HomeInv ==
  ~lost =>
    /\ Recorded
    /\ \A p \in Processes : pc[p] \in {"write", "shift", "check"} => Tracked = {}
    /\ known /\ ~guard => Tracked = {}

\* A step after which no more is tracked than before, with the same homes.
LEMMA TrackedLess ==
  ASSUME Live' \subseteq Live, \A i \in Items : home'[i] \in {home[i], None}
  PROVE  Tracked' \subseteq Tracked /\ \A i \in Tracked' : home'[i] = home[i]
BY DEF Tracked, Live

\* What a commit puts back is no longer tracked.
LEMMA ReturnedTracked ==
  ASSUME TypeInv, TaskInv, NEW p \in Processes, pc[p] = "putback", Returned(p)
  PROVE  /\ Live' = Live
         /\ \A i \in Items : home'[i] \in {home[i], None}
         /\ Recorded => Tracked' = {}
<1>1. job[p] \in AllMoves /\ journal = job[p] /\ \A i \in Live : snap[p][i] # Gone
  BY DEF TypeInv, TaskTyped, TaskInv, AtStep
<1>2. DOMAIN Back(p) = {x \in DOMAIN job[p].before : snap[p][x] # Gone}
      /\ \A i \in DOMAIN Back(p) : Back(p)[i] = job[p].before[i]
  BY DEF Back
<1>3. \A i \in DOMAIN Back(p) : Back(p)[i] \in Places
  BY <1>1, <1>2, MovesTyped
<1>4. \A i \in Items :
        board'[i] = IF i \in Live \cap DOMAIN Back(p) THEN Back(p)[i] ELSE board[i]
  BY DEF Returned, Put
<1>5. Live' = Live
  BY <1>3, <1>4, ExplodeAssumption DEF Live
<1>6. \A i \in Items : home'[i] = IF board'[i] = home[i] THEN None ELSE home[i]
  BY DEF Returned
<1>7. ASSUME Recorded PROVE Tracked' = {}
  <2> SUFFICES ASSUME NEW i \in Items, i \in Live, home'[i] # None PROVE FALSE
    BY <1>5 DEF Tracked, Live
  <2>1. home[i] # None /\ board'[i] # home[i]
    BY <1>6
  <2>2. i \in DOMAIN job[p].before /\ job[p].before[i] = home[i]
    BY <1>1, <1>7, <2>1 DEF Recorded, Tracked
  <2>3. i \in DOMAIN Back(p)
    BY <1>1, <1>2, <2>2
  <2> QED BY <1>2, <1>4, <2>1, <2>2, <2>3
<1> QED BY <1>5, <1>6, <1>7

LEMMA StepHomeInv ==
  ASSUME InTurn
  PROVE  TypeInv /\ TaskInv /\ HomeInv /\ [Next]_vars => HomeInv'
<1> SUFFICES ASSUME TypeInv, TaskInv, HomeInv, [Next]_vars, ~lost' PROVE HomeInv'
  BY DEF HomeInv
<1> USE DEF lockVars, faultVars, taskVars
<1>0. "gui" \in Processes /\ \A q \in Processes : pc[q] = "idle" \/ pc[q] # "idle"
  BY ExplodeAssumption
<1>1. ASSUME NEW p \in Processes, Plan(p) PROVE HomeInv'
  BY <1>1 DEF Plan, HomeInv, Recorded, Tracked, Live
<1>2. ASSUME NEW p \in Processes, Explode(p) PROVE HomeInv'
  <2>1. lost' = lost /\ board' = board /\ home' = home /\ journal' = journal /\ journal = None
        /\ known' = known /\ guard' = guard
    BY <1>2 DEF Explode
  <2>2. Tracked' = Tracked /\ Tracked = {}
    BY <2>1 DEF HomeInv, Recorded, Tracked, Live
  <2> QED BY <2>1, <2>2 DEF HomeInv, Recorded
<1>3. ASSUME NEW p \in Processes, WriteJournal(p) PROVE HomeInv'
  <2>1. lost' = lost /\ board' = board /\ home' = home
    BY <1>3 DEF WriteJournal
  <2>2. Tracked' = {}
    BY <1>3, <2>1 DEF WriteJournal, HomeInv, Tracked, Live
  <2> QED BY <2>2 DEF HomeInv, Recorded
<1>4. ASSUME NEW p \in Processes, Shift(p) PROVE HomeInv'
  <2>1. /\ pc[p] = "shift" /\ journal = job[p] /\ ~known /\ job[p] \in AllMoves
        /\ \A i \in Live \cap DOMAIN job[p].before : board[i] = job[p].before[i]
    BY <1>4 DEF Shift, TaskInv, AtStep, TypeInv, TaskTyped
  <2>2. DOMAIN job[p].after = DOMAIN job[p].before /\ job[p] # None
        /\ \A i \in DOMAIN job[p].after : job[p].after[i] \in Places
    BY <2>1, MovesTyped
  <2>3. ~lost /\ Tracked = {}
    BY <1>4, <2>1 DEF Shift, HomeInv
  <2>4. Live' = Live
    BY <1>4, <2>2, ExplodeAssumption DEF Shift, Shifted, Put, Live
  <2>5. \A i \in Live : home'[i] = IF i \in DOMAIN job[p].after THEN board[i] ELSE home[i]
    BY <1>4, <2>3 DEF Shift, Shifted, Tracked, Live
  <2>6. Recorded'
    <3> SUFFICES ASSUME NEW i \in Tracked'
                 PROVE  /\ journal # None /\ i \in DOMAIN journal.before
                        /\ journal.before[i] = home'[i]
      BY <1>4 DEF Shift, Recorded
    <3>1. i \in Live /\ home'[i] # None
      BY <2>4 DEF Tracked
    <3>2. i \in DOMAIN job[p].after
      BY <2>3, <2>5, <3>1 DEF Tracked
    <3> QED BY <2>1, <2>2, <2>5, <3>1, <3>2
  <2>7. \A q \in Processes : pc'[q] \notin {"write", "shift", "check"}
    <3>1. pc' = [pc EXCEPT ![p] = "verify"]
      BY <1>4 DEF Shift, Goes
    <3> QED BY <2>1, <3>1 DEF TypeInv, TaskTyped, TaskInv, OneRunning
  <2>8. ~known'
    BY <1>4, <2>1 DEF Shift
  <2> QED BY <2>6, <2>7, <2>8 DEF HomeInv
<1>5. ASSUME NEW p \in Processes, ShiftRaises(p) PROVE HomeInv'
  <2>1. board' = board /\ home' = home /\ lost' = lost
    BY <1>5 DEF ShiftRaises
  <2>2. Tracked' = {}
    BY <1>5, <2>1 DEF ShiftRaises, HomeInv, Tracked, Live
  <2> QED BY <2>2 DEF HomeInv, Recorded
<1>6. ASSUME NEW p \in Processes, Verify(p) PROVE HomeInv'
  <2>1. /\ board' = board /\ home' = home /\ lost' = lost /\ journal' = journal
        /\ known' = known /\ guard' = guard
    BY <1>6 DEF Verify
  <2>2. \A q \in Processes : pc'[q] \in {"idle", "refresh", pc[q]}
    BY <1>6 DEF Verify, Goes, Ends, TypeInv, TaskTyped
  <2> QED BY <2>1, <2>2 DEF HomeInv, Recorded, Tracked, Live
<1>7. ASSUME NEW p \in Processes, Restore(p) PROVE HomeInv'
  <2>1. /\ board' = board /\ home' = home /\ lost' = lost /\ journal' = journal
        /\ known' = known /\ guard' = guard
    BY <1>7 DEF Restore
  <2>2. \A q \in Processes : pc'[q] \in {"putback", pc[q]}
    BY <1>7 DEF Restore, TypeInv, TaskTyped
  <2> QED BY <2>1, <2>2 DEF HomeInv, Recorded, Tracked, Live
<1>8. ASSUME NEW p \in Processes, PutBack(p) PROVE HomeInv'
  <2>1. pc[p] = "putback" /\ Returned(p) /\ lost' = lost
    BY <1>8 DEF PutBack
  <2>2. Tracked' = {}
    BY <2>1, ReturnedTracked DEF HomeInv
  <2> QED BY <2>2 DEF HomeInv, Recorded
<1>9. ASSUME NEW p \in Processes, PutBackRaises(p) PROVE HomeInv'
  <2>1. /\ pc[p] = "putback" /\ lost' = lost /\ journal' = journal /\ known' = known
        /\ guard' = guard
    BY <1>9 DEF PutBackRaises, JournalAfterRaise
  <2>2. Live' \subseteq Live /\ \A i \in Items : home'[i] \in {home[i], None}
    BY <1>9, <2>1, ReturnedTracked DEF PutBackRaises, Live
  <2>3. Tracked' \subseteq Tracked /\ \A i \in Tracked' : home'[i] = home[i]
    BY <2>2, TrackedLess
  <2>4. \A q \in Processes : pc'[q] \in {"idle", pc[q]}
    BY <1>9 DEF PutBackRaises, Ends, TypeInv, TaskTyped
  <2> QED BY <2>1, <2>3, <2>4 DEF HomeInv, Recorded
<1>10. ASSUME NEW p \in Processes, CheckBack(p) PROVE HomeInv'
  <2>1. pc[p] = "check" /\ lost' = lost /\ board' = board /\ home' = home
    BY <1>10 DEF CheckBack
  <2>2. Tracked' = {}
    BY <2>1 DEF HomeInv, Tracked, Live
  <2> QED BY <2>2 DEF HomeInv, Recorded
<1>11. ASSUME NEW p \in Processes, Crash(p) PROVE HomeInv'
  <2>1. /\ board' = board /\ home' = home /\ lost' = lost /\ journal' = journal
        /\ known' => known /\ guard' = guard
    BY <1>11 DEF Crash
  <2>2. \A q \in Processes : pc'[q] \in {"idle", pc[q]}
    BY <1>11 DEF Crash, Ends, TypeInv, TaskTyped
  <2> QED BY <2>1, <2>2 DEF HomeInv, Recorded, Tracked, Live
<1>12. CASE ReadState
  <2>1. /\ board' = board /\ home' = home /\ lost' = lost /\ journal' = journal
        /\ known' = known /\ guard' = guard
    BY <1>12 DEF ReadState
  <2>2. \A q \in Processes : pc'[q] \in {"apply", pc[q]}
    BY <1>12 DEF ReadState, Goes, TypeInv, TaskTyped
  <2> QED BY <2>1, <2>2 DEF HomeInv, Recorded, Tracked, Live
<1>13. CASE RefreshRefused
  <2>1. /\ board' = board /\ home' = home /\ lost' = lost /\ journal' = journal
        /\ known' = known /\ guard' = guard
    BY <1>13 DEF RefreshRefused
  <2>2. \A q \in Processes : pc'[q] \in {"idle", pc[q]}
    BY <1>13 DEF RefreshRefused, Ends, TypeInv, TaskTyped
  <2> QED BY <2>1, <2>2 DEF HomeInv, Recorded, Tracked, Live
<1>14. CASE ApplyState
  <2>1. board' = board /\ home' = home /\ lost' = lost /\ journal' = journal
    BY <1>14 DEF ApplyState
  <2>2. \A q \in Processes : pc'[q] \in {"idle", pc[q]}
    BY <1>14 DEF ApplyState, Ends, TypeInv, TaskTyped
  <2>3. Tracked' = Tracked /\ (Recorded => Recorded')
    BY <2>1 DEF Recorded, Tracked, Live
  <2>4. answer \in {"has", "none", "unknown"} /\ (answer = "none" => journal = None)
    BY <1>0, <1>14 DEF ApplyState, TaskInv, AtStep
  <2>5. ASSUME known', ~guard' PROVE Tracked = {}
    <3>1. CASE answer = "none"
      BY <2>1, <2>4, <3>1 DEF HomeInv, Recorded
    <3>2. CASE answer = "unknown"
      <4>1. known' = known
        BY <1>14, <3>2, Zenon DEF ApplyState, TypeInv
      <4>2. guard' = guard
        BY <1>14, <3>2 DEF ApplyState, GuardAfterRead
      <4>3. known /\ ~guard
        BY <2>5, <4>1, <4>2
      <4>4. ~lost
        BY <2>1
      <4> QED BY <4>3, <4>4 DEF HomeInv
    <3>3. CASE answer = "has"
      BY <1>14, <2>5, <3>3 DEF ApplyState, GuardAfterRead
    <3> QED BY <2>4, <3>1, <3>2, <3>3
  <2> QED BY <2>1, <2>2, <2>3, <2>5 DEF HomeInv
<1>15. CASE Forget
  <2>1. Tracked' = {}
    BY <1>15 DEF Forget, Tracked, Live
  <2> QED BY <2>1 DEF HomeInv, Recorded
<1>16. ASSUME NEW i \in Items, Edit(i) PROVE HomeInv'
  <2>1. /\ pc' = pc /\ home' = home /\ lost' = lost /\ journal' = journal /\ known' = known
        /\ guard' = guard
    BY <1>16 DEF Edit
  <2>2. Live' \subseteq Live
    <3>1. PICK x \in Places \cup {Gone} : board' = [board EXCEPT ![i] = x]
      BY <1>16 DEF Edit
    <3> QED BY <1>16, <3>1 DEF Edit, Live, TypeInv
  <2>3. Tracked' \subseteq Tracked /\ \A j \in Tracked' : home'[j] = home[j]
    BY <2>1, <2>2, TrackedLess
  <2> QED BY <2>1, <2>3 DEF HomeInv, Recorded
<1>17. CASE UNCHANGED vars
  BY <1>17 DEF vars, HomeInv, Recorded, Tracked, Live
<1> QED
  BY <1>1, <1>2, <1>3, <1>4, <1>5, <1>6, <1>7, <1>8, <1>9, <1>10, <1>11, <1>12, <1>13,
     <1>14, <1>15, <1>16, <1>17 DEF Next

IInv == TypeInv /\ TaskInv /\ HomeInv

LEMMA InvHolds ==
  ASSUME InTurn
  PROVE  Spec => []IInv
<1>1. Init => HomeInv
  <2> SUFFICES ASSUME Init PROVE HomeInv
    OBVIOUS
  <2>1. Tracked = {}
    BY DEF Init, Tracked, Live
  <2> QED BY <2>1 DEF Init, HomeInv, Recorded
<1>2. IInv /\ [Next]_vars => IInv'
  BY StepTypeInv, StepTaskInv, StepHomeInv DEF IInv
<1>3. Init => IInv
  BY <1>1, InitTypeInv, InitTaskInv DEF IInv
<1> QED BY <1>2, <1>3, PTL DEF Spec

\* An item the program has shifted aside, and that is not back, has its
\* original place in the journal.
THEOREM NothingLostHolds ==
  ASSUME InTurn
  PROVE  Spec => []NothingLost
<1>1. IInv => NothingLost
  BY DEF IInv, HomeInv, Recorded, Tracked, NothingLost, Displaced
<1> QED BY <1>1, InvHolds, PTL

\* Once the GUI has heard of the journal, its lock is up as long as anything
\* is shifted aside.
THEOREM LockHoldsHolds ==
  ASSUME InTurn
  PROVE  Spec => []LockHolds
<1>1. IInv => LockHolds
  BY DEF IInv, HomeInv, Tracked, LockHolds, Displaced
<1> QED BY <1>1, InvHolds, PTL

\* The journal goes only by the user's hand, by a lost reply, or when all its
\* pieces that are on the board lie where it says.
THEOREM JournalStaysHolds ==
  ASSUME InTurn
  PROVE  Spec => JournalStays
<1> DEFINE Stays ==
      (journal # None /\ journal' = None /\ ~Forget /\ ~lost') =>
         \A i \in DOMAIN journal.before : board'[i] \in {journal.before[i], Gone}
<1>1. IInv /\ [Next]_vars => Stays
  <2> SUFFICES ASSUME IInv, [Next]_vars, journal # None, journal' = None, ~Forget, ~lost',
                      NEW i \in DOMAIN journal.before
               PROVE  board'[i] \in {journal.before[i], Gone}
    OBVIOUS
  <2>0. i \in Items
    BY MovesTyped DEF IInv, TypeInv
  <2>1. ASSUME NEW p \in Processes, WriteJournal(p) PROVE FALSE
    BY <2>1 DEF WriteJournal, IInv, TaskInv, AtStep
  <2>2. ASSUME NEW p \in Processes, ShiftRaises(p)
        PROVE  board'[i] \in {journal.before[i], Gone}
    <3>1. board' = board /\ journal = job[p]
      BY <2>2 DEF ShiftRaises, IInv, TaskInv, AtStep
    <3> QED BY <2>0, <2>2, <3>1 DEF ShiftRaises, IInv, TaskInv, AtStep, Live
  <2>3. ASSUME NEW p \in Processes, CheckBack(p)
        PROVE  board'[i] \in {journal.before[i], Gone}
    <3>1. board' = board /\ journal = job[p] /\ Complete(p)
      BY <2>3 DEF CheckBack, IInv, TaskInv, AtStep
    <3> QED BY <2>0, <3>1 DEF Complete, AllBack, Live
  <2>4. ASSUME NEW p \in Processes,
               \/ Plan(p) \/ Explode(p) \/ Shift(p) \/ Verify(p) \/ Restore(p)
               \/ PutBack(p) \/ PutBackRaises(p) \/ Crash(p)
        PROVE  FALSE
    BY <2>4 DEF Plan, Explode, Shift, Verify, Restore, PutBack, PutBackRaises,
                JournalAfterRaise, Crash
  <2>5. CASE ReadState \/ RefreshRefused \/ ApplyState \/ (\E x \in Items : Edit(x))
    BY <2>5 DEF ReadState, RefreshRefused, ApplyState, Edit
  <2>6. CASE UNCHANGED vars
    BY <2>6 DEF vars
  <2> QED BY <2>1, <2>2, <2>3, <2>4, <2>5, <2>6 DEF Next
<1> QED BY <1>1, InvHolds, PTL DEF Spec, JournalStays
=============================================================================
