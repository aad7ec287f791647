--------------------------- MODULE ExplodeRestore ---------------------------
(***************************************************************************)
(* "Explode" shifts the clusters of a cell aside and "Put back" returns    *)
(* them by a journal of their original places                              *)
(* (kicadstamp/explode_journal.py), from the GUI's page, which locks the   *)
(* rest of the program while the journal exists (gui/docks/                *)
(* explode_page.py, gui/explode_guard.py), or from the command line        *)
(* (kicadstamp/explode_cli.py).                                            *)
(*                                                                         *)
(* One board, hence one journal.  The GUI runs one operation at a time     *)
(* (module LongOps); the command line is a process of its own.             *)
(***************************************************************************)
EXTENDS Naturals, FiniteSets

CONSTANTS
  Items,       \* footprints, tracks and vias, by uuid
  Places,      \* where an item may lie
  None, Gone,  \* nothing recorded; not on the board
  Processes,   \* "gui", and perhaps "cli"
  Overlap,     \* may an operation begin while the other process runs one
  StalePlans,  \* may the board change between a plan and its shift
  MaxEdits,    \* bound on what the user does to the items
  MaxFaults    \* bound on deaths, refused commits and lost replies

ASSUME ExplodeAssumption ==
  /\ Processes \subseteq {"gui", "cli"} /\ "gui" \in Processes
  /\ Overlap \in BOOLEAN /\ StalePlans \in BOOLEAN
  /\ MaxEdits \in Nat /\ MaxFaults \in Nat
  /\ None \notin Places /\ Gone \notin Places

VARIABLES
  board,   \* [Items -> Places \cup {Gone}]
  journal, \* the file: the places before and after of some items; or None
  guard,   \* GUI: ExplodeGuard._active, the lock
  answer,  \* GUI: what the running state read has found
  pc,      \* [Processes -> step of the running operation]
  plan,    \* [Processes -> before and after of what would be shifted; or None]
  job,     \* [Processes -> the moves of the running operation; or None]
  snap,    \* [Processes -> the board as the operation first read it; or None]
  home,    \* [Items -> where it lay when it was shifted; or None] (history)
  known,   \* GUI: nothing has exploded since it last heard of the journal (history)
  lost,    \* the reply to a shift that came off was lost (history)
  edits, faults

taskVars  == <<pc, plan, job, snap>>
lockVars  == <<guard, answer, known>>
faultVars == <<lost, edits, faults>>
vars == <<board, journal, guard, answer, pc, plan, job, snap, home, known,
          lost, edits, faults>>

Moves(S) == [before : [S -> Places], after : [S -> Places]]

ASSUME MarkerAssumption == \A S \in SUBSET Items : None \notin Moves(S)

Live == {i \in Items : board[i] # Gone}

Init ==
  /\ board \in [Items -> Places] /\ journal = None
  /\ guard = FALSE /\ answer = None /\ known = FALSE
  /\ pc = [p \in Processes |-> "idle"] /\ plan = [p \in Processes |-> None]
  /\ job = [p \in Processes |-> None] /\ snap = [p \in Processes |-> None]
  /\ home = [i \in Items |-> None]
  /\ lost = FALSE /\ edits = 0 /\ faults = 0

Fault == faults < MaxFaults /\ faults' = faults + 1

Begins(p) ==
  /\ pc[p] = "idle"
  /\ Overlap \/ \A q \in Processes : pc[q] = "idle"

Goes(p, step) == pc' = [pc EXCEPT ![p] = step] /\ UNCHANGED <<job, snap>>

Ends(p) ==
  /\ pc' = [pc EXCEPT ![p] = "idle"]
  /\ job' = [job EXCEPT ![p] = None] /\ snap' = [snap EXCEPT ![p] = None]

\* The board with the items of m that are on it where m puts them.
Put(m) == [i \in Items |-> IF i \in Live \cap DOMAIN m THEN m[i] ELSE board[i]]

-----------------------------------------------------------------------------
(* Exploding.                                                              *)

\* plan_explode: every piece that is to be shifted gets a place to go, from
\* what the board was when it was read (a piece that already is where it would
\* go moves by nothing, and is not followed here).
Plan(p) ==
  /\ Begins(p) /\ (p = "gui" => ~guard)
  /\ \E S \in (SUBSET Live) \ {{}} : \E m \in Moves(S) :
       /\ \A i \in S : m.before[i] = board[i] /\ m.after[i] # board[i]
       /\ plan' = [plan EXCEPT ![p] = m]
  /\ UNCHANGED <<board, journal, lockVars, pc, job, snap, home, faultVars>>

Fresh(m) == \A i \in Live \cap DOMAIN m.before : board[i] = m.before[i]

\* Mutant: the pieces that are no longer on the board are not left out.
AllPlanned(p) == DOMAIN plan[p].before

\* The planned pieces that are still on the board.
Present(p) == Live \cap DOMAIN plan[p].before

\* explode refuses while a journal exists, and reads the board.
Explode(p) ==
  /\ Begins(p) /\ plan[p] # None /\ (p = "gui" => ~guard)
  /\ journal = None /\ Present(p) # {} /\ (StalePlans \/ Fresh(plan[p]))
  /\ job' = [job EXCEPT ![p] = [before |-> [i \in Present(p) |-> plan[p].before[i]],
                                after |-> [i \in Present(p) |-> plan[p].after[i]]]]
  /\ snap' = [snap EXCEPT ![p] = board] /\ pc' = [pc EXCEPT ![p] = "write"]
  /\ UNCHANGED <<board, journal, lockVars, plan, home, faultVars>>

\* The journal is written before the first shift.
WriteJournal(p) ==
  /\ pc[p] = "write" /\ Goes(p, "shift")
  /\ journal' = job[p] /\ known' = FALSE
  /\ UNCHANGED <<board, guard, answer, plan, home, faultVars>>

\* One commit shifts them all.
Shifted(p) ==
  /\ board' = Put(job[p].after)
  /\ home' = [i \in Items |-> IF i \in Live \cap DOMAIN job[p].after /\ home[i] = None
                              THEN board[i] ELSE home[i]]

Shift(p) ==
  /\ pc[p] = "shift" /\ Shifted(p) /\ Goes(p, "verify")
  /\ UNCHANGED <<journal, lockVars, plan, faultVars>>

\* The commit raises, and the journal is removed: KiCad refused it, or carried
\* it out and the reply was lost.
ShiftRaises(p) ==
  /\ pc[p] = "shift" /\ Fault /\ Ends(p) /\ journal' = None
  /\ \/ UNCHANGED <<board, home, lost>>
     \/ Shifted(p) /\ lost' = TRUE
  /\ UNCHANGED <<lockVars, plan, edits>>

\* _verify: every piece on its target, and no other copper moved.
Landed(p) == \A i \in Items :
  board[i] = IF i \in DOMAIN job[p].after THEN job[p].after[i] ELSE snap[p][i]

\* A success makes the page read the state; a failure is an error line.
Verify(p) ==
  /\ pc[p] = "verify"
  /\ IF p = "gui" /\ Landed(p) THEN Goes(p, "refresh") ELSE Ends(p)
  /\ plan' = IF p = "gui" THEN plan ELSE [plan EXCEPT ![p] = None]
  /\ UNCHANGED <<board, journal, lockVars, home, faultVars>>

-----------------------------------------------------------------------------
(* The state of the GUI.                                                   *)

\* A worker reads the journal of the board, on a connect or after an explode;
\* the identity of the board may be unreadable.
ReadState ==
  /\ Begins("gui") \/ pc["gui"] = "refresh"
  /\ answer' \in {IF journal = None THEN "none" ELSE "has", "unknown"}
  /\ Goes("gui", "apply")
  /\ UNCHANGED <<board, journal, guard, known, plan, home, faultVars>>

\* Somebody holds the socket: the read is refused.
RefreshRefused ==
  /\ pc["gui"] = "refresh" /\ Ends("gui")
  /\ UNCHANGED <<board, journal, lockVars, plan, home, faultVars>>

\* Mutant: an unreadable board is taken for one without a journal.
UnknownClears == answer = "has"

\* apply_journal, apply_unknown.
GuardAfterRead == IF answer = "unknown" THEN guard ELSE answer = "has"

ApplyState ==
  /\ pc["gui"] = "apply" /\ Ends("gui")
  /\ guard' = GuardAfterRead /\ answer' = None
  /\ known' = (known \/ answer # "unknown")
  /\ UNCHANGED <<board, journal, plan, home, faultVars>>

-----------------------------------------------------------------------------
(* Putting back.                                                           *)

\* restore reads the journal and the board.
Restore(p) ==
  /\ Begins(p) /\ journal # None /\ (p = "gui" => guard)
  /\ job' = [job EXCEPT ![p] = journal] /\ snap' = [snap EXCEPT ![p] = board]
  /\ pc' = [pc EXCEPT ![p] = "putback"]
  /\ UNCHANGED <<board, journal, lockVars, plan, home, faultVars>>

\* The recorded places of the pieces the operation found on the board.
Back(p) == [i \in {x \in DOMAIN job[p].before : snap[p][x] # Gone} |-> job[p].before[i]]

Returned(p) ==
  /\ board' = Put(Back(p))
  /\ home' = [i \in Items |-> IF board'[i] = home[i] THEN None ELSE home[i]]

PutBack(p) ==
  /\ pc[p] = "putback" /\ Returned(p) /\ Goes(p, "check")
  /\ UNCHANGED <<journal, lockVars, plan, faultVars>>

\* Mutant: the journal goes when the commit fails, as it does in explode.
AfterFailedReturn == None

\* The journal is kept.
JournalAfterRaise == journal

PutBackRaises(p) ==
  /\ pc[p] = "putback" /\ Fault /\ Ends(p) /\ journal' = JournalAfterRaise
  /\ (Returned(p) \/ UNCHANGED <<board, home>>)
  /\ UNCHANGED <<lockVars, plan, lost, edits>>

\* Nothing that is on the board is off its recorded place.
AllBack(p) == \A i \in Live \cap DOMAIN job[p].before : board[i] = job[p].before[i]

\* Mutant: the second look at the board is not asked.
CompleteUnlooked(p) == \A i \in DOMAIN job[p].before : snap[p][i] # Gone

\* The journal is removed when no piece was missing and all are back.
Complete(p) == AllBack(p) /\ \A i \in DOMAIN job[p].before : snap[p][i] # Gone

\* An answer without an exception unlocks the GUI and makes it plan anew,
\* whether the journal is gone or was kept for a missing piece.
CheckBack(p) ==
  /\ pc[p] = "check" /\ Ends(p)
  /\ journal' = IF Complete(p) THEN None ELSE journal
  /\ IF p = "gui" /\ AllBack(p)
     THEN guard' = FALSE /\ known' = TRUE /\ plan' = [plan EXCEPT ![p] = None]
     ELSE UNCHANGED <<guard, known, plan>>
  /\ UNCHANGED <<board, answer, home, faultVars>>

\* "Forget journal": the user gives the recorded places up.
Forget ==
  /\ Begins("gui") /\ guard
  /\ journal' = None /\ guard' = FALSE /\ known' = TRUE
  /\ home' = [i \in Items |-> None]
  /\ UNCHANGED <<board, answer, taskVars, faultVars>>

-----------------------------------------------------------------------------
(* The user of KiCad, and the end of a process.                            *)

Edit(i) ==
  /\ edits < MaxEdits /\ edits' = edits + 1 /\ board[i] # Gone
  /\ StalePlans \/ \A p \in Processes : pc[p] \notin {"write", "shift"}
  /\ board' \in {[board EXCEPT ![i] = x] : x \in Places \cup {Gone}}
  /\ UNCHANGED <<journal, lockVars, taskVars, home, lost, faults>>

Crash(p) ==
  /\ Fault
  /\ p = "gui" \/ pc[p] # "idle"
  /\ Ends(p) /\ plan' = [plan EXCEPT ![p] = None]
  /\ IF p = "gui" THEN guard' = FALSE /\ known' = FALSE /\ answer' = None
                  ELSE UNCHANGED lockVars
  /\ UNCHANGED <<board, journal, home, lost, edits>>

Next ==
  \/ \E p \in Processes :
       \/ Plan(p) \/ Explode(p) \/ WriteJournal(p) \/ Shift(p) \/ ShiftRaises(p)
       \/ Verify(p) \/ Restore(p) \/ PutBack(p) \/ PutBackRaises(p) \/ CheckBack(p)
       \/ Crash(p)
  \/ ReadState \/ RefreshRefused \/ ApplyState \/ Forget
  \/ \E i \in Items : Edit(i)

Spec == Init /\ [][Next]_vars

-----------------------------------------------------------------------------
(* Properties.                                                             *)

\* Every variable keeps its shape, and what explode is about to shift was on
\* the board when it looked.
TypeOK ==
  /\ board \in [Items -> Places \cup {Gone}]
  /\ journal = None \/ \E S \in SUBSET Items : journal \in Moves(S)
  /\ guard \in BOOLEAN /\ known \in BOOLEAN
  /\ answer \in {None, "has", "none", "unknown"}
  /\ pc \in [Processes -> {"idle", "write", "shift", "verify", "refresh", "apply",
                           "putback", "check"}]
  /\ \A p \in Processes : plan[p] = None \/ \E S \in SUBSET Items : plan[p] \in Moves(S)
  /\ \A p \in Processes :
       pc[p] \in {"write", "shift", "verify"} => \A i \in DOMAIN job[p].after : snap[p][i] # Gone
  /\ home \in [Items -> Places \cup {None}]

Displaced == {i \in Live : home[i] \notin {None, board[i]}}

\* An item the program has shifted aside, and that is not back, has its
\* original place in the journal, whatever dies or is refused when
\* (explode_journal.py:6-18).  A lost reply is the exception.
NothingLost ==
  ~lost => \A i \in Displaced :
    journal # None /\ i \in DOMAIN journal.before /\ journal.before[i] = home[i]

\* The journal is removed only by the user, or when no piece of it that is on
\* the board is off its recorded place (explode_journal.py:15-17).
JournalStays ==
  [][(journal # None /\ journal' = None /\ ~Forget /\ ~lost') =>
       \A i \in DOMAIN journal.before : board'[i] \in {journal.before[i], Gone}]_vars

\* Once the GUI has heard of the journal, the lock is up as long as anything
\* is shifted aside (explode_guard.py:106-113).
LockHolds ==
  pc["gui"] = "idle" /\ known /\ ~lost /\ Displaced # {} => guard
=============================================================================
