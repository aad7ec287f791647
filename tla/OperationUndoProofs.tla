------------------------- MODULE OperationUndoProofs -------------------------
(***************************************************************************)
(* Why an undo that runs to its end restores the board and nothing drawn   *)
(* escapes the logs, for any number of components, items, runs and faults: *)
(* in a build in which no two items of a pass move one component and the   *)
(* imprints log after the plan, into the same directory.  Of the other     *)
(* builds both statements are false, and runs show how.                    *)
(***************************************************************************)
EXTENDS OperationUndo, FiniteSetTheorems, WellFoundedInduction, TLAPS

\* A move log's entry: poses of some components.
Entries == UNION {[D -> Poses] : D \in SUBSET Refs}

Boards == [pose : [Refs -> Poses], copper : SUBSET Uuids]

Records == [moves : Seq(Entries), made : SUBSET Uuids, origin : Boards]

Running == pc \in {"items", "commit", "copper", "write"}

\* A component none of the entries names.
Untouched(r, entries) == \A i \in DOMAIN entries : r \notin DOMAIN entries[i]

\* What every entry says of a component is where it stood at the beginning.
Agree(entries, start) ==
  \A i \in DOMAIN entries : \A r \in DOMAIN entries[i] : entries[i][r] = start.pose[r]

UndoTypes ==
  /\ pose \in [Refs -> Poses] /\ copper \subseteq Uuids /\ next \in Nat \ {0}
  /\ clock \in Nat /\ DOMAIN logs \subseteq 1 .. clock
  /\ strayed \subseteq Refs /\ adrift \subseteq Uuids
  /\ logs \in [DOMAIN logs -> Records]
  /\ pc \in {"idle", "items", "commit", "copper", "write", "undo", "unlink"} /\ pass \in {1, 2}
  /\ moving \in Entries /\ taken \in Entries /\ DOMAIN moving = DOMAIN taken
  /\ moveLog \in Seq(Entries) /\ made \subseteq Uuids /\ origin \in Boards
  /\ position \in Nat
  /\ copper \subseteq 1 .. next - 1 /\ made \subseteq 1 .. next - 1
  /\ pc \in {"undo", "unlink"} => DOMAIN logs # {}
  /\ ~Running => moveLog = <<>> /\ made = {}
  /\ pc # "commit" => moving = Nothing

\* What a run has done to the board since it began, it has written down.
RunNoted ==
  Running =>
    /\ Agree(moveLog, origin)
    /\ \A r \in DOMAIN taken : taken[r] = origin.pose[r]
    /\ \A r \in Refs : Untouched(r, moveLog) /\ r \notin DOMAIN moving => pose[r] = origin.pose[r]
    /\ copper \ made = origin.copper

LogsAgree == \A s \in DOMAIN logs : Agree(logs[s].moves, logs[s].origin)

\* How far an undo has come.
Restored ==
  /\ pc = "undo" =>
       /\ position <= Len(logs[Newest].moves)
       /\ \A i \in 1 .. position : \A r \in DOMAIN logs[Newest].moves[i] :
            pose[r] = logs[Newest].origin.pose[r]
  /\ pc = "unlink" =>
       /\ \A r \in Refs : ~Untouched(r, logs[Newest].moves) => pose[r] = logs[Newest].origin.pose[r]
       /\ copper \cap logs[Newest].made \subseteq adrift

\* A board the operation of a log leads to, but for what no log tells of.
LeadsTo(l, board) ==
  /\ \A r \in Refs \ strayed : Untouched(r, l.moves) => board.pose[r] = l.origin.pose[r]
  /\ (board.copper \ l.made) \ adrift = l.origin.copper \ adrift

\* The board as the last operation that ended left it.
Ground == IF Running THEN origin ELSE [pose |-> pose, copper |-> copper]

\* Each log leads to where the next one begins, the newest to the board.
Chained ==
  /\ DOMAIN logs # {} => LeadsTo(logs[Newest], Ground)
  /\ \A s, t \in DOMAIN logs : s < t /\ (\A u \in DOMAIN logs : u <= s \/ t <= u) =>
       LeadsTo(logs[s], logs[t].origin)

DrawnLogged ==
  \A u \in copper \ adrift : u \in made \/ \E s \in DOMAIN logs : u \in logs[s].made

UndoInv == UndoTypes /\ RunNoted /\ LogsAgree /\ Restored /\ Chained /\ DrawnLogged

-----------------------------------------------------------------------------
(* The newest log.                                                         *)

LEMMA NatMin == ASSUME NEW T \in SUBSET Nat, T # {} PROVE \E x \in T : \A y \in T : x <= y
<1> DEFINE below == {1 .. n : n \in T}
<1>1. below \subseteq FiniteSubsetsOf(Nat) /\ below # {}
  <2>1. ASSUME NEW n \in T PROVE 1 .. n \in SUBSET Nat /\ IsFiniteSet(1 .. n)
    <3>1. n \in Int /\ 1 \in Int
      OBVIOUS
    <3>2. 1 .. n \in SUBSET Nat
      BY <3>1
    <3> QED BY <3>1, <3>2, FS_Interval
  <2> QED BY <2>1 DEF FiniteSubsetsOf
<1>2. PICK b \in below : \A c \in below : ~(<<c, b>> \in StrictSubsetOrdering(Nat))
  <2> HIDE DEF below
  <2> QED BY <1>1, FS_StrictSubsetOrderingWellFounded, WFMin
<1>3. PICK x \in T : b = 1 .. x
  BY <1>2
<1>4. ASSUME NEW y \in T, y < x PROVE FALSE
  <2>1. 1 .. y \in below /\ 1 .. y \subseteq 1 .. x /\ x \in 1 .. x /\ x \notin 1 .. y
    BY <1>4
  <2>2. <<1 .. y, b>> \in StrictSubsetOrdering(Nat)
    BY <2>1, <1>1, <1>3 DEF StrictSubsetOrdering
  <2> QED BY <2>1, <2>2, <1>2
<1> QED BY <1>4

\* A set of stamps has a latest one.
LEMMA Latest ==
  ASSUME NEW n \in Nat, NEW S \in SUBSET (1 .. n), S # {}
  PROVE  \E s \in S : \A t \in S : t <= s
<1> DEFINE T == {n - s : s \in S}
<1>1. T \in SUBSET Nat /\ T # {}
  <2>1. \A s \in S : n - s \in Nat
    OBVIOUS
  <2> QED BY <2>1
<1>2. PICK x \in T : \A y \in T : x <= y
  <2> HIDE DEF T
  <2> QED BY <1>1, NatMin
<1>3. PICK s \in S : x = n - s
  BY <1>2
<1>4. ASSUME NEW t \in S PROVE t <= s
  <2>1. n - s <= n - t
    BY <1>2, <1>3
  <2> QED BY <2>1
<1> QED BY <1>4

LEMMA NewestIs ==
  ASSUME UndoTypes, DOMAIN logs # {}
  PROVE  Newest \in DOMAIN logs /\ \A t \in DOMAIN logs : t <= Newest
<1>1. \E s \in DOMAIN logs : \A t \in DOMAIN logs : t <= s
  BY Latest DEF UndoTypes
<1> QED BY <1>1 DEF Newest

\* A log later than all the others is the newest.
LEMMA NewestIsThat ==
  ASSUME NEW S \in SUBSET Nat, NEW s \in S, \A t \in S : t <= s
  PROVE  (CHOOSE x \in S : \A t \in S : t <= x) = s
<1> DEFINE c == CHOOSE x \in S : \A t \in S : t <= x
<1>1. c \in S /\ \A t \in S : t <= c
  OBVIOUS
<1>2. c <= s /\ s <= c /\ c \in Nat /\ s \in Nat
  BY <1>1
<1> QED BY <1>2

-----------------------------------------------------------------------------
(* Entries, boards and moves.                                              *)

LEMMA EntryFacts ==
  /\ \A e \in Entries : DOMAIN e \subseteq Refs /\ \A r \in DOMAIN e : e[r] \in Poses
  /\ \A D \in SUBSET Refs : \A e : e \in [D -> Poses] => e \in Entries
  /\ Nothing \in Entries /\ DOMAIN Nothing = {}
BY DEF Entries, Nothing

LEMMA FlipFacts ==
  ASSUME NEW p \in Poses
  PROVE  Flip(p) \in Poses
<1>1. \E s \in Sides : s # p[2]
  BY DEF Sides
<1>2. (CHOOSE s \in Sides : s # p[2]) \in Sides
  BY <1>1
<1>3. PICK q \in Sides : q = CHOOSE s \in Sides : s # p[2]
  BY <1>2
<1>4. p[1] \in Spots /\ Flip(p) = <<p[1], q>>
  BY <1>3 DEF Flip, Poses
<1> QED BY <1>4 DEF Poses

\* Where the components are put, and where the others stay.
LEMMA PutFacts ==
  ASSUME pose \in [Refs -> Poses], NEW m, \A r \in DOMAIN m \cap Refs : m[r] \in Poses
  PROVE  /\ Put(m) \in [Refs -> Poses]
         /\ \A r \in Refs : Put(m)[r] = IF r \in DOMAIN m THEN m[r] ELSE pose[r]
BY DEF Put

LEMMA MovesAreEntries == \A m \in Moves : m \in Entries
BY EntryFacts DEF Moves, Entries

-----------------------------------------------------------------------------
(* The types.                                                              *)

LEMMA InitUndo == Init => UndoInv
<1> SUFFICES ASSUME Init PROVE UndoInv
  OBVIOUS
<1>1. /\ pose \in [Refs -> Poses] /\ copper = {} /\ next = 1 /\ logs = Nothing /\ clock = 0
      /\ pc = "idle" /\ pass = 1 /\ moving = Nothing /\ taken = Nothing /\ moveLog = <<>>
      /\ made = {} /\ position = 0 /\ origin = [pose |-> pose, copper |-> {}]
      /\ strayed = {} /\ adrift = {}
  BY DEF Init
<1>2. DOMAIN logs = {} /\ logs \in [DOMAIN logs -> Records] /\ moveLog \in Seq(Entries)
  BY <1>1 DEF Nothing
<1>3. UndoTypes
  BY <1>1, <1>2, EntryFacts DEF UndoTypes, Boards, Running
<1> QED BY <1>1, <1>2, <1>3 DEF UndoInv, RunNoted, LogsAgree, Restored, Chained, DrawnLogged, Running

LEMMA UndoTypesStep ==
  ASSUME ImprintLogs = "later", UndoTypes, [Next]_vars
  PROVE  UndoTypes'
<1> USE DEF Running
<1>t. /\ pose \in [Refs -> Poses] /\ copper \subseteq Uuids /\ next \in Nat \ {0}
      /\ clock \in Nat /\ DOMAIN logs \subseteq 1 .. clock
      /\ strayed \subseteq Refs /\ adrift \subseteq Uuids
      /\ logs \in [DOMAIN logs -> Records] /\ \A s \in DOMAIN logs : logs[s] \in Records
      /\ pc \in {"idle", "items", "commit", "copper", "write", "undo", "unlink"} /\ pass \in {1, 2}
      /\ moving \in Entries /\ taken \in Entries /\ DOMAIN moving = DOMAIN taken
      /\ moveLog \in Seq(Entries) /\ made \subseteq Uuids /\ origin \in Boards
      /\ position \in Nat
      /\ copper \subseteq 1 .. next - 1 /\ made \subseteq 1 .. next - 1
      /\ pc \in {"undo", "unlink"} => DOMAIN logs # {}
      /\ ~Running => moveLog = <<>> /\ made = {}
      /\ pc # "commit" => moving = Nothing
  BY DEF UndoTypes
<1>n. DOMAIN logs # {} => Newest \in DOMAIN logs /\ logs[Newest] \in Records
  BY <1>t, NewestIs
<1>p. ASSUME NEW m, \A r \in DOMAIN m \cap Refs : m[r] \in Poses PROVE Put(m) \in [Refs -> Poses]
  BY <1>t, <1>p, PutFacts
<1>e. <<>> \in Seq(Entries) /\ Nothing \in Entries /\ DOMAIN Nothing = {}
  BY EntryFacts
<1>1. CASE UNCHANGED vars
  BY <1>1, <1>t DEF vars, UndoTypes
<1>2. CASE StartRun
  BY <1>2, <1>t DEF StartRun, boardVars, itemVars, looseVars, UndoTypes, Boards
<1>3. ASSUME NEW m \in Moves, ExecuteMoves(m) PROVE UndoTypes'
  <2>1. m \in Entries /\ DOMAIN m \subseteq Refs
    BY MovesAreEntries, EntryFacts
  <2>2. OriginalStates(m) \in Entries /\ DOMAIN OriginalStates(m) = DOMAIN m
    BY <1>t, <2>1, EntryFacts DEF OriginalStates
  <2>3. pose' \in [Refs -> Poses]
    <3> DEFINE flipped == [r \in {x \in DOMAIN m : m[x][2] # pose[x][2]} |-> Flip(pose[r])]
    <3>1. \A r \in DOMAIN flipped \cap Refs : flipped[r] \in Poses
      BY <1>t, FlipFacts
    <3>2. pose' = Put(flipped)
      BY <1>3 DEF ExecuteMoves
    <3> QED BY <1>p, <3>1, <3>2
  <2>4. /\ pc = "items" /\ pc' = "commit" /\ moving' = m /\ taken' = OriginalStates(m)
        /\ UNCHANGED <<copper, next, logs, clock, pass, moveLog, made, position, origin, strayed, adrift>>
    BY <1>3 DEF ExecuteMoves, fileVars, looseVars
  <2> QED BY <1>t, <2>1, <2>2, <2>3, <2>4 DEF UndoTypes
<1>4. CASE CommitMoves
  <2>1. pose' \in [Refs -> Poses]
    <3>1. \A r \in DOMAIN moving \cap Refs : moving[r] \in Poses
      BY <1>t, EntryFacts
    <3> QED BY <1>4, <1>p, <3>1 DEF CommitMoves
  <2>2. moveLog' = Append(moveLog, taken) /\ moveLog' \in Seq(Entries)
    BY <1>4, <1>t DEF CommitMoves
  <2>3. /\ pc = "commit" /\ pc' = "items" /\ moving' = Nothing /\ taken' = Nothing
        /\ UNCHANGED <<copper, next, logs, clock, pass, made, position, origin, strayed, adrift>>
    BY <1>4 DEF CommitMoves, fileVars, looseVars
  <2> QED BY <1>t, <1>e, <2>1, <2>2, <2>3 DEF UndoTypes
<1>a. Visited \subseteq Refs
  <2>1. \A i \in DOMAIN moveLog : moveLog[i] \in Entries
    BY <1>t
  <2> QED BY <2>1, EntryFacts DEF Visited
<1>b. ASSUME GoesUnlogged, copper' \subseteq Uuids PROVE strayed' \subseteq Refs /\ adrift' \subseteq Uuids
  <2>1. DOMAIN moving \subseteq Refs
    BY <1>t, EntryFacts
  <2> QED BY <1>a, <1>b, <1>t, <2>1 DEF GoesUnlogged
<1>5. ASSUME RunEnds, UNCHANGED <<position, origin>>, pose' \in [Refs -> Poses],
             next' \in Nat \ {0}, copper' \subseteq Uuids, copper' \subseteq 1 .. next' - 1,
             clock' \in Nat, DOMAIN logs' \subseteq 1 .. clock', logs' \in [DOMAIN logs' -> Records]
      PROVE  UndoTypes'
  BY <1>5, <1>b, <1>t, <1>e DEF RunEnds, UndoTypes
<1>6. CASE MovesRaise
  <2>1. PICK part \in SUBSET DOMAIN moving : pose' = Put([r \in part |-> moving[r]])
    BY <1>6 DEF MovesRaise
  <2>2. \A r \in part : moving[r] \in Poses
    BY <1>t, EntryFacts
  <2>3. pose' \in [Refs -> Poses]
    BY <1>p, <2>1, <2>2
  <2> QED BY <1>5, <1>6, <1>t, <2>3 DEF MovesRaise, fileVars
<1>7. CASE StartCopper
  BY <1>7, <1>t DEF StartCopper, boardVars, fileVars, itemVars, looseVars, UndoTypes
<1>8. CASE CreateBatch
  <2>1. /\ pc = "copper" /\ next <= MaxUuid /\ copper' = copper \cup {next}
        /\ made' = made \cup {next} /\ next' = next + 1
        /\ UNCHANGED <<pose, logs, clock, pc, pass, moving, taken, moveLog, position, origin, strayed, adrift>>
    BY <1>8 DEF CreateBatch, fileVars, itemVars, looseVars
  <2>2. /\ copper' \subseteq 1 .. next' - 1 /\ made' \subseteq 1 .. next' - 1 /\ next' \in Nat \ {0}
        /\ copper' \subseteq Uuids /\ made' \subseteq Uuids
    <3>1. next \in Uuids /\ next \in 1 .. next' - 1 /\ 1 .. next - 1 \subseteq 1 .. next' - 1
      BY <1>t, <2>1, BoundsAssumption DEF Uuids
    <3>2. copper \subseteq 1 .. next - 1 /\ made \subseteq 1 .. next - 1 /\ copper \subseteq Uuids
          /\ made \subseteq Uuids /\ next \in Nat
      BY <1>t
    <3> QED BY <2>1, <3>1, <3>2
  <2> QED BY <1>t, <2>1, <2>2 DEF UndoTypes
<1>9. CASE CreateRetried
  <2>1. /\ pc = "copper" /\ next < MaxUuid
        /\ copper' \in {copper \cup {next + 1}, copper \cup {next, next + 1}}
        /\ made' = made \cup {next, next + 1} /\ next' = next + 2
        /\ UNCHANGED <<pose, logs, clock, pc, pass, moving, taken, moveLog, position, origin, strayed, adrift>>
    BY <1>9 DEF CreateRetried, Logged, fileVars, itemVars, looseVars
  <2>2. /\ copper' \subseteq 1 .. next' - 1 /\ made' \subseteq 1 .. next' - 1 /\ next' \in Nat \ {0}
        /\ copper' \subseteq Uuids /\ made' \subseteq Uuids
    <3>1. {next, next + 1} \subseteq Uuids /\ {next, next + 1} \subseteq 1 .. next' - 1
          /\ 1 .. next - 1 \subseteq 1 .. next' - 1
      BY <1>t, <2>1, BoundsAssumption DEF Uuids
    <3>2. copper \subseteq 1 .. next - 1 /\ made \subseteq 1 .. next - 1 /\ copper \subseteq Uuids
          /\ made \subseteq Uuids /\ next \in Nat
      BY <1>t
    <3> QED BY <2>1, <3>1, <3>2
  <2> QED BY <1>t, <2>1, <2>2 DEF UndoTypes
<1>10. CASE CopperRaises
  <2>1. /\ RunEnds /\ UNCHANGED <<position, origin, pose, logs, clock>>
        /\ \/ UNCHANGED <<copper, next>>
           \/ next <= MaxUuid /\ copper' = copper \cup {next} /\ next' = next + 1
    BY <1>10 DEF CopperRaises, fileVars
  <2>2. next' \in Nat \ {0} /\ copper' \subseteq Uuids /\ copper' \subseteq 1 .. next' - 1
    <3>1. CASE UNCHANGED <<copper, next>>
      BY <1>t, <3>1
    <3>2. CASE next <= MaxUuid /\ copper' = copper \cup {next} /\ next' = next + 1
      <4>1. next \in Uuids /\ next \in 1 .. next' - 1 /\ 1 .. next - 1 \subseteq 1 .. next' - 1
        BY <1>t, <3>2, BoundsAssumption DEF Uuids
      <4>2. copper \subseteq 1 .. next - 1 /\ copper \subseteq Uuids /\ next \in Nat
        BY <1>t
      <4> QED BY <3>2, <4>1, <4>2
    <3> QED BY <2>1, <3>1, <3>2
  <2> QED BY <1>5, <1>t, <2>1, <2>2
<1>11. CASE FinishCopper
  BY <1>11, <1>t DEF FinishCopper, boardVars, fileVars, itemVars, looseVars, UndoTypes
<1>h. HalfWritten => /\ clock' = clock + 1 /\ clock' \in Nat
                    /\ DOMAIN logs' \subseteq 1 .. clock' /\ logs' \in [DOMAIN logs' -> Records]
  <2> SUFFICES ASSUME HalfWritten
               PROVE  /\ clock' = clock + 1 /\ clock' \in Nat
                      /\ DOMAIN logs' \subseteq 1 .. clock' /\ logs' \in [DOMAIN logs' -> Records]
    OBVIOUS
  <2>1. clock' = clock + 1 /\ logs' = [s \in DOMAIN logs \ {Stamp} |-> logs[s]]
    BY DEF HalfWritten, Stamp
  <2>2. clock \in Nat /\ DOMAIN logs \subseteq 1 .. clock /\ 1 .. clock \subseteq 1 .. clock + 1
    BY <1>t
  <2> QED BY <1>t, <2>1, <2>2
<1>f. UNCHANGED fileVars => /\ clock' \in Nat /\ DOMAIN logs' \subseteq 1 .. clock'
                            /\ logs' \in [DOMAIN logs' -> Records]
  BY <1>t DEF fileVars
<1>w. ASSUME PassEnds, strayed' \subseteq Refs, adrift' \subseteq Uuids,
             clock' \in Nat, DOMAIN logs' \subseteq 1 .. clock', logs' \in [DOMAIN logs' -> Records]
      PROVE  UndoTypes'
  <2>1. /\ pc = "write" /\ moveLog' = <<>> /\ made' = {}
        /\ origin' = [pose |-> pose, copper |-> copper]
        /\ pass' \in {1, 2} /\ pc' \in {"items", "idle"}
        /\ UNCHANGED <<pose, copper, next, moving, taken, position>>
    BY <1>w DEF PassEnds, boardVars, itemVars
  <2>2. origin' \in Boards
    BY <1>t, <2>1 DEF Boards
  <2> QED BY <1>w, <1>t, <1>e, <2>1, <2>2 DEF UndoTypes
<1>12. CASE WriteLog
  <2>1. PassEnds /\ UNCHANGED <<strayed, adrift>>
    BY <1>12 DEF WriteLog, looseVars
  <2>2. clock' \in Nat /\ DOMAIN logs' \subseteq 1 .. clock' /\ logs' \in [DOMAIN logs' -> Records]
    <3>1. CASE UNCHANGED <<logs, clock>>
      BY <1>t, <3>1
    <3>2. CASE logs' = Store(LogRecord) /\ clock' = Stamp
      <4>1. LogRecord \in Records
        BY <1>t DEF LogRecord, Records
      <4>2. Stamp = clock + 1
        BY DEF Stamp
      <4>3. /\ DOMAIN logs' = DOMAIN logs \cup {Stamp} /\ logs' = [s \in DOMAIN logs' |-> logs'[s]]
            /\ \A s \in DOMAIN logs' : logs'[s] = IF s = Stamp THEN LogRecord ELSE logs[s]
        BY <3>2 DEF Store
      <4>4. DOMAIN logs \subseteq 1 .. clock /\ clock \in Nat
        BY <1>t
      <4>5. clock + 1 \in Nat /\ 1 .. clock \subseteq 1 .. (clock + 1) /\ clock + 1 \in 1 .. (clock + 1)
        BY <4>4
      <4>6. \A s \in DOMAIN logs' : logs'[s] \in Records
        BY <1>t, <4>1, <4>3
      <4>7. logs' \in [DOMAIN logs' -> Records]
        BY <4>3, <4>6
      <4> QED BY <3>2, <4>2, <4>3, <4>4, <4>5, <4>7
    <3> QED BY <1>12, <3>1, <3>2 DEF WriteLog, fileVars
  <2> QED BY <1>t, <1>w, <2>1, <2>2
<1>18. CASE WriteFails
  <2>1. PassEnds /\ GoesUnlogged /\ (UNCHANGED fileVars \/ HalfWritten) /\ copper' = copper
    BY <1>18 DEF WriteFails, PassEnds, boardVars
  <2> QED BY <1>b, <1>f, <1>h, <1>t, <1>w, <2>1
<1>19. CASE WriteDies
  <2>1. /\ RunEnds /\ (UNCHANGED fileVars \/ HalfWritten)
        /\ UNCHANGED <<pose, copper, next, position, origin>>
    BY <1>19 DEF WriteDies, boardVars
  <2> QED BY <1>5, <1>f, <1>h, <1>t, <2>1
<1>20. CASE DeleteTorn
  BY <1>20, <1>t DEF DeleteTorn, boardVars, itemVars, looseVars, UndoTypes
<1>13. CASE StartUndo
  BY <1>13, <1>t DEF StartUndo, boardVars, fileVars, itemVars, looseVars, UndoTypes
<1>14. CASE RestoreItem
  <2>1. /\ pc = "undo" /\ position < Len(logs[Newest].moves)
        /\ pose' = Put(logs[Newest].moves[position + 1]) /\ position' = position + 1
        /\ UNCHANGED <<copper, next, logs, clock, pc, pass, moving, taken, moveLog, made, origin, strayed, adrift>>
    BY <1>14 DEF RestoreItem, fileVars, itemVars, looseVars
  <2>2. logs[Newest].moves[position + 1] \in Entries
    BY <1>t, <1>n, <2>1 DEF Records
  <2>3. pose' \in [Refs -> Poses]
    BY <1>p, <2>1, <2>2, EntryFacts
  <2> QED BY <1>t, <2>1, <2>3 DEF UndoTypes
<1>15. CASE RemoveCreated
  <2>1. /\ pc = "undo" /\ pc' = "unlink"
        /\ UNCHANGED <<pose, next, logs, clock, pass, moving, taken, moveLog, made, position, origin, strayed>>
    BY <1>15 DEF RemoveCreated, fileVars, itemVars
  <2>2. copper' \subseteq copper /\ adrift' \subseteq Uuids
    BY <1>15, <1>t DEF RemoveCreated
  <2> QED BY <1>t, <2>1, <2>2 DEF UndoTypes
<1>16. CASE Unlink
  <2>1. /\ pc' = "idle" /\ position' = 0 /\ pc = "unlink"
        /\ logs' = [s \in (DOMAIN logs) \ {Newest} |-> logs[s]]
        /\ UNCHANGED <<pose, copper, next, clock, pass, moving, taken, moveLog, made, origin, strayed, adrift>>
    BY <1>16 DEF Unlink, boardVars, itemVars, looseVars
  <2> QED BY <1>t, <2>1 DEF UndoTypes
<1>17. CASE UndoDies
  <2>1. /\ pc \in {"undo", "unlink"} /\ pc' = "idle" /\ position' = 0
        /\ UNCHANGED <<next, logs, clock, pass, moving, taken, moveLog, made, origin, strayed, adrift>>
    BY <1>17 DEF UndoDies, fileVars, itemVars, looseVars
  <2>2. copper' \subseteq copper
    BY <1>17 DEF UndoDies
  <2>3. pose' \in [Refs -> Poses]
    <3>1. CASE UNCHANGED pose
      BY <1>t, <3>1
    <3>2. CASE pose' # pose
      <4>1. pc = "undo" /\ position < Len(logs[Newest].moves)
            /\ LET m == logs[Newest].moves[position + 1] IN
               \E part \in SUBSET DOMAIN m :
                 \/ pose' = Put([r \in part |-> m[r]])
                 \/ pose' = Put([r \in part |-> <<pose[r][1], m[r][2]>>])
        BY <1>17, <3>2 DEF UndoDies
      <4>2. PICK m : m = logs[Newest].moves[position + 1]
        OBVIOUS
      <4>3. m \in Entries
        BY <1>t, <1>n, <4>1, <4>2 DEF Records
      <4>4. PICK part \in SUBSET DOMAIN m :
               \/ pose' = Put([r \in part |-> m[r]])
               \/ pose' = Put([r \in part |-> <<pose[r][1], m[r][2]>>])
        BY <4>1, <4>2
      <4>5. ASSUME NEW r \in part PROVE m[r] \in Poses /\ <<pose[r][1], m[r][2]>> \in Poses
        <5>1. r \in Refs /\ m[r] \in Poses /\ pose[r] \in Poses
          BY <1>t, <4>3, EntryFacts
        <5> QED BY <5>1 DEF Poses
      <4>6. CASE pose' = Put([r \in part |-> m[r]])
        BY <1>p, <4>5, <4>6
      <4>7. CASE pose' = Put([r \in part |-> <<pose[r][1], m[r][2]>>])
        BY <1>p, <4>5, <4>7
      <4> QED BY <4>4, <4>6, <4>7
    <3> QED BY <3>1, <3>2
  <2> QED BY <1>t, <2>1, <2>2, <2>3 DEF UndoTypes
<1> QED BY <1>1, <1>2, <1>3, <1>4, <1>6, <1>7, <1>8, <1>9, <1>10, <1>11, <1>12, <1>13, <1>14,
           <1>15, <1>16, <1>17, <1>18, <1>19, <1>20 DEF Next

-----------------------------------------------------------------------------
(* What a run has noted.                                                   *)

LEMMA NotedStep ==
  ASSUME Revisits = FALSE, ImprintLogs = "later", UndoTypes, RunNoted, [Next]_vars
  PROVE  RunNoted'
<1>t. /\ pose \in [Refs -> Poses] /\ copper \subseteq 1 .. next - 1 /\ made \subseteq 1 .. next - 1
      /\ next \in Nat /\ moving \in Entries /\ taken \in Entries /\ DOMAIN moving = DOMAIN taken
      /\ moveLog \in Seq(Entries)
      /\ ~Running => moveLog = <<>> /\ made = {}
      /\ pc # "commit" => DOMAIN moving = {}
  BY EntryFacts DEF UndoTypes
<1>r. Running =>
        /\ Agree(moveLog, origin)
        /\ \A r \in DOMAIN taken : taken[r] = origin.pose[r]
        /\ \A r \in Refs : Untouched(r, moveLog) /\ r \notin DOMAIN moving => pose[r] = origin.pose[r]
        /\ copper \ made = origin.copper
  BY DEF RunNoted
<1>p. ASSUME NEW m, \A r \in DOMAIN m \cap Refs : m[r] \in Poses
      PROVE  \A r \in Refs : Put(m)[r] = IF r \in DOMAIN m THEN m[r] ELSE pose[r]
  BY <1>t, <1>p, PutFacts
<1>1. ASSUME UNCHANGED <<pose, copper, pc, moving, taken, moveLog, made, origin>> PROVE RunNoted'
  BY <1>1, <1>r DEF RunNoted, Running, Agree, Untouched
<1>2. ASSUME pc' \in {"idle", "undo", "unlink"} PROVE RunNoted'
  BY <1>2 DEF RunNoted, Running
<1>3. CASE UNCHANGED vars
  BY <1>1, <1>3 DEF vars
<1>4. CASE StartRun
  <2>1. /\ pc = "idle" /\ origin' = [pose |-> pose, copper |-> copper]
        /\ UNCHANGED <<pose, copper, moving, taken, moveLog, made>>
    BY <1>4 DEF StartRun, boardVars, itemVars
  <2>2. moveLog = <<>> /\ made = {} /\ DOMAIN taken = {}
    BY <1>t, <2>1 DEF Running
  <2> QED BY <2>1, <2>2 DEF RunNoted, Agree, Untouched
<1>5. ASSUME NEW m \in Moves, ExecuteMoves(m) PROVE RunNoted'
  <2>1. /\ pc = "items" /\ DOMAIN m \cap Visited = {} /\ moving' = m /\ taken' = OriginalStates(m)
        /\ pose' = Put([r \in {x \in DOMAIN m : m[x][2] # pose[x][2]} |-> Flip(pose[r])])
        /\ UNCHANGED <<copper, moveLog, made, origin>>
    BY <1>5 DEF ExecuteMoves
  <2>2. m \in Entries /\ DOMAIN m \subseteq Refs
    BY MovesAreEntries, EntryFacts
  <2>3. \A r \in DOMAIN m : Untouched(r, moveLog)
    BY <2>1 DEF Visited, Untouched
  <2>4. \A r \in DOMAIN m : OriginalStates(m)[r] = origin.pose[r]
    BY <1>t, <1>r, <2>1, <2>2, <2>3 DEF OriginalStates, Running
  <2>5. \A r \in Refs \ DOMAIN m : pose'[r] = pose[r]
    <3> DEFINE flipped == [r \in {x \in DOMAIN m : m[x][2] # pose[x][2]} |-> Flip(pose[r])]
    <3>1. \A r \in DOMAIN flipped \cap Refs : flipped[r] \in Poses
      BY <1>t, FlipFacts
    <3>2. pose' = Put(flipped) /\ DOMAIN flipped \subseteq DOMAIN m
      BY <2>1
    <3> HIDE DEF flipped
    <3> QED BY <1>p, <3>1, <3>2
  <2>6. DOMAIN taken' = DOMAIN m
    BY <2>1 DEF OriginalStates
  <2> QED BY <1>t, <1>r, <2>1, <2>4, <2>5, <2>6 DEF RunNoted, Running, Agree, Untouched
<1>6. CASE CommitMoves
  <2>1. /\ pc = "commit" /\ pose' = Put(moving) /\ moveLog' = Append(moveLog, taken)
        /\ moving' = Nothing /\ taken' = Nothing /\ UNCHANGED <<copper, made, origin>>
    BY <1>6 DEF CommitMoves
  <2>2. \A r \in Refs \ DOMAIN moving : pose'[r] = pose[r]
    <3>1. \A r \in DOMAIN moving \cap Refs : moving[r] \in Poses
      BY <1>t, EntryFacts
    <3> QED BY <1>p, <2>1, <3>1
  <2>3. \A i \in DOMAIN moveLog' : \/ i \in DOMAIN moveLog /\ moveLog'[i] = moveLog[i]
                                   \/ moveLog'[i] = taken
    BY <1>t, <2>1
  <2>4. /\ \A i \in DOMAIN moveLog : i \in DOMAIN moveLog' /\ moveLog'[i] = moveLog[i]
        /\ \E i \in DOMAIN moveLog' : moveLog'[i] = taken
    BY <1>t, <2>1
  <2>5. Agree(moveLog', origin')
    BY <1>r, <2>1, <2>3 DEF Agree, Running
  <2>6. \A r \in Refs : Untouched(r, moveLog') => Untouched(r, moveLog) /\ r \notin DOMAIN moving
    BY <1>t, <2>4 DEF Untouched
  <2>7. DOMAIN taken' = {}
    BY <2>1 DEF Nothing
  <2> QED BY <1>r, <2>1, <2>2, <2>5, <2>6, <2>7 DEF RunNoted, Running
<1>7. CASE StartCopper \/ FinishCopper
  <2>1. /\ pc \in {"items", "copper"}
        /\ UNCHANGED <<pose, copper, moving, taken, moveLog, made, origin>>
    BY <1>7 DEF StartCopper, FinishCopper, boardVars, itemVars
  <2> QED BY <1>r, <2>1 DEF RunNoted, Running, Agree, Untouched
<1>8. ASSUME CreateBatch \/ CreateRetried PROVE RunNoted'
  <2>1. /\ pc = "copper" /\ UNCHANGED <<pose, pc, moving, taken, moveLog, origin>>
    BY <1>8 DEF CreateBatch, CreateRetried, itemVars
  <2>2. PICK new \in SUBSET {next, next + 1}, some \in SUBSET {next, next + 1} :
          some \subseteq new /\ copper' = copper \cup some /\ made' = made \cup new
    BY <1>8 DEF CreateBatch, CreateRetried, Logged
  <2>3. next \notin copper /\ next + 1 \notin copper
    BY <1>t
  <2>4. copper' \ made' = copper \ made
    BY <2>2, <2>3
  <2> QED BY <1>r, <2>1, <2>4 DEF RunNoted, Running, Agree, Untouched
<1>9. CASE WriteLog \/ WriteFails
  <2>1. /\ pc = "write" /\ moveLog' = <<>> /\ made' = {} /\ origin' = [pose |-> pose, copper |-> copper]
        /\ UNCHANGED <<pose, copper, moving, taken>>
    BY <1>9 DEF WriteLog, WriteFails, PassEnds, boardVars, itemVars
  <2>2. DOMAIN taken = {}
    BY <1>t, <2>1
  <2> QED BY <2>1, <2>2 DEF RunNoted, Agree, Untouched
<1>12. CASE DeleteTorn
  BY <1>1, <1>12 DEF DeleteTorn, boardVars, itemVars
<1>10. CASE \/ MovesRaise \/ CopperRaises \/ WriteDies \/ StartUndo \/ RemoveCreated \/ Unlink
            \/ UndoDies
  BY <1>2, <1>10 DEF MovesRaise, CopperRaises, WriteDies, RunEnds, StartUndo, RemoveCreated, Unlink, UndoDies
<1>11. CASE RestoreItem
  BY <1>2, <1>11 DEF RestoreItem
<1> QED BY <1>3, <1>4, <1>5, <1>6, <1>7, <1>8, <1>9, <1>10, <1>11, <1>12 DEF Next

-----------------------------------------------------------------------------
(* The logs.                                                               *)

\* A file that is cut short is one nobody has written before.
LEMMA HalfKeeps ==
  ASSUME ImprintLogs = "later", UndoTypes, HalfWritten
  PROVE  logs' = logs
<1>1. DOMAIN logs \subseteq 1 .. clock /\ clock \in Nat /\ Stamp = clock + 1
  BY DEF UndoTypes, Stamp
<1>2. DOMAIN logs \ {Stamp} = DOMAIN logs
  BY <1>1
<1>3. logs' = [s \in DOMAIN logs |-> logs[s]]
  BY <1>2 DEF HalfWritten
<1> QED BY <1>3 DEF UndoTypes

\* Only the write and the end of an undo change them.
LEMMA LogsKept ==
  ASSUME ImprintLogs = "later", UndoTypes, [Next]_vars
  PROVE  WriteLog \/ Unlink \/ logs' = logs
<1>1. CASE UNCHANGED vars
  BY <1>1 DEF vars
<1>2. ASSUME \/ StartRun \/ (\E m \in Moves : ExecuteMoves(m)) \/ CommitMoves \/ MovesRaise
             \/ StartCopper \/ CreateBatch \/ CreateRetried \/ CopperRaises \/ FinishCopper
             \/ DeleteTorn \/ StartUndo \/ RestoreItem \/ RemoveCreated \/ UndoDies
      PROVE  logs' = logs
  BY <1>2 DEF StartRun, ExecuteMoves, CommitMoves, MovesRaise, StartCopper, CreateBatch,
              CreateRetried, CopperRaises, FinishCopper, DeleteTorn, StartUndo, RestoreItem,
              RemoveCreated, UndoDies, fileVars
<1>3. CASE WriteFails \/ WriteDies
  BY <1>3, HalfKeeps DEF WriteFails, WriteDies, fileVars
<1> QED BY <1>1, <1>2, <1>3 DEF Next

\* What no log tells of stays so.
LEMMA LooseGrow ==
  ASSUME [Next]_vars
  PROVE  strayed \subseteq strayed' /\ adrift \subseteq adrift'
<1>1. CASE UNCHANGED vars
  BY <1>1 DEF vars
<1>2. ASSUME \/ StartRun \/ (\E m \in Moves : ExecuteMoves(m)) \/ CommitMoves \/ StartCopper
             \/ CreateBatch \/ CreateRetried \/ FinishCopper \/ WriteLog \/ DeleteTorn
             \/ StartUndo \/ RestoreItem \/ Unlink \/ UndoDies
      PROVE  UNCHANGED <<strayed, adrift>>
  BY <1>2 DEF StartRun, ExecuteMoves, CommitMoves, StartCopper, CreateBatch, CreateRetried,
              FinishCopper, WriteLog, DeleteTorn, StartUndo, RestoreItem, Unlink, UndoDies, looseVars
<1>3. CASE MovesRaise \/ CopperRaises \/ WriteFails \/ WriteDies
  BY <1>3 DEF MovesRaise, CopperRaises, WriteFails, WriteDies, RunEnds, GoesUnlogged
<1>4. CASE RemoveCreated
  BY <1>4 DEF RemoveCreated
<1> QED BY <1>1, <1>2, <1>3, <1>4 DEF Next

\* A written log is the newest, and the others are as they were.
LEMMA LogWritten ==
  ASSUME ImprintLogs = "later", UndoTypes, WriteLog
  PROVE  \/ moveLog = <<>> /\ made = {} /\ UNCHANGED <<logs, clock>>
         \/ /\ DOMAIN logs' = DOMAIN logs \cup {clock + 1} /\ clock + 1 \notin DOMAIN logs
            /\ logs'[clock + 1] = LogRecord /\ Newest' = clock + 1
            /\ \A s \in DOMAIN logs : logs'[s] = logs[s] /\ s < clock + 1 /\ s \in Nat
<1>1. CASE UNCHANGED <<logs, clock>>
  BY <1>1 DEF WriteLog, NothingToLog, fileVars, Store, Stamp, UndoTypes
<1>2. CASE logs' = Store(LogRecord)
  <2>1. DOMAIN logs \subseteq 1 .. clock /\ clock \in Nat /\ Stamp = clock + 1
    BY DEF UndoTypes, Stamp
  <2>2. \A s \in DOMAIN logs : s < clock + 1 /\ s \in Nat
    BY <2>1
  <2>3. /\ DOMAIN logs' = DOMAIN logs \cup {clock + 1}
        /\ \A s \in DOMAIN logs' : logs'[s] = IF s = clock + 1 THEN LogRecord ELSE logs[s]
    BY <1>2, <2>1 DEF Store
  <2>4. Newest' = clock + 1
    <3>1. DOMAIN logs' \in SUBSET Nat /\ clock + 1 \in DOMAIN logs'
          /\ \A s \in DOMAIN logs' : s <= clock + 1
      BY <2>1, <2>2, <2>3
    <3> QED BY <3>1, NewestIsThat DEF Newest
  <2> QED BY <2>1, <2>2, <2>3, <2>4
<1> QED BY <1>1, <1>2 DEF WriteLog, fileVars

LEMMA LogUnlinked ==
  ASSUME UndoTypes, Unlink
  PROVE  /\ Newest \in DOMAIN logs /\ DOMAIN logs' = DOMAIN logs \ {Newest}
         /\ \A s \in DOMAIN logs : s \in Nat /\ s <= Newest
         /\ \A s \in DOMAIN logs' : logs'[s] = logs[s]
         /\ DOMAIN logs' # {} => Newest' \in DOMAIN logs' /\ \A s \in DOMAIN logs' : s <= Newest'
<1>1. Newest \in DOMAIN logs /\ \A s \in DOMAIN logs : s <= Newest
  BY NewestIs DEF Unlink, UndoTypes
<1>2. DOMAIN logs \subseteq 1 .. clock /\ clock \in Nat
  BY DEF UndoTypes
<1>3. DOMAIN logs' = DOMAIN logs \ {Newest} /\ \A s \in DOMAIN logs' : logs'[s] = logs[s]
  BY DEF Unlink
<1>4. DOMAIN logs' # {} => \E s \in DOMAIN logs' : \A t \in DOMAIN logs' : t <= s
  BY <1>2, <1>3, Latest
<1>5. DOMAIN logs' # {} => Newest' \in DOMAIN logs' /\ \A s \in DOMAIN logs' : s <= Newest'
  BY <1>4 DEF Newest
<1> QED BY <1>1, <1>2, <1>3, <1>5

LEMMA LogsAgreeStep ==
  ASSUME Revisits = FALSE, ImprintLogs = "later", UndoTypes, RunNoted, LogsAgree, [Next]_vars
  PROVE  LogsAgree'
<1>1. CASE logs' = logs
  BY <1>1 DEF LogsAgree, Agree
<1>2. CASE WriteLog
  <2>1. LogRecord.moves = moveLog /\ LogRecord.origin = origin /\ Agree(moveLog, origin)
    BY <1>2 DEF LogRecord, RunNoted, Running, WriteLog, PassEnds
  <2>2. \A s \in DOMAIN logs' : (s \in DOMAIN logs /\ logs'[s] = logs[s]) \/ logs'[s] = LogRecord
    BY <1>2, LogWritten
  <2>3. \A s \in DOMAIN logs' : Agree(logs'[s].moves, logs'[s].origin)
    BY <2>1, <2>2 DEF LogsAgree
  <2> QED BY <2>3 DEF LogsAgree, Agree
<1>3. CASE Unlink
  <2>1. \A s \in DOMAIN logs' : s \in DOMAIN logs /\ logs'[s] = logs[s]
    BY <1>3, LogUnlinked
  <2> QED BY <2>1 DEF LogsAgree, Agree
<1> QED BY <1>1, <1>2, <1>3, LogsKept

-----------------------------------------------------------------------------
(* Undo.                                                                   *)

LEMMA RestoresItem ==
  ASSUME UndoTypes, LogsAgree, RestoreItem
  PROVE  LET m == logs[Newest].moves[position + 1] IN
         /\ Newest \in DOMAIN logs /\ position + 1 \in DOMAIN logs[Newest].moves
         /\ \A r \in DOMAIN m : pose'[r] = logs[Newest].origin.pose[r]
         /\ \A r \in Refs \ DOMAIN m : pose'[r] = pose[r]
<1> DEFINE m == logs[Newest].moves[position + 1]
<1>1. /\ pc = "undo" /\ position < Len(logs[Newest].moves) /\ pose' = Put(m)
  BY DEF RestoreItem
<1>2. Newest \in DOMAIN logs /\ logs[Newest] \in Records /\ position \in Nat
  BY <1>1, NewestIs DEF UndoTypes
<1>3. position + 1 \in DOMAIN logs[Newest].moves /\ m \in Entries
  BY <1>1, <1>2 DEF Records
<1>4. \A r \in DOMAIN m : r \in Refs /\ m[r] \in Poses /\ m[r] = logs[Newest].origin.pose[r]
  BY <1>2, <1>3, EntryFacts DEF LogsAgree, Agree
<1> HIDE DEF m
<1>5. \A r \in Refs : Put(m)[r] = IF r \in DOMAIN m THEN m[r] ELSE pose[r]
  BY <1>4, PutFacts DEF UndoTypes
<1>6. /\ \A r \in DOMAIN m : pose'[r] = logs[Newest].origin.pose[r]
      /\ \A r \in Refs \ DOMAIN m : pose'[r] = pose[r]
  BY <1>1, <1>4, <1>5
<1> QED BY <1>2, <1>3, <1>6 DEF m

\* A death in undo moves components the entry in hand names, or deletes copper the
\* log names.
LEMMA DiesInUndo ==
  ASSUME UndoTypes, UndoDies
  PROVE  /\ Newest \in DOMAIN logs
         /\ \A r \in Refs : Untouched(r, logs[Newest].moves) => pose'[r] = pose[r]
         /\ copper' \subseteq copper /\ copper \ copper' \subseteq logs[Newest].made
<1> DEFINE m == logs[Newest].moves[position + 1]
<1>1. Newest \in DOMAIN logs /\ logs[Newest] \in Records /\ position \in Nat
      /\ pose \in [Refs -> Poses]
  BY NewestIs DEF UndoTypes, UndoDies
<1>2. copper' \subseteq copper /\ copper \ copper' \subseteq logs[Newest].made
  BY DEF UndoDies
<1>3. CASE pose' = pose
  BY <1>1, <1>2, <1>3
<1>4. CASE pose' # pose
  <2>1. /\ position < Len(logs[Newest].moves)
        /\ \E part \in SUBSET DOMAIN m :
             \/ pose' = Put([r \in part |-> m[r]])
             \/ pose' = Put([r \in part |-> <<pose[r][1], m[r][2]>>])
    BY <1>4 DEF UndoDies
  <2>2. position + 1 \in DOMAIN logs[Newest].moves
    BY <1>1, <2>1 DEF Records
  <2>3. \A r \in Refs \ DOMAIN m : pose'[r] = pose[r]
    <3> HIDE DEF m
    <3>1. PICK part \in SUBSET DOMAIN m :
             \/ pose' = Put([r \in part |-> m[r]])
             \/ pose' = Put([r \in part |-> <<pose[r][1], m[r][2]>>])
      BY <2>1
    <3> QED BY <3>1 DEF Put
  <2> QED BY <1>1, <1>2, <2>2, <2>3 DEF Untouched
<1> QED BY <1>3, <1>4

\* Copper a log names that is still there when it has been asked to go.
LEMMA KeptAdrift ==
  ASSUME RemoveCreated
  PROVE  /\ copper' \subseteq copper /\ copper \ copper' \subseteq logs[Newest].made
         /\ copper' \cap logs[Newest].made \subseteq adrift'
BY DEF RemoveCreated

LEMMA RestoredStep ==
  ASSUME UndoTypes, LogsAgree, Restored, [Next]_vars
  PROVE  Restored'
<1>n. logs' = logs => Newest' = Newest
  BY DEF Newest
<1>1. CASE UNCHANGED vars
  BY <1>1, <1>n DEF vars, Restored, Untouched
<1>2. ASSUME pc' \notin {"undo", "unlink"} PROVE Restored'
  BY <1>2 DEF Restored
<1>3. ASSUME \/ StartRun \/ (\E m \in Moves : ExecuteMoves(m)) \/ CommitMoves \/ MovesRaise
             \/ StartCopper \/ CopperRaises \/ FinishCopper \/ CreateBatch \/ CreateRetried
             \/ WriteLog \/ WriteFails \/ WriteDies \/ DeleteTorn \/ Unlink \/ UndoDies
      PROVE  pc' \notin {"undo", "unlink"}
  BY <1>3 DEF StartRun, ExecuteMoves, CommitMoves, MovesRaise, RunEnds, StartCopper, CopperRaises,
              FinishCopper, CreateBatch, CreateRetried, WriteLog, WriteFails, WriteDies, PassEnds,
              DeleteTorn, Unlink, UndoDies
<1>4. CASE StartUndo
  <2>1. pc' = "undo" /\ position' = 0 /\ logs' = logs /\ DOMAIN logs # {}
    BY <1>4 DEF StartUndo, fileVars
  <2>2. logs[Newest] \in Records
    BY <2>1, NewestIs DEF UndoTypes
  <2>3. 0 <= Len(logs[Newest].moves)
    BY <2>2 DEF Records
  <2> QED BY <1>n, <2>1, <2>3 DEF Restored
<1>5. CASE RestoreItem
  <2> DEFINE m == logs[Newest].moves[position + 1]
  <2>1. /\ pc = "undo" /\ pc' = "undo" /\ position < Len(logs[Newest].moves)
        /\ position' = position + 1 /\ logs' = logs
    BY <1>5 DEF RestoreItem, fileVars
  <2>2. /\ position + 1 \in DOMAIN logs[Newest].moves /\ logs[Newest] \in Records
        /\ \A r \in DOMAIN m : pose'[r] = logs[Newest].origin.pose[r]
        /\ \A r \in Refs \ DOMAIN m : pose'[r] = pose[r]
    BY <1>5, RestoresItem DEF UndoTypes
  <2> HIDE DEF m
  <2>3. Len(logs[Newest].moves) \in Nat /\ position \in Nat
    BY <2>2 DEF UndoTypes, Records
  <2>4. ASSUME NEW i \in 1 .. position + 1, NEW r \in DOMAIN logs[Newest].moves[i]
        PROVE  pose'[r] = logs[Newest].origin.pose[r]
    <3>1. i \in DOMAIN logs[Newest].moves
      BY <2>1, <2>2, <2>3 DEF Records
    <3>2. r \in Refs
      BY <2>2, <3>1, EntryFacts DEF Records
    <3>3. CASE r \in DOMAIN m
      BY <2>2, <3>3
    <3>4. CASE r \notin DOMAIN m
      <4>1. i # position + 1
        BY <3>4 DEF m
      <4>2. i \in 1 .. position
        BY <2>3, <4>1
      <4> QED BY <2>1, <2>2, <3>2, <3>4, <4>2 DEF Restored
    <3> QED BY <3>3, <3>4
  <2> QED BY <1>n, <2>1, <2>3, <2>4 DEF Restored
<1>6. CASE RemoveCreated
  <2>1. /\ pc = "undo" /\ position = Len(logs[Newest].moves) /\ pc' = "unlink"
        /\ pose' = pose /\ logs' = logs
    BY <1>6 DEF RemoveCreated, fileVars
  <2>2. logs[Newest] \in Records
    BY <2>1, NewestIs DEF UndoTypes
  <2>3. DOMAIN logs[Newest].moves = 1 .. position
    BY <2>1, <2>2 DEF Records
  <2>4. \A r \in Refs : ~Untouched(r, logs[Newest].moves) => pose[r] = logs[Newest].origin.pose[r]
    BY <2>1, <2>3 DEF Restored, Untouched
  <2>5. copper' \cap logs[Newest].made \subseteq adrift'
    BY <1>6, KeptAdrift
  <2> QED BY <1>n, <2>1, <2>4, <2>5 DEF Restored, Untouched
<1> QED BY <1>1, <1>2, <1>3, <1>4, <1>5, <1>6 DEF Next

-----------------------------------------------------------------------------
(* One log leads to the next.                                              *)

LEMMA ChainedStep ==
  ASSUME Revisits = FALSE, ImprintLogs = "later", UndoTypes, RunNoted, LogsAgree, Restored, Chained,
         [Next]_vars
  PROVE  Chained'
<1>n. logs' = logs => Newest' = Newest
  BY DEF Newest
<1>g. strayed \subseteq strayed' /\ adrift \subseteq adrift'
  BY LooseGrow
\* The logs are as they were, and the board is where the newest leads.
<1>1. ASSUME logs' = logs,
             DOMAIN logs # {} =>
               /\ \A r \in Refs \ strayed' : Untouched(r, logs[Newest].moves) =>
                    Ground'.pose[r] = Ground.pose[r]
               /\ (Ground'.copper \ logs[Newest].made) \ adrift'
                    = (Ground.copper \ logs[Newest].made) \ adrift'
      PROVE  Chained'
  <2>1. DOMAIN logs # {} => LeadsTo(logs[Newest], Ground)'
    <3> SUFFICES ASSUME DOMAIN logs # {} PROVE LeadsTo(logs[Newest], Ground)'
      OBVIOUS
    <3>1. LeadsTo(logs[Newest], Ground)
      BY DEF Chained
    <3>2. \A r \in Refs \ strayed' : Untouched(r, logs[Newest].moves) =>
             Ground'.pose[r] = logs[Newest].origin.pose[r]
      BY <1>1, <1>g, <3>1 DEF LeadsTo
    <3>3. (Ground'.copper \ logs[Newest].made) \ adrift' = logs[Newest].origin.copper \ adrift'
      BY <1>1, <1>g, <3>1 DEF LeadsTo
    <3> QED BY <1>1, <1>n, <3>2, <3>3 DEF LeadsTo, Untouched
  <2>2. \A s, t \in DOMAIN logs : LeadsTo(logs[s], logs[t].origin) => LeadsTo(logs[s], logs[t].origin)'
    BY <1>1, <1>g DEF LeadsTo, Untouched
  <2> QED BY <1>1, <1>n, <2>1, <2>2 DEF Chained
<1>2. CASE UNCHANGED vars
  BY <1>1, <1>2 DEF vars, Ground, Running
<1>3. ASSUME \/ StartRun \/ (\E m \in Moves : ExecuteMoves(m)) \/ CommitMoves \/ StartCopper
             \/ FinishCopper \/ CreateBatch \/ CreateRetried \/ DeleteTorn \/ StartUndo
      PROVE  Chained'
  <2>1. Ground' = Ground
    BY <1>3 DEF StartRun, ExecuteMoves, CommitMoves, StartCopper, FinishCopper, CreateBatch,
                CreateRetried, DeleteTorn, StartUndo, Ground, Running, boardVars
  <2>2. logs' = logs
    BY <1>3 DEF StartRun, ExecuteMoves, CommitMoves, StartCopper, FinishCopper, CreateBatch,
                CreateRetried, DeleteTorn, StartUndo, fileVars
  <2> QED BY <1>1, <2>1, <2>2
\* A pass without a log has put at large whatever it touched.
<1>4. CASE MovesRaise \/ CopperRaises \/ WriteFails \/ WriteDies
  <2>1. Running /\ GoesUnlogged /\ logs' = logs /\ Ground = origin
    BY <1>4, HalfKeeps DEF MovesRaise, CopperRaises, WriteFails, WriteDies, PassEnds, RunEnds,
                           fileVars, Ground, Running
  <2>2. \/ pc' = "idle" /\ Ground' = [pose |-> pose', copper |-> copper']
        \/ Ground' = [pose |-> pose', copper |-> copper']
    BY <1>4 DEF MovesRaise, CopperRaises, WriteFails, WriteDies, PassEnds, RunEnds, boardVars,
                Ground, Running
  <2>3. \A r \in Refs \ strayed' : Untouched(r, moveLog) /\ r \notin DOMAIN moving
    BY <2>1 DEF GoesUnlogged, Visited, Untouched
  <2>4. \A r \in Refs \ strayed' : pose'[r] = pose[r]
    <3>1. CASE MovesRaise
      <4>1. PICK part \in SUBSET DOMAIN moving : pose' = Put([r \in part |-> moving[r]])
        BY <3>1 DEF MovesRaise
      <4> QED BY <2>3, <4>1 DEF Put
    <3>2. CASE CopperRaises \/ WriteFails \/ WriteDies
      BY <3>2 DEF CopperRaises, WriteFails, WriteDies, PassEnds, boardVars
    <3> QED BY <1>4, <3>1, <3>2
  <2>5. \A r \in Refs \ strayed' : Ground'.pose[r] = Ground.pose[r]
    BY <2>1, <2>2, <2>3, <2>4 DEF RunNoted
  <2>6. copper \ made = origin.copper /\ copper \subseteq copper'
    BY <1>4, <2>1 DEF RunNoted, MovesRaise, CopperRaises, WriteFails, WriteDies, PassEnds, boardVars
  <2>7. Ground'.copper \ adrift' = Ground.copper \ adrift'
    BY <2>1, <2>2, <2>6 DEF GoesUnlogged
  <2> QED BY <1>1, <2>1, <2>5, <2>7
<1>5. CASE WriteLog
  <2>1. /\ pc = "write" /\ UNCHANGED <<pose, copper, strayed, adrift>>
        /\ origin' = [pose |-> pose, copper |-> copper]
    BY <1>5 DEF WriteLog, PassEnds, boardVars, looseVars
  <2>2. Ground = origin /\ Ground' = [pose |-> pose, copper |-> copper]
    BY <1>5, <2>1 DEF Ground, Running, WriteLog, PassEnds
  <2>3. /\ \A r \in Refs : Untouched(r, moveLog) => pose[r] = origin.pose[r]
        /\ copper \ made = origin.copper
    BY <2>1, EntryFacts DEF RunNoted, UndoTypes, Running
  <2>4. CASE moveLog = <<>> /\ made = {} /\ UNCHANGED <<logs, clock>>
    <3>1. \A r \in Refs : pose[r] = origin.pose[r]
      BY <2>3, <2>4 DEF Untouched
    <3>2. copper = origin.copper
      BY <2>3, <2>4
    <3> QED BY <1>1, <2>1, <2>2, <2>4, <3>1, <3>2
  <2>5. CASE /\ DOMAIN logs' = DOMAIN logs \cup {clock + 1} /\ clock + 1 \notin DOMAIN logs
             /\ logs'[clock + 1] = LogRecord /\ Newest' = clock + 1
             /\ \A s \in DOMAIN logs : logs'[s] = logs[s] /\ s < clock + 1 /\ s \in Nat
    <3>1. LogRecord.moves = moveLog /\ LogRecord.made = made /\ LogRecord.origin = origin
      BY DEF LogRecord
    <3>2. LeadsTo(logs[Newest], Ground)'
      BY <2>2, <2>3, <2>5, <3>1 DEF LeadsTo
    <3>3. ASSUME NEW s \in DOMAIN logs', NEW t \in DOMAIN logs', s < t,
                 \A u \in DOMAIN logs' : u <= s \/ t <= u
          PROVE  LeadsTo(logs[s], logs[t].origin)'
      <4>1. s \in DOMAIN logs /\ clock \in Nat
        BY <2>5, <3>3 DEF UndoTypes
      <4>2. CASE t \in DOMAIN logs
        <5>1. LeadsTo(logs[s], logs[t].origin)
          BY <2>1, <2>5, <3>3, <4>1, <4>2 DEF Chained
        <5> QED BY <2>1, <2>5, <4>1, <4>2, <5>1 DEF LeadsTo, Untouched
      <4>3. CASE t = clock + 1
        <5>1. s = Newest
          <6>1. Newest \in DOMAIN logs /\ s <= Newest
            BY <4>1, NewestIs
          <6>2. Newest <= s
            BY <2>5, <3>3, <4>3, <6>1
          <6> QED BY <2>5, <4>1, <6>1, <6>2
        <5>2. LeadsTo(logs[s], origin)
          BY <2>1, <2>2, <4>1, <5>1 DEF Chained
        <5> QED BY <2>1, <2>5, <3>1, <4>1, <4>3, <5>2 DEF LeadsTo, Untouched
      <4> QED BY <2>5, <4>2, <4>3
    <3> QED BY <3>2, <3>3 DEF Chained
  <2> QED BY <1>5, <2>4, <2>5, LogWritten
<1>6. CASE RestoreItem
  <2>1. /\ pc = "undo" /\ pc' = "undo" /\ UNCHANGED <<copper, logs>>
    BY <1>6 DEF RestoreItem, fileVars
  <2>2. \A r \in Refs : Untouched(r, logs[Newest].moves) => pose'[r] = pose[r]
    BY <1>6, RestoresItem DEF Untouched
  <2>3. Ground = [pose |-> pose, copper |-> copper] /\ Ground' = [pose |-> pose', copper |-> copper]
    BY <2>1 DEF Ground, Running
  <2> QED BY <1>1, <2>1, <2>2, <2>3
<1>7. CASE RemoveCreated
  <2>1. /\ pc = "undo" /\ pc' = "unlink" /\ UNCHANGED <<pose, logs>>
    BY <1>7 DEF RemoveCreated, fileVars
  <2>2. copper' \subseteq copper /\ copper \ copper' \subseteq logs[Newest].made
    BY <1>7, KeptAdrift
  <2>3. Ground = [pose |-> pose, copper |-> copper] /\ Ground' = [pose |-> pose, copper |-> copper']
    BY <2>1 DEF Ground, Running
  <2> QED BY <1>1, <2>1, <2>2, <2>3
<1>8. CASE UndoDies
  <2>1. /\ pc \in {"undo", "unlink"} /\ pc' = "idle" /\ logs' = logs
    BY <1>8 DEF UndoDies, fileVars
  <2>2. Ground = [pose |-> pose, copper |-> copper] /\ Ground' = [pose |-> pose', copper |-> copper']
    BY <2>1 DEF Ground, Running
  <2>3. /\ \A r \in Refs : Untouched(r, logs[Newest].moves) => pose'[r] = pose[r]
        /\ copper' \ logs[Newest].made = copper \ logs[Newest].made
    BY <1>8, DiesInUndo
  <2> QED BY <1>1, <2>1, <2>2, <2>3
<1>9. CASE Unlink
  <2>1. /\ pc = "unlink" /\ pc' = "idle" /\ UNCHANGED <<pose, copper, strayed, adrift>>
    BY <1>9 DEF Unlink, boardVars, looseVars
  <2>2. Ground = [pose |-> pose, copper |-> copper] /\ Ground' = [pose |-> pose, copper |-> copper]
    BY <2>1 DEF Ground, Running
  <2>3. /\ Newest \in DOMAIN logs /\ DOMAIN logs' = DOMAIN logs \ {Newest}
        /\ \A s \in DOMAIN logs : s \in Nat /\ s <= Newest
        /\ \A s \in DOMAIN logs' : logs'[s] = logs[s]
        /\ DOMAIN logs' # {} => Newest' \in DOMAIN logs' /\ \A s \in DOMAIN logs' : s <= Newest'
    BY <1>9, LogUnlinked
  <2>4. /\ \A r \in Refs \ strayed : pose[r] = logs[Newest].origin.pose[r]
        /\ copper \ adrift = logs[Newest].origin.copper \ adrift
    <3>1. LeadsTo(logs[Newest], Ground)
      BY <2>1, <2>3 DEF Chained
    <3> QED BY <2>1, <2>2, <3>1 DEF Restored, LeadsTo
  <2>5. ASSUME DOMAIN logs' # {} PROVE LeadsTo(logs[Newest], Ground)'
    <3>1. PICK s : s = Newest'
      OBVIOUS
    <3>2. s \in DOMAIN logs /\ s # Newest /\ logs'[s] = logs[s] /\ \A u \in DOMAIN logs' : u <= s
      BY <2>3, <2>5, <3>1
    <3>3. s < Newest /\ \A u \in DOMAIN logs : u <= s \/ Newest <= u
      BY <2>3, <3>2
    <3>4. LeadsTo(logs[s], logs[Newest].origin)
      BY <2>1, <2>3, <3>2, <3>3 DEF Chained
    <3> QED BY <2>1, <2>2, <2>4, <3>1, <3>2, <3>4 DEF LeadsTo, Untouched
  <2>6. ASSUME NEW s \in DOMAIN logs', NEW t \in DOMAIN logs', s < t,
               \A u \in DOMAIN logs' : u <= s \/ t <= u
        PROVE  LeadsTo(logs[s], logs[t].origin)'
    <3>1. s \in DOMAIN logs /\ t \in DOMAIN logs /\ \A u \in DOMAIN logs : u <= s \/ t <= u
      BY <2>3, <2>6
    <3>2. LeadsTo(logs[s], logs[t].origin)
      BY <2>1, <2>6, <3>1 DEF Chained
    <3> QED BY <2>1, <2>3, <2>6, <3>2 DEF LeadsTo, Untouched
  <2> QED BY <2>5, <2>6 DEF Chained
<1> QED BY <1>2, <1>3, <1>4, <1>5, <1>6, <1>7, <1>8, <1>9 DEF Next

LEMMA DrawnStep ==
  ASSUME ImprintLogs = "later", UndoTypes, Restored, DrawnLogged, [Next]_vars
  PROVE  DrawnLogged'
<1> SUFFICES ASSUME NEW u \in copper' \ adrift'
             PROVE  u \in made' \/ \E s \in DOMAIN logs' : u \in logs'[s].made
  BY DEF DrawnLogged
<1>g. u \notin adrift
  BY LooseGrow
<1>1. ASSUME logs' = logs, copper' \ made' \subseteq copper, made \subseteq made'
      PROVE  u \in made' \/ \E s \in DOMAIN logs' : u \in logs'[s].made
  BY <1>1, <1>g DEF DrawnLogged
<1>2. CASE UNCHANGED vars
  BY <1>1, <1>2 DEF vars
<1>3. CASE \/ StartRun \/ (\E m \in Moves : ExecuteMoves(m)) \/ CommitMoves \/ StartCopper
           \/ FinishCopper \/ CreateBatch \/ CreateRetried \/ DeleteTorn \/ StartUndo \/ RestoreItem
  BY <1>1, <1>3 DEF StartRun, ExecuteMoves, CommitMoves, StartCopper, FinishCopper, CreateBatch,
     CreateRetried, DeleteTorn, StartUndo, RestoreItem, fileVars, boardVars, Logged
<1>4. CASE MovesRaise \/ CopperRaises \/ WriteFails \/ WriteDies
  <2>1. GoesUnlogged /\ logs' = logs
    BY <1>4, HalfKeeps DEF MovesRaise, CopperRaises, WriteFails, WriteDies, RunEnds, fileVars
  <2>2. u \in copper /\ u \notin made
    BY <2>1 DEF GoesUnlogged
  <2> QED BY <1>g, <2>1, <2>2 DEF DrawnLogged
<1>5. CASE WriteLog
  <2>1. UNCHANGED copper
    BY <1>5 DEF WriteLog, PassEnds, boardVars
  <2>2. u \in made \/ \E s \in DOMAIN logs : u \in logs[s].made
    BY <1>g, <2>1 DEF DrawnLogged
  <2>3. LogRecord.made = made
    BY DEF LogRecord
  <2> QED BY <1>5, <2>2, <2>3, LogWritten
<1>6. CASE RemoveCreated
  <2>1. UNCHANGED <<logs, made>> /\ copper' \subseteq copper
    BY <1>6, KeptAdrift DEF RemoveCreated, fileVars
  <2> QED BY <1>1, <2>1
<1>7. CASE UndoDies
  <2>1. UNCHANGED <<logs, made>>
    BY <1>7 DEF UndoDies, fileVars
  <2> QED BY <1>1, <1>7, <2>1, DiesInUndo
<1>8. CASE Unlink
  <2>1. pc = "unlink" /\ UNCHANGED <<copper, made>>
    BY <1>8 DEF Unlink, boardVars
  <2>2. u \notin logs[Newest].made
    BY <1>g, <2>1 DEF Restored
  <2>3. u \in made \/ \E s \in DOMAIN logs : u \in logs[s].made
    BY <1>g, <2>1 DEF DrawnLogged
  <2> QED BY <1>8, <2>1, <2>2, <2>3, LogUnlinked
<1> QED BY <1>2, <1>3, <1>4, <1>5, <1>6, <1>7, <1>8 DEF Next

-----------------------------------------------------------------------------

LEMMA UndoStep ==
  ASSUME Revisits = FALSE, ImprintLogs = "later"
  PROVE  UndoInv /\ [Next]_vars => UndoInv'
BY UndoTypesStep, NotedStep, LogsAgreeStep, RestoredStep, ChainedStep, DrawnStep DEF UndoInv

\* With no component moved twice in a pass and the imprints' log a later file of
\* the same directory, the logs and the board fit together.
THEOREM UndoInvariant ==
  ASSUME Revisits = FALSE, ImprintLogs = "later"
  PROVE  Spec => []UndoInv
BY InitUndo, UndoStep, PTL DEF Spec

\* An undo that runs to its end puts back every component its log names, whatever
\* deaths and runs came between; and of the rest of the board all that no pass
\* without a log has touched and no refused deletion has left (docs/commands.md:205).
THEOREM UndoRestoresHolds ==
  ASSUME Revisits = FALSE, ImprintLogs = "later"
  PROVE  Spec => []UndoRestores
<1>1. UndoInv => UndoRestores
  <2> SUFFICES ASSUME UndoInv, pc = "unlink" PROVE UndoRestores
    BY DEF UndoRestores
  <2> DEFINE log == logs[Newest]
  <2>1. UndoTypes /\ Restored /\ Chained
    BY DEF UndoInv
  <2>2. DOMAIN logs # {} /\ log \in Records
    BY <2>1, NewestIs DEF UndoTypes
  <2>3. /\ \A r \in Refs : ~Untouched(r, log.moves) => pose[r] = log.origin.pose[r]
        /\ copper \cap log.made \subseteq adrift
    BY <2>1 DEF Restored
  <2>4. /\ \A r \in Refs \ strayed : Untouched(r, log.moves) => pose[r] = log.origin.pose[r]
        /\ (copper \ log.made) \ adrift = log.origin.copper \ adrift
    BY <2>1, <2>2 DEF Chained, LeadsTo, Ground, Running
  <2> HIDE DEF log
  <2>5. \A i \in DOMAIN log.moves : \A r \in DOMAIN log.moves[i] : pose[r] = log.origin.pose[r]
    <3>1. \A i \in DOMAIN log.moves : log.moves[i] \in Entries
      BY <2>2 DEF Records
    <3> QED BY <2>3, <3>1, EntryFacts DEF Untouched
  <2>6. \A r \in Refs \ strayed : pose[r] = log.origin.pose[r]
    BY <2>3, <2>4
  <2>7. copper \ adrift = log.origin.copper \ adrift
    BY <2>3, <2>4
  <2> QED BY <2>5, <2>6, <2>7 DEF UndoRestores, log
<1> QED BY <1>1, UndoInvariant, PTL

\* Between operations every item the program drew is named by a log, except what
\* a pass without a log drew and what an undo could not delete
\* (operation_logger.py:34-42).
THEOREM AllLoggedHolds ==
  ASSUME Revisits = FALSE, ImprintLogs = "later"
  PROVE  Spec => []AllLogged
<1>1. UndoInv => AllLogged
  BY DEF UndoInv, DrawnLogged, AllLogged, UndoTypes, Running
<1> QED BY <1>1, UndoInvariant, PTL

=============================================================================
