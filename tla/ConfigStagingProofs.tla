------------------------- MODULE ConfigStagingProofs -------------------------
(***************************************************************************)
(* What readers of the config see and what a Save keeps, for any number of *)
(* files, workers, edits, failures and writes of others.                   *)
(***************************************************************************)
EXTENDS ConfigStaging, FiniteSetTheorems, TLAPS

USE DEF diskVars, editVars, Cleared

\* A staged edit the running Save, if any, has still to write.
Pending(f) == staged[f] # None /\ (pc # "write" \/ f \in todo)

\* Every tick of a file's clock was paid for with a content of its own, and a
\* pending edit still holds the content its tick will be paid with.
ClocksBehind ==
  \A f \in Files : mtime[f] <= content /\ (Pending(f) => mtime[f] < content)

\* Only staged files are ever to be written, and only during a Save; what is about to
\* be replaced is one of them, and is newer only if it came so after the look.
TodoStaged ==
  /\ todo \subseteq Dirty /\ (pc # "write" => todo = {})
  /\ text # None => text[1] \in todo /\ (text[1] \in newer => slipped)

TypeInv == TypeOK /\ ClocksBehind /\ TodoStaged

-----------------------------------------------------------------------------
(* Type correctness.                                                       *)

\* What a running load has read so far is a function on some of the files.
LEMMA LoadTyped ==
  ASSUME TypeOK, NEW w \in Workers, load[w] # None
  PROVE  DOMAIN load[w] \subseteq Files /\ load[w] \in [DOMAIN load[w] -> MTimes \X Contents]
<1>1. PICK F \in SUBSET Files : load[w] \in [F -> MTimes \X Contents]
  BY DEF TypeOK, Loads
<1> QED BY <1>1

\* What a reader gets, and what it leaves behind, has its shape.
LEMMA ReadTyped ==
  ASSUME TypeOK
  PROVE  /\ LoadResult \in Graphs
         /\ \A f \in Files : FileRead(f) \in Contents
         /\ \A F : CacheAfter(F) \in [Files -> (MTimes \X Contents) \cup {None}]
<1>1. \A f \in Files : FileRead(f) \in Contents
  BY DEF TypeOK, FileRead, Overlaid, Cached, Graphs
<1>2. LoadResult \in Graphs
  BY <1>1 DEF LoadResult, Hit, TypeOK, Graphs
<1>3. \A F : CacheAfter(F) \in [Files -> (MTimes \X Contents) \cup {None}]
  BY DEF CacheAfter, TypeOK, Graphs
<1> QED BY <1>1, <1>2, <1>3

LEMMA LoadedTyped ==
  ASSUME TypeOK, Loaded
  PROVE  /\ cache' \in [Files -> (MTimes \X Contents) \cup {None}]
         /\ graph' = None \/ graph' \in [found : Graphs, seen : [Files -> MTimes]]
<1>1. cache' \in [Files -> (MTimes \X Contents) \cup {None}]
  BY ReadTyped DEF Loaded, TypeOK
<1>2. graph' = None \/ graph' \in [found : Graphs, seen : [Files -> MTimes]]
  BY ReadTyped DEF Loaded, TypeOK
<1> QED BY <1>1, <1>2

LEMMA InitTypeInv == Init => TypeInv
<1> SUFFICES ASSUME Init PROVE TypeInv
  OBVIOUS
<1> USE StagingAssumption DEF Init, Graphs, Contents, MTimes
<1>1. ClocksBehind /\ TodoStaged
  BY DEF ClocksBehind, TodoStaged, Dirty, Pending
<1>2. needs \in [Files -> SUBSET Files] /\ shares \in [Files -> SUBSET Files]
  OBVIOUS
<1>3. disk \in Graphs /\ validated \in Graphs /\ mtime \in [Files -> MTimes]
  OBVIOUS
<1>4. load \in [Workers -> Loads \cup {None}]
  OBVIOUS
<1>5. /\ staged \in [Files -> Contents \cup {None}]
      /\ latest \in [Files -> Contents \cup {None}]
      /\ cache \in [Files -> (MTimes \X Contents) \cup {None}]
  OBVIOUS
<1>6. newer \subseteq Files /\ todo \subseteq Files /\ backups \subseteq Files \X Contents
  OBVIOUS
<1>7. content \in Contents
  OBVIOUS
<1>8. enabled \in BOOLEAN /\ slipped \in BOOLEAN
  BY Zenon
<1>9. TypeOK
  BY <1>2, <1>3, <1>4, <1>5, <1>6, <1>7, <1>8, Zenon DEF TypeOK
<1> QED BY <1>1, <1>9 DEF TypeInv

\* A step that changes neither the clocks nor what is pending.
LEMMA SameClocks ==
  ASSUME ClocksBehind,
         mtime' = mtime, staged' = staged, pc' = pc, todo' = todo, content' = content
  PROVE  ClocksBehind'
BY DEF ClocksBehind, Pending

LEMMA StepTodoStaged == TypeInv /\ [Next]_vars => TodoStaged'
<1> SUFFICES ASSUME TypeInv, [Next]_vars PROVE TodoStaged'
  OBVIOUS
<1> USE DEF TypeInv, TodoStaged, Dirty, TypeOK
<1>1. CASE UiLoad
  BY <1>1 DEF UiLoad, saveVars
<1>2. CASE Discard
  BY <1>2 DEF Discard, saveVars
<1>3. CASE FlushRefused
  BY <1>3 DEF FlushRefused, saveVars
<1>4. CASE FlushValidate
  BY <1>4 DEF FlushValidate
<1>5. CASE Backup
  BY <1>5 DEF Backup, Writable
<1>6. CASE FlushEnd
  BY <1>6 DEF FlushEnd
<1>7. ASSUME NEW f \in Files, StageWrite(f) PROVE TodoStaged'
  BY <1>7 DEF StageWrite
<1>8. ASSUME NEW f \in Files, ExternalWrite(f) PROVE TodoStaged'
  <2>1. /\ newer' \subseteq newer \cup {f}
        /\ slipped' = (slipped \/ (text # None /\ text[1] = f /\ f \in newer'))
    BY <1>8 DEF ExternalWrite
  <2>2. UNCHANGED <<staged, pc, todo, text>>
    BY <1>8 DEF ExternalWrite
  <2> QED BY <2>1, <2>2
<1>9. ASSUME NEW f \in Files, WriteFile(f) PROVE TodoStaged'
  BY <1>9 DEF WriteFile
<1>10. ASSUME NEW f \in Files, WriteFails(f) PROVE TodoStaged'
  BY <1>10 DEF WriteFails
<1>15. ASSUME NEW f \in Files, PrepareFile(f) PROVE TodoStaged'
  BY <1>15 DEF PrepareFile, RefusesNewer
<1>16. ASSUME NEW w \in Workers, LoadRaises(w) PROVE TodoStaged'
  BY <1>16 DEF LoadRaises, saveVars
<1>11. ASSUME NEW w \in Workers, BeginLoad(w) PROVE TodoStaged'
  BY <1>11 DEF BeginLoad, saveVars
<1>12. ASSUME NEW w \in Workers, StoreGraph(w) PROVE TodoStaged'
  BY <1>12 DEF StoreGraph, saveVars
<1>13. ASSUME NEW w \in Workers, NEW f \in Files, ReadFile(w, f) PROVE TodoStaged'
  BY <1>13 DEF ReadFile, saveVars
<1>14. CASE UNCHANGED vars
  BY <1>14 DEF vars
<1> QED
  BY <1>1, <1>2, <1>3, <1>4, <1>5, <1>6, <1>7, <1>8, <1>9, <1>10, <1>11, <1>12, <1>13,
     <1>14, <1>15, <1>16 DEF Next

LEMMA StepTyped == TypeInv /\ [Next]_vars => TypeOK' /\ ClocksBehind'
<1> DEFINE Kept == TypeOK' /\ ClocksBehind'
<1> SUFFICES ASSUME TypeInv, [Next]_vars PROVE Kept
  OBVIOUS
<1> USE DEF TypeInv
<1>1. CASE UiLoad
  <2>1. ClocksBehind'
    BY <1>1, SameClocks DEF UiLoad, saveVars, boundVars
  <2>2. TypeOK'
    BY <1>1, LoadedTyped DEF UiLoad, saveVars, boundVars, TypeOK, Graphs
  <2> QED BY <2>1, <2>2
<1>2. CASE Discard
  <2>1. ClocksBehind'
    BY <1>2 DEF Discard, ClocksBehind, Pending, saveVars, boundVars
  <2>2. TypeOK'
    BY <1>2 DEF Discard, TypeOK, saveVars, boundVars
  <2> QED BY <2>1, <2>2
<1>3. CASE FlushRefused
  <2>1. ClocksBehind'
    BY <1>3, SameClocks DEF FlushRefused, saveVars, boundVars
  <2>2. cache' \in [Files -> (MTimes \X Contents) \cup {None}]
    BY <1>3, ReadTyped, LoadedTyped DEF FlushRefused
  <2>3. graph' = None \/ graph' \in [found : Graphs, seen : [Files -> MTimes]]
    BY <1>3, LoadedTyped DEF FlushRefused
  <2>4. TypeOK'
    BY <1>3, <2>2, <2>3 DEF FlushRefused, saveVars, boundVars, TypeOK, Graphs
  <2> QED BY <2>1, <2>4
<1>4. CASE FlushValidate
  <2>1. ClocksBehind'
    BY <1>4 DEF FlushValidate, ClocksBehind, Pending, boundVars
  <2>2. latest' \in [Files -> Contents \cup {None}]
    BY <1>4 DEF FlushValidate, TypeOK
  <2>3. TypeOK'
    BY <1>4, <2>2, ReadTyped, LoadedTyped DEF FlushValidate, TypeOK, Graphs, boundVars
  <2> QED BY <2>1, <2>3
<1>5. CASE Backup
  <2> PICK failed \in SUBSET Dirty :
         /\ backups' = backups \cup Copied(failed)
         /\ errors' = failed /\ todo' = Writable(failed)
    BY <1>5 DEF Backup
  <2>1. ClocksBehind'
    BY <1>5 DEF Backup, ClocksBehind, Pending
  <2>2. Dirty \subseteq Files
    BY DEF Dirty
  <2>3. Copied(failed) \subseteq Files \X Contents
    BY <2>2 DEF Copied, TypeOK, Graphs
  <2>4. TypeOK'
    BY <1>5, <2>2, <2>3 DEF Backup, TypeOK, Writable
  <2> QED BY <2>1, <2>4
<1>6. CASE FlushEnd
  <2>1. ClocksBehind'
    BY <1>6 DEF FlushEnd, ClocksBehind, Pending, boundVars
  <2>2. TypeOK'
    BY <1>6 DEF FlushEnd, TypeOK, boundVars
  <2> QED BY <2>1, <2>2
<1>7. ASSUME NEW f \in Files, StageWrite(f) PROVE Kept
  <2>1. content' \in Contents /\ content' = content + 1 /\ content \in Nat
    BY <1>7, StagingAssumption DEF StageWrite, TypeOK, Contents
  <2>2. \A g \in Files : mtime[g] \in Nat
    BY StagingAssumption DEF TypeOK, MTimes, Contents
  <2>3. ClocksBehind'
    BY <1>7, <2>1, <2>2 DEF StageWrite, ClocksBehind
  <2>4. needs' \in [Files -> SUBSET Files]
    BY <1>7 DEF StageWrite, TypeOK, Dirty
  <2>5. shares' \in [Files -> SUBSET Files]
    BY <1>7 DEF StageWrite, TypeOK, Dirty
  <2>6. /\ staged' \in [Files -> Contents \cup {None}]
        /\ latest' \in [Files -> Contents \cup {None}]
    BY <1>7, <2>1 DEF StageWrite, TypeOK
  <2>7. TypeOK'
    BY <1>7, <2>1, <2>4, <2>5, <2>6 DEF StageWrite, TypeOK, GraphEvicted
  <2> QED BY <2>3, <2>7
<1>8. ASSUME NEW f \in Files, ExternalWrite(f) PROVE Kept
  <2>1. content' \in Contents /\ content' = content + 1 /\ content \in Nat
    BY <1>8, StagingAssumption DEF ExternalWrite, TypeOK, Contents
  <2>2. \A g \in Files : mtime[g] \in Nat
    BY StagingAssumption DEF TypeOK, MTimes, Contents
  <2>3. mtime' = [mtime EXCEPT ![f] = mtime[f] + 1] /\ mtime \in [Files -> MTimes]
    BY <1>8 DEF ExternalWrite, TypeOK
  <2>4. \A g \in Files : mtime'[g] <= mtime[g] + 1
    BY <2>2, <2>3
  <2>5. \A g \in Files : Pending(g)' => Pending(g)
    BY <1>8 DEF ExternalWrite, Pending, saveVars
  <2>6. ClocksBehind'
    BY <2>1, <2>2, <2>4, <2>5, <2>3 DEF ClocksBehind
  <2>7. mtime' \in [Files -> MTimes]
    <3>1. \A g \in Files : mtime'[g] = IF g = f THEN mtime[f] + 1 ELSE mtime[g]
      BY <2>3
    <3>2. \A g \in Files : mtime'[g] \in Nat /\ mtime'[g] <= content'
      BY <2>1, <2>2, <3>1 DEF ClocksBehind
    <3>3. \A g \in Files : mtime'[g] \in MTimes
      BY <2>1, <3>2, StagingAssumption DEF MTimes, Contents
    <3> QED BY <2>3, <3>3
  <2>8. TypeOK'
    BY <1>8, <2>1, <2>7 DEF ExternalWrite, TypeOK, Graphs, saveVars
  <2> QED BY <2>6, <2>8
<1>9. ASSUME NEW f \in Files, WriteFile(f) PROVE Kept
  <2>1. content \in Nat /\ \A g \in Files : mtime[g] \in Nat
    BY StagingAssumption DEF TypeOK, MTimes, Contents
  <2>2. PICK t \in {mtime[f], mtime[f] + 1} : mtime' = [mtime EXCEPT ![f] = t]
    BY <1>9 DEF WriteFile, TypeOK
  <2>3. Pending(f) /\ staged[f] \in Contents /\ pc = "write"
    BY <1>9 DEF WriteFile, Pending, TodoStaged, Dirty, TypeOK
  <2>4. mtime[f] < content
    BY <2>3 DEF ClocksBehind
  <2>5. \A g \in Files : mtime'[g] = IF g = f THEN t ELSE mtime[g]
    BY <2>2 DEF TypeOK
  <2>6. \A g \in Files : Pending(g)' => Pending(g) /\ g # f
    BY <1>9, <2>3 DEF WriteFile, Pending
  <2>7. ClocksBehind'
    <3> SUFFICES ASSUME NEW g \in Files
                 PROVE  mtime'[g] <= content /\ (Pending(g)' => mtime'[g] < content)
      BY <1>9 DEF WriteFile, ClocksBehind, boundVars
    <3>1. CASE g = f
      BY <2>1, <2>4, <2>5, <2>6, <3>1
    <3>2. CASE g # f
      BY <2>5, <2>6, <3>2 DEF ClocksBehind
    <3> QED BY <3>1, <3>2
  <2>8. mtime' \in [Files -> MTimes]
    BY <2>1, <2>2, <2>4, StagingAssumption DEF TypeOK, MTimes, Contents
  <2>9. TypeOK'
    BY <1>9, <2>3, <2>8 DEF WriteFile, TypeOK, Graphs, GraphEvicted, CacheDropped, boundVars
  <2> QED BY <2>7, <2>9
<1>10. ASSUME NEW f \in Files, WriteFails(f) PROVE Kept
  <2>1. ClocksBehind'
    BY <1>10 DEF WriteFails, ClocksBehind, Pending
  <2>2. cache' \in [Files -> (MTimes \X Contents) \cup {None}]
    BY <1>10, ReadTyped DEF WriteFails, Indexed, TypeOK
  <2>3. upset' \subseteq {"load", "discard", "failure", "stamp", "overlap"}
    BY <1>10 DEF WriteFails, TypeOK
  <2>4. TypeOK'
    BY <1>10, <2>2, <2>3 DEF WriteFails, TypeOK, Reported
  <2> QED BY <2>1, <2>4
<1>15. ASSUME NEW f \in Files, PrepareFile(f) PROVE Kept
  <2>1. ClocksBehind'
    BY <1>15, SameClocks DEF PrepareFile
  <2>2. cache' \in [Files -> (MTimes \X Contents) \cup {None}]
    BY <1>15, ReadTyped DEF PrepareFile, Indexed, TypeOK
  <2>3. text' \in Files \X SUBSET Files
    BY <1>15 DEF PrepareFile, Unwritten, TypeOK
  <2>4. TypeOK'
    BY <1>15, <2>2, <2>3 DEF PrepareFile, TypeOK
  <2> QED BY <2>1, <2>4
<1>16. ASSUME NEW w \in Workers, LoadRaises(w) PROVE Kept
  <2>1. ClocksBehind'
    BY <1>16, SameClocks DEF LoadRaises, saveVars, boundVars
  <2>2. load' \in [Workers -> Loads \cup {None}]
    BY <1>16 DEF LoadRaises, TypeOK
  <2>3. TypeOK'
    BY <1>16, <2>2 DEF LoadRaises, TypeOK, saveVars, boundVars, Graphs, Loads, MTimes, Contents
  <2> QED BY <2>1, <2>3
<1>11. ASSUME NEW w \in Workers, BeginLoad(w) PROVE Kept
  <2>1. ClocksBehind'
    BY <1>11, SameClocks DEF BeginLoad, saveVars, boundVars
  <2>2. [f \in {} |-> <<>>] \in [{} -> MTimes \X Contents]
    OBVIOUS
  <2>3. [f \in {} |-> <<>>] \in Loads
    BY <2>2 DEF Loads
  <2>4. load' \in [Workers -> Loads \cup {None}]
    BY <1>11, <2>3 DEF BeginLoad, TypeOK
  <2>5. TypeOK'
    BY <1>11, <2>4 DEF BeginLoad, TypeOK, saveVars, boundVars, Graphs, Loads, MTimes, Contents
  <2> QED BY <2>1, <2>5
<1>12. ASSUME NEW w \in Workers, StoreGraph(w) PROVE Kept
  <2>1. ClocksBehind'
    BY <1>12, SameClocks DEF StoreGraph, saveVars, boundVars
  <2>2. load[w] \in [Files -> MTimes \X Contents]
    BY <1>12, LoadTyped DEF StoreGraph
  <2>3. graph' \in [found : Graphs, seen : [Files -> MTimes]]
    BY <1>12, <2>2 DEF StoreGraph, Graphs
  <2>4. TypeOK'
    BY <1>12, <2>3 DEF StoreGraph, TypeOK, saveVars, boundVars, Loads, Graphs, MTimes, Contents
  <2> QED BY <2>1, <2>4
<1>13. ASSUME NEW w \in Workers, NEW f \in Files, ReadFile(w, f) PROVE Kept
  <2>1. ClocksBehind'
    BY <1>13, SameClocks DEF ReadFile, saveVars, boundVars
  <2> DEFINE F == DOMAIN load[w]
             more == [g \in F \cup {f} |->
                        IF g = f THEN <<mtime[f], FileRead(f)>> ELSE load[w][g]]
  <2>2. F \subseteq Files /\ load[w] \in [F -> MTimes \X Contents]
    BY <1>13, LoadTyped DEF ReadFile
  <2>3. <<mtime[f], FileRead(f)>> \in MTimes \X Contents
    BY ReadTyped DEF TypeOK
  <2>4. more \in [F \cup {f} -> MTimes \X Contents]
    BY <2>2, <2>3
  <2>5. more \in Loads
    BY <2>2, <2>4, ZenonT(60) DEF Loads
  <2>6. load' = [load EXCEPT ![w] = more]
    BY <1>13 DEF ReadFile
  <2>7. load' \in [Workers -> Loads \cup {None}]
    BY <2>5, <2>6 DEF TypeOK
  <2>8. cache' \in [Files -> (MTimes \X Contents) \cup {None}]
    BY <1>13, ReadTyped DEF ReadFile
  <2>9. TypeOK'
    BY <1>13, <2>7, <2>8 DEF ReadFile, TypeOK, saveVars, boundVars, Graphs, Loads, MTimes, Contents
  <2> QED BY <2>1, <2>9
<1>14. CASE UNCHANGED vars
  BY <1>14 DEF vars, TypeOK, ClocksBehind, Pending, Graphs
<1> QED
  BY <1>1, <1>2, <1>3, <1>4, <1>5, <1>6, <1>7, <1>8, <1>9, <1>10, <1>11, <1>12, <1>13,
     <1>14, <1>15, <1>16 DEF Next

LEMMA TypeInvHolds == Spec => []TypeInv
<1>1. TypeInv /\ [Next]_vars => TypeInv'
  BY StepTyped, StepTodoStaged DEF TypeInv
<1> QED BY InitTypeInv, <1>1, PTL DEF Spec

\* Every variable keeps its shape, and no clock runs past the contents.
THEOREM TypeCorrect == Spec => []TypeOK
<1>1. TypeInv => TypeOK
  BY DEF TypeInv
<1> QED BY <1>1, TypeInvHolds, PTL

-----------------------------------------------------------------------------
(* No file is read stale.                                                  *)

\* A cached file is of an earlier tick of its clock, or what the disk holds.
CachesFresh ==
  \A f \in Files : cache[f] # None =>
    /\ cache[f][1] <= mtime[f]
    /\ cache[f][1] = mtime[f] => cache[f][2] = disk[f]

\* A read leaves what it has just found on the disk, or what was there.
LEMMA ReadKeepsFresh ==
  ASSUME TypeOK, CachesFresh, NEW F, cache' \in {cache, CacheAfter(F)},
         mtime' = mtime, disk' = disk
  PROVE  CachesFresh'
<1> SUFFICES ASSUME NEW f \in Files, cache'[f] # None
             PROVE  /\ cache'[f][1] <= mtime[f]
                    /\ cache'[f][1] = mtime[f] => cache'[f][2] = disk[f]
  BY DEF CachesFresh
<1>1. CASE cache'[f] = cache[f]
  BY <1>1 DEF CachesFresh
<1>2. CASE cache'[f] # cache[f]
  <2>1. cache'[f] = <<mtime[f], disk[f]>>
    BY <1>2 DEF CacheAfter
  <2>2. mtime[f] \in Nat
    BY StagingAssumption DEF TypeOK, MTimes, Contents
  <2> QED BY <2>1, <2>2
<1> QED BY <1>1, <1>2

LEMMA StepCachesFresh == TypeInv /\ CachesFresh /\ [Next]_vars => CachesFresh'
<1> SUFFICES ASSUME TypeInv, CachesFresh, [Next]_vars PROVE CachesFresh'
  OBVIOUS
<1> USE DEF TypeInv
<1>1. CASE UiLoad
  BY <1>1, ReadKeepsFresh DEF UiLoad, Loaded
<1>2. CASE Discard
  BY <1>2 DEF Discard, CachesFresh
<1>3. CASE FlushRefused
  BY <1>3, ReadKeepsFresh DEF FlushRefused, Loaded
<1>4. CASE FlushValidate
  BY <1>4, ReadKeepsFresh DEF FlushValidate, Loaded
<1>5. CASE Backup
  BY <1>5 DEF Backup, CachesFresh
<1>6. CASE FlushEnd
  BY <1>6 DEF FlushEnd, CachesFresh
<1>7. ASSUME NEW f \in Files, StageWrite(f) PROVE CachesFresh'
  BY <1>7 DEF StageWrite, CachesFresh
<1>8. ASSUME NEW f \in Files, ExternalWrite(f) PROVE CachesFresh'
  <2> SUFFICES ASSUME NEW g \in Files, cache[g] # None
               PROVE  /\ cache[g][1] <= mtime'[g]
                      /\ cache[g][1] = mtime'[g] => cache[g][2] = disk'[g]
    BY <1>8 DEF ExternalWrite, CachesFresh
  <2>1. mtime[g] \in Nat /\ cache[g][1] \in Nat /\ cache[g][1] <= mtime[g]
    BY StagingAssumption DEF TypeOK, MTimes, Contents, CachesFresh
  <2>2. CASE g = f
    BY <1>8, <2>1, <2>2 DEF ExternalWrite, TypeOK
  <2>3. CASE g # f
    BY <1>8, <2>3 DEF ExternalWrite, CachesFresh, TypeOK, Graphs
  <2> QED BY <2>2, <2>3
<1>9. ASSUME NEW f \in Files, WriteFile(f) PROVE CachesFresh'
  <2> SUFFICES ASSUME NEW g \in Files, cache'[g] # None
               PROVE  /\ cache'[g][1] <= mtime'[g]
                      /\ cache'[g][1] = mtime'[g] => cache'[g][2] = disk'[g]
    BY DEF CachesFresh
  <2>1. g # f /\ cache'[g] = cache[g]
    BY <1>9 DEF WriteFile, CacheDropped, TypeOK
  <2>2. mtime'[g] = mtime[g] /\ disk'[g] = disk[g]
    BY <1>9, <2>1 DEF WriteFile, TypeOK, Graphs
  <2> QED BY <2>1, <2>2 DEF CachesFresh
<1>10. ASSUME NEW f \in Files, WriteFails(f) PROVE CachesFresh'
  BY <1>10, ReadKeepsFresh DEF WriteFails, Indexed
<1>15. ASSUME NEW f \in Files, PrepareFile(f) PROVE CachesFresh'
  BY <1>15, ReadKeepsFresh DEF PrepareFile, Indexed
<1>16. ASSUME NEW w \in Workers, LoadRaises(w) PROVE CachesFresh'
  BY <1>16 DEF LoadRaises, CachesFresh
<1>11. ASSUME NEW w \in Workers, BeginLoad(w) PROVE CachesFresh'
  BY <1>11 DEF BeginLoad, CachesFresh
<1>12. ASSUME NEW w \in Workers, StoreGraph(w) PROVE CachesFresh'
  BY <1>12 DEF StoreGraph, CachesFresh
<1>13. ASSUME NEW w \in Workers, NEW f \in Files, ReadFile(w, f) PROVE CachesFresh'
  BY <1>13, ReadKeepsFresh DEF ReadFile
<1>14. CASE UNCHANGED vars
  BY <1>14 DEF vars, CachesFresh
<1> QED
  BY <1>1, <1>2, <1>3, <1>4, <1>5, <1>6, <1>7, <1>8, <1>9, <1>10, <1>11, <1>12, <1>13,
     <1>14, <1>15, <1>16 DEF Next

\* A file read alone is never stale, whatever is staged, discarded, written or
\* replaced by others, several times within one tick of the file clock too.
THEOREM FileReadsCurrentHolds == Spec => []FileReadsCurrent
<1>1. Init => CachesFresh
  BY DEF Init, CachesFresh
<1>2. Spec => []CachesFresh
  BY <1>1, StepCachesFresh, TypeInvHolds, PTL DEF Spec
<1>3. CachesFresh => FileReadsCurrent
  BY DEF CachesFresh, FileReadsCurrent, FileRead, Cached
<1> QED BY <1>2, <1>3, PTL

-----------------------------------------------------------------------------
(* No edit is dropped in silence.                                          *)

\* What the user meant is what is still to be written; what is not to be
\* written any more is on the disk, given up, or reported.
EditsAccounted ==
  /\ pc = "backup" => errors = {}
  /\ pc = "idle" => errors \cap Dirty = {}
  /\ \A f \in Files : Pending(f) => latest[f] = staged[f]
  /\ \A f \in Files : ~Pending(f) /\ f \notin errors => latest[f] \in {None, disk[f]}

LEMMA StepEditsAccounted == TypeInv /\ EditsAccounted /\ [Next]_vars => EditsAccounted'
<1> SUFFICES ASSUME TypeInv, EditsAccounted, [Next]_vars PROVE EditsAccounted'
  OBVIOUS
<1> USE DEF TypeInv, EditsAccounted, Pending, Dirty
<1>1. CASE UiLoad
  BY <1>1 DEF UiLoad, saveVars
<1>2. CASE Discard
  BY <1>2 DEF Discard, saveVars
<1>3. CASE FlushRefused
  BY <1>3 DEF FlushRefused, saveVars
<1>4. CASE FlushValidate
  BY <1>4 DEF FlushValidate
<1>5. CASE Backup
  BY <1>5 DEF Backup, Writable
<1>6. CASE FlushEnd
  BY <1>6 DEF FlushEnd
<1>7. ASSUME NEW f \in Files, StageWrite(f) PROVE EditsAccounted'
  BY <1>7 DEF StageWrite, TypeOK
<1>8. ASSUME NEW f \in Files, ExternalWrite(f) PROVE EditsAccounted'
  BY <1>8 DEF ExternalWrite, TypeOK, Graphs, saveVars
<1>9. ASSUME NEW f \in Files, WriteFile(f) PROVE EditsAccounted'
  BY <1>9 DEF WriteFile, TypeOK, TodoStaged, Graphs
<1>10. ASSUME NEW f \in Files, WriteFails(f) PROVE EditsAccounted'
  BY <1>10 DEF WriteFails, Reported
<1>15. ASSUME NEW f \in Files, PrepareFile(f) PROVE EditsAccounted'
  BY <1>15 DEF PrepareFile
<1>16. ASSUME NEW w \in Workers, LoadRaises(w) PROVE EditsAccounted'
  BY <1>16 DEF LoadRaises, saveVars
<1>11. ASSUME NEW w \in Workers, BeginLoad(w) PROVE EditsAccounted'
  BY <1>11 DEF BeginLoad, saveVars
<1>12. ASSUME NEW w \in Workers, StoreGraph(w) PROVE EditsAccounted'
  BY <1>12 DEF StoreGraph, saveVars
<1>13. ASSUME NEW w \in Workers, NEW f \in Files, ReadFile(w, f) PROVE EditsAccounted'
  BY <1>13 DEF ReadFile, saveVars
<1>14. CASE UNCHANGED vars
  BY <1>14 DEF vars
<1> QED
  BY <1>1, <1>2, <1>3, <1>4, <1>5, <1>6, <1>7, <1>8, <1>9, <1>10, <1>11, <1>12, <1>13,
     <1>14, <1>15, <1>16 DEF Next

\* An edit nobody discarded is staged, on the disk, or reported by the Save that
\* dropped it, whatever copies and writes fail and whatever others deliver.
THEOREM LossReportedHolds == Spec => []LossReported
<1>1. Init => EditsAccounted
  BY DEF Init, EditsAccounted, Pending, Dirty
<1>2. Spec => []EditsAccounted
  BY <1>1, StepEditsAccounted, TypeInvHolds, PTL DEF Spec
<1>3. EditsAccounted => LossReported
  BY DEF EditsAccounted, LossReported, Pending
<1> QED BY <1>2, <1>3, PTL

-----------------------------------------------------------------------------
(* What the whole program sees, as long as nothing comes in between.       *)

\* As long as nothing comes in between, no worker's load is under way; the
\* cached graph is of older clocks, or what the user is working on; a Save
\* that has written a file has left no graph, and what it has still to write makes
\* with the disk what it has validated; no folder has two identities.
GraphInv ==
  /\ enabled <=> pc # "write"
  /\ \A w \in Workers : load[w] = None
  /\ pc # "idle" => Dirty # {} /\ Dirty \cap newer = {}
  /\ graph # None => \A f \in Files : graph.seen[f] <= mtime[f]
  /\ pc # "write" /\ Hit => graph.found = Current
  /\ pc = "write" /\ todo # Dirty => graph = None
  /\ pc # "idle" => \A f \in Files : validated[f] = IF Pending(f) THEN staged[f] ELSE disk[f]
  /\ doubled = {} /\ (text # None => text[2] = {})

Undisturbed == upset = {} => GraphInv

\* Whatever the caches hold, a load answers with what the user works on.
LEMMA LoadIsCurrent ==
  ASSUME TypeInv, CachesFresh, GraphInv, pc # "write"
  PROVE  LoadResult = Current
<1>1. CASE Hit
  BY <1>1 DEF LoadResult, GraphInv
<1>2. CASE ~Hit
  <2>1. \A f \in Files : FileRead(f) = IF staged[f] # None THEN staged[f] ELSE disk[f]
    BY DEF FileRead, Overlaid, Cached, CachesFresh, GraphInv
  <2> QED BY <1>2, <2>1 DEF LoadResult, Current
<1> QED BY <1>1, <1>2

\* ... and leaves a graph that says so.
LEMMA LoadedKeepsGraph ==
  ASSUME TypeInv, CachesFresh, GraphInv, pc # "write", Loaded,
         mtime' = mtime, staged' = staged, disk' = disk
  PROVE  /\ graph' # None => \A f \in Files : graph'.seen[f] <= mtime'[f]
         /\ Hit' => graph'.found = Current'
<1>1. Current' = Current
  BY DEF Current
<1>2. CASE Hit
  <2>1. graph' = graph
    BY <1>2 DEF Loaded
  <2> QED BY <1>1, <1>2, <2>1 DEF GraphInv
<1>3. CASE ~Hit
  <2>1. graph' = [found |-> LoadResult, seen |-> mtime]
    BY <1>3 DEF Loaded
  <2>2. \A f \in Files : mtime[f] <= mtime[f]
    BY StagingAssumption DEF TypeInv, TypeOK, MTimes, Contents
  <2> QED BY <1>1, <2>1, <2>2, LoadIsCurrent
<1> QED BY <1>2, <1>3

\* What came in between is not forgotten.
LEMMA UpsetStays == [Next]_vars => upset \subseteq upset'
BY DEF Next, vars, boundVars, UiLoad, Discard, FlushRefused, FlushValidate, Backup, FlushEnd,
       StageWrite, ExternalWrite, PrepareFile, WriteFile, WriteFails, BeginLoad, LoadRaises,
       StoreGraph, ReadFile

LEMMA StepGraphInv == TypeInv /\ CachesFresh /\ Undisturbed /\ [Next]_vars => Undisturbed'
<1> SUFFICES ASSUME TypeInv, CachesFresh, [Next]_vars, upset = {}, upset' = {}, GraphInv
             PROVE  GraphInv'
  BY UpsetStays DEF Undisturbed
<1>1. CASE UiLoad
  <2>1. /\ graph' # None => \A f \in Files : graph'.seen[f] <= mtime'[f]
        /\ Hit' => graph'.found = Current'
    BY <1>1, LoadedKeepsGraph DEF UiLoad
  <2> QED BY <1>1, <2>1 DEF UiLoad, GraphInv, Dirty, saveVars, boundVars
<1>2. CASE Discard
  BY <1>2 DEF Discard
<1>3. CASE FlushRefused
  <2>1. /\ graph' # None => \A f \in Files : graph'.seen[f] <= mtime'[f]
        /\ Hit' => graph'.found = Current'
    BY <1>3, LoadedKeepsGraph DEF FlushRefused, Hit
  <2> QED BY <1>3, <2>1 DEF FlushRefused, GraphInv, Dirty, saveVars, boundVars
<1>4. CASE FlushValidate
  <2>1. /\ graph' # None => \A f \in Files : graph'.seen[f] <= mtime'[f]
        /\ Hit' => graph'.found = Current'
    BY <1>4, LoadedKeepsGraph DEF FlushValidate
  <2>2. \A f \in Files : validated'[f] = IF Pending(f)' THEN staged[f] ELSE disk[f]
    BY <1>4, LoadIsCurrent DEF FlushValidate, Current, Pending
  <2> QED BY <1>4, <2>1, <2>2 DEF FlushValidate, GraphInv, Dirty, boundVars
<1>5. CASE Backup
  <2> PICK failed \in SUBSET Dirty :
         /\ todo' = Writable(failed)
         /\ upset' = IF failed = {} THEN upset ELSE upset \cup {"failure"}
    BY <1>5 DEF Backup
  <2>1. todo' = Dirty
    BY DEF Writable
  <2> QED BY <1>5, <2>1 DEF Backup, GraphInv, Dirty, Hit, Pending
<1>6. CASE FlushEnd
  <2>1. graph' = None
    BY <1>6 DEF FlushEnd, GraphInv
  <2> QED BY <1>6, <2>1 DEF FlushEnd, GraphInv, Hit, boundVars
<1>7. ASSUME NEW f \in Files, StageWrite(f) PROVE GraphInv'
  BY <1>7 DEF StageWrite, GraphInv, GraphEvicted, Hit
<1>8. ASSUME NEW f \in Files, ExternalWrite(f) PROVE GraphInv'
  <2>1. pc = "idle" /\ pc' = "idle"
    BY <1>8 DEF ExternalWrite, saveVars
  <2>2. mtime[f] \in Nat /\ \A g \in Files : mtime[g] \in Nat
    BY StagingAssumption DEF TypeInv, TypeOK, MTimes, Contents
  <2>3. mtime' = [mtime EXCEPT ![f] = mtime[f] + 1] /\ mtime'[f] = mtime[f] + 1
    BY <1>8 DEF ExternalWrite, TypeInv, TypeOK
  <2>4. graph' # None => \A g \in Files : graph'.seen[g] <= mtime'[g]
    <3> SUFFICES ASSUME graph # None, NEW g \in Files PROVE graph.seen[g] <= mtime'[g]
      BY <1>8 DEF ExternalWrite
    <3>1. graph.seen[g] <= mtime[g] /\ graph.seen[g] \in Nat
      BY StagingAssumption DEF GraphInv, TypeInv, TypeOK, MTimes, Contents
    <3>2. mtime'[g] = IF g = f THEN mtime[f] + 1 ELSE mtime[g]
      BY <2>3 DEF TypeInv, TypeOK
    <3> QED BY <2>2, <3>1, <3>2
  <2>5. ~Hit'
    <3> SUFFICES ASSUME graph # None, graph.seen = mtime' PROVE FALSE
      BY <1>8 DEF ExternalWrite, Hit
    <3>1. graph.seen[f] <= mtime[f] /\ graph.seen[f] \in Nat
      BY StagingAssumption DEF GraphInv, TypeInv, TypeOK, MTimes, Contents
    <3> QED BY <2>2, <2>3, <3>1
  <2> QED BY <1>8, <2>1, <2>4, <2>5 DEF ExternalWrite, GraphInv
<1>9. ASSUME NEW f \in Files, WriteFile(f) PROVE GraphInv'
  <2>1. Dirty' = Dirty /\ newer' \subseteq newer /\ graph' = None
    BY <1>9 DEF WriteFile, Dirty, GraphEvicted
  <2>2. pc = "write" /\ f \in todo /\ f \in Dirty
    BY <1>9 DEF WriteFile, TypeInv, TodoStaged
  <2>3. \A g \in Files : validated'[g] = IF Pending(g)' THEN staged'[g] ELSE disk'[g]
    BY <1>9, <2>2 DEF WriteFile, GraphInv, Pending, TypeInv, TypeOK, Graphs, Dirty
  <2>4. doubled' = {} /\ text' = None
    BY <1>9 DEF WriteFile, GraphInv
  <2> QED BY <1>9, <2>1, <2>2, <2>3, <2>4 DEF WriteFile, GraphInv, Hit, boundVars
<1>10. ASSUME NEW f \in Files, WriteFails(f) PROVE GraphInv'
  BY <1>10 DEF WriteFails
<1>13. ASSUME NEW f \in Files, PrepareFile(f) PROVE GraphInv'
  <2>1. Unwritten(shares[f]) = {} /\ text' = <<f, {}>>
    BY <1>13 DEF PrepareFile
  <2> QED BY <1>13, <2>1 DEF PrepareFile, GraphInv, Dirty, Hit, Current, Pending
<1>11. CASE \E w \in Workers : \/ BeginLoad(w) \/ LoadRaises(w) \/ StoreGraph(w)
                              \/ \E f \in Files : ReadFile(w, f)
  BY <1>11 DEF BeginLoad, LoadRaises, StoreGraph, ReadFile, GraphInv
<1>12. CASE UNCHANGED vars
  BY <1>12 DEF vars, GraphInv, Dirty, Hit, Current, Pending
<1> QED
  BY <1>1, <1>2, <1>3, <1>4, <1>5, <1>6, <1>7, <1>8, <1>9, <1>10, <1>11, <1>12, <1>13
  DEF Next

LEMMA GraphInvHolds == Spec => [](TypeInv /\ CachesFresh /\ Undisturbed)
<1>1. Init => CachesFresh /\ GraphInv
  BY DEF Init, CachesFresh, GraphInv, Dirty, Hit
<1>2. Spec => []CachesFresh
  BY <1>1, StepCachesFresh, TypeInvHolds, PTL DEF Spec
<1>3. Init => Undisturbed
  BY <1>1 DEF Undisturbed
<1> QED BY <1>2, <1>3, StepGraphInv, TypeInvHolds, PTL DEF Spec

\* As long as nothing comes in between, whoever loads the config gets what the
\* user is working on.
THEOREM LoadsCurrentHolds == Spec => []LoadsCurrentUndisturbed
<1>1. TypeInv /\ CachesFresh /\ Undisturbed => LoadsCurrentUndisturbed
  BY LoadIsCurrent DEF Undisturbed, LoadsCurrentUndisturbed, LoadsCurrent
<1> QED BY <1>1, GraphInvHolds, PTL

\* ... and the disk and what a Save has still to write are what it has validated.
THEOREM ValidatedIsWrittenHolds == Spec => []ValidatedIsWrittenUndisturbed
<1>1. TypeInv /\ Undisturbed => ValidatedIsWrittenUndisturbed
  BY DEF Undisturbed, ValidatedIsWrittenUndisturbed, ValidatedIsWritten, GraphInv, TypeInv,
         TodoStaged, Pending, Dirty
<1> QED BY <1>1, GraphInvHolds, PTL

-----------------------------------------------------------------------------
(* Nothing is overwritten without a copy, whatever fails or is read.       *)

CopiesTaken ==
  pc = "write" /\ "overlap" \notin upset => \A f \in todo : <<f, disk[f]>> \in backups

LEMMA StepCopiesTaken == TypeInv /\ CopiesTaken /\ [Next]_vars => CopiesTaken'
<1> SUFFICES ASSUME TypeInv, CopiesTaken, [Next]_vars PROVE CopiesTaken'
  OBVIOUS
<1> USE DEF CopiesTaken
<1>1. CASE UiLoad
  BY <1>1 DEF UiLoad, saveVars, boundVars
<1>2. CASE Discard
  BY <1>2 DEF Discard, saveVars
<1>3. CASE FlushRefused
  BY <1>3 DEF FlushRefused, saveVars, boundVars
<1>4. CASE FlushValidate
  BY <1>4 DEF FlushValidate
<1>5. CASE Backup
  BY <1>5 DEF Backup, Writable, Copied
<1>6. CASE FlushEnd
  BY <1>6 DEF FlushEnd, boundVars
<1>7. ASSUME NEW f \in Files, StageWrite(f) PROVE CopiesTaken'
  BY <1>7 DEF StageWrite
<1>8. ASSUME NEW f \in Files, ExternalWrite(f) PROVE CopiesTaken'
  BY <1>8 DEF ExternalWrite, saveVars
<1>9. ASSUME NEW f \in Files, WriteFile(f) PROVE CopiesTaken'
  BY <1>9 DEF WriteFile, TypeInv, TypeOK, Graphs, boundVars
<1>10. ASSUME NEW f \in Files, WriteFails(f) PROVE CopiesTaken'
  BY <1>10 DEF WriteFails
<1>15. ASSUME NEW f \in Files, PrepareFile(f) PROVE CopiesTaken'
  BY <1>15 DEF PrepareFile
<1>16. ASSUME NEW w \in Workers, LoadRaises(w) PROVE CopiesTaken'
  BY <1>16 DEF LoadRaises, saveVars, boundVars
<1>11. ASSUME NEW w \in Workers, BeginLoad(w) PROVE CopiesTaken'
  BY <1>11 DEF BeginLoad, saveVars
<1>12. ASSUME NEW w \in Workers, StoreGraph(w) PROVE CopiesTaken'
  BY <1>12 DEF StoreGraph, saveVars, boundVars
<1>13. ASSUME NEW w \in Workers, NEW f \in Files, ReadFile(w, f) PROVE CopiesTaken'
  BY <1>13 DEF ReadFile, saveVars, boundVars
<1>14. CASE UNCHANGED vars
  BY <1>14 DEF vars
<1> QED
  BY <1>1, <1>2, <1>3, <1>4, <1>5, <1>6, <1>7, <1>8, <1>9, <1>10, <1>11, <1>12, <1>13,
     <1>14, <1>15, <1>16 DEF Next

\* What a Save overwrites has a copy, as long as nobody else has written
\* while a Save was running.
THEOREM PreviousKeptHolds == Spec => PreviousKeptUndisturbed
<1> DEFINE Kept == \A f \in todo \ todo' :
                     disk'[f] # disk[f] /\ "overlap" \notin upset
                       => <<f, disk[f]>> \in backups
<1>1. Init => CopiesTaken
  BY DEF Init, CopiesTaken
<1>2. Spec => [](TypeInv /\ CopiesTaken)
  BY <1>1, StepCopiesTaken, TypeInvHolds, PTL DEF Spec
<1>3. TypeInv /\ CopiesTaken /\ [Next]_vars => Kept
  <2> SUFFICES ASSUME TypeInv, CopiesTaken, [Next]_vars,
                      NEW f \in todo \ todo', disk'[f] # disk[f], "overlap" \notin upset
               PROVE  <<f, disk[f]>> \in backups
    OBVIOUS
  <2>1. pc = "write"
    BY DEF TypeInv, TodoStaged
  <2> QED BY <2>1 DEF CopiesTaken
<1> QED BY <1>2, <1>3, PTL DEF Spec, PreviousKeptUndisturbed

\* No step but a write and a failed write takes a file off the list, and of
\* these only the write changes the disk: a file it takes off is not newer, unless it
\* slipped in.
LEMMA StepNewerKept ==
  ASSUME TypeInv, [Next]_vars, NEW f \in newer, f \in todo \ todo', ~slipped
  PROVE  disk'[f] = disk[f]
<1> USE DEF TypeInv, TodoStaged
<1>1. CASE UiLoad
  BY <1>1 DEF UiLoad
<1>2. CASE Discard
  BY <1>2 DEF Discard
<1>3. CASE FlushRefused
  BY <1>3 DEF FlushRefused
<1>4. CASE FlushValidate
  BY <1>4 DEF FlushValidate
<1>5. CASE Backup
  BY <1>5 DEF Backup
<1>6. CASE FlushEnd
  BY <1>6 DEF FlushEnd
<1>7. ASSUME NEW g \in Files, StageWrite(g) PROVE disk'[f] = disk[f]
  BY <1>7 DEF StageWrite
<1>8. ASSUME NEW g \in Files, ExternalWrite(g) PROVE disk'[f] = disk[f]
  BY <1>8 DEF ExternalWrite, saveVars
<1>9. ASSUME NEW g \in Files, WriteFile(g) PROVE disk'[f] = disk[f]
  <2>1. g # f
    BY <1>9 DEF WriteFile
  <2>2. disk \in [Files -> Contents]
    BY DEF TypeOK, Graphs
  <2> QED BY <1>9, <2>1, <2>2 DEF WriteFile
<1>10. ASSUME NEW g \in Files, WriteFails(g) PROVE disk'[f] = disk[f]
  BY <1>10 DEF WriteFails
<1>15. ASSUME NEW g \in Files, PrepareFile(g) PROVE disk'[f] = disk[f]
  BY <1>15 DEF PrepareFile
<1>16. ASSUME NEW w \in Workers, LoadRaises(w) PROVE disk'[f] = disk[f]
  BY <1>16 DEF LoadRaises
<1>11. ASSUME NEW w \in Workers, BeginLoad(w) PROVE disk'[f] = disk[f]
  BY <1>11 DEF BeginLoad
<1>12. ASSUME NEW w \in Workers, StoreGraph(w) PROVE disk'[f] = disk[f]
  BY <1>12 DEF StoreGraph
<1>13. ASSUME NEW w \in Workers, NEW g \in Files, ReadFile(w, g) PROVE disk'[f] = disk[f]
  BY <1>13 DEF ReadFile
<1>14. CASE UNCHANGED vars
  BY <1>14 DEF vars
<1> QED
  BY <1>1, <1>2, <1>3, <1>4, <1>5, <1>6, <1>7, <1>8, <1>9, <1>10, <1>11, <1>12, <1>13,
     <1>14, <1>15, <1>16 DEF Next

\* A file that somebody has delivered in a newer format is taken off the list of a
\* Save without being overwritten, unless it came between the look and the replace.
THEOREM NewerKeptHolds == Spec => NewerKept
<1> DEFINE Kept == \A f \in newer : f \in todo \ todo' /\ ~slipped => disk'[f] = disk[f]
<1>1. TypeInv /\ [Next]_vars => Kept
  BY StepNewerKept
<1> QED BY <1>1, TypeInvHolds, PTL DEF Spec, NewerKept
=============================================================================
