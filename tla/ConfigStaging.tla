---------------------------- MODULE ConfigStaging ----------------------------
(***************************************************************************)
(* The staged config of the GUI: edits that live in the working set until  *)
(* the global Save (kicadstamp/config_working_set.py), the two caches every *)
(* reader goes through (kicadstamp/utils/file_cache.py), the one writer    *)
(* (kicadstamp/config_writer.py) and Syncthing, which writes behind the    *)
(* program's back.                                                         *)
(*                                                                         *)
(* Edits, Save and Discard run on the UI thread; workers load the config   *)
(* while it goes on.  The files of one include graph all exist, and every  *)
(* load reads all of them; a content is a number nobody wrote before.      *)
(* Every text is stamped (config/format3.py), once when it is staged and   *)
(* again when it is written; all that matters of it here is which other    *)
(* staged files the stamp of a file draws on.                              *)
(***************************************************************************)
EXTENDS Naturals, FiniteSets

CONSTANTS
  Files,
  Workers,         \* threads that load the config
  None,
  MaxContent,      \* bound on the contents ever written
  MaxExternal,     \* bound on the writes of others
  MaxFailures,     \* bound on failed copies and writes
  MayDiscard,      \* does the user discard
  ExternalInSave,  \* may somebody else write while a Save is running
  MayLift          \* may what others deliver be of a newer format

ASSUME StagingAssumption ==
  /\ MaxContent \in Nat /\ MaxExternal \in Nat /\ MaxFailures \in Nat
  /\ MayDiscard \in BOOLEAN /\ ExternalInSave \in BOOLEAN /\ MayLift \in BOOLEAN
  /\ None \notin Nat
ASSUME FilesAssumption == IsFiniteSet(Files)

Contents == 0 .. MaxContent
Graphs == [Files -> Contents]

VARIABLES
  disk,      \* [Files -> Contents]
  mtime,     \* [Files -> Nat]
  newer,     \* files on the disk in a format newer than this program's
  staged,    \* [Files -> Contents \cup {None}]: _staged
  needs,     \* [Files -> files whose staged edits its stamp cannot do without: records
             \* they add and it refers to, names they give up and it takes]
  shares,    \* [Files -> files whose staged edits have the row of a folder it uses]
  doubled,   \* files with the row of a folder that another one on the disk has with
             \* another identity
  enabled,   \* is the overlay read (WORKING_SET.enabled)
  cache,     \* [Files -> <<mtime, content>> or None]: the file cache
  graph,     \* the graph cache: what a load found, and the mtimes it saw; or None
  load,      \* [Workers -> what the running load has read, by file; or None]
  pc,        \* "idle", "backup", "write"
  todo,      \* files the flush has still to write
  text,      \* the one it has stamped and is about to replace, and the files whose
             \* folder row it has got one of its own for; or None
  validated, \* the graph the flush validated
  errors,    \* files the running or last flush reported
  backups,   \* <<file, content>> in .history/
  latest,    \* [Files -> the user's last edit, as long as it is not discarded; or None]
  upset,     \* what has come in between: "load", "discard", "failure", "stamp", "overlap"
  slipped,   \* was the file about to be replaced delivered in a newer format (history)
  content, externals, failures

diskVars == <<disk, mtime, newer, doubled>>
editVars == <<staged, needs, shares, latest>>
saveVars == <<pc, todo, text, validated, errors, backups, slipped>>
boundVars == <<content, externals, failures, upset>>
vars == <<disk, mtime, newer, doubled, staged, needs, shares, latest, enabled, cache, graph,
          load, pc, todo, text, validated, errors, backups, slipped, content, externals,
          failures, upset>>

\* A file's clock moves at most once per content written to it.
MTimes == Contents

\* What a load may have read so far.
Loads == UNION {[F -> MTimes \X Contents] : F \in SUBSET Files}

TypeOK ==
  /\ disk \in Graphs /\ mtime \in [Files -> MTimes] /\ newer \subseteq Files
  /\ staged \in [Files -> Contents \cup {None}] /\ enabled \in BOOLEAN
  /\ needs \in [Files -> SUBSET Files] /\ shares \in [Files -> SUBSET Files]
  /\ doubled \subseteq Files /\ slipped \in BOOLEAN
  /\ cache \in [Files -> (MTimes \X Contents) \cup {None}]
  /\ graph = None \/ graph \in [found : Graphs, seen : [Files -> MTimes]]
  /\ load \in [Workers -> Loads \cup {None}]
  /\ pc \in {"idle", "backup", "write"} /\ todo \subseteq Files
  /\ text \in (Files \X SUBSET Files) \cup {None}
  /\ validated \in Graphs /\ errors \subseteq Files
  /\ backups \subseteq Files \X Contents
  /\ latest \in [Files -> Contents \cup {None}]
  /\ upset \subseteq {"load", "discard", "failure", "stamp", "overlap"}
  /\ content \in Contents

Init ==
  /\ disk = [f \in Files |-> 0] /\ mtime = [f \in Files |-> 0] /\ newer = {}
  /\ staged = [f \in Files |-> None] /\ enabled = TRUE
  /\ needs = [f \in Files |-> {}] /\ shares = [f \in Files |-> {}] /\ doubled = {}
  /\ cache = [f \in Files |-> None] /\ graph = None /\ load = [w \in Workers |-> None]
  /\ pc = "idle" /\ todo = {} /\ text = None /\ slipped = FALSE
  /\ validated = disk /\ errors = {} /\ backups = {}
  /\ latest = [f \in Files |-> None] /\ upset = {}
  /\ content = 0 /\ externals = 0 /\ failures = 0

-----------------------------------------------------------------------------
(* Reading.                                                                *)

Dirty == {f \in Files : staged[f] # None}

\* What the user is working on.
Current == [f \in Files |-> IF staged[f] # None THEN staged[f] ELSE disk[f]]

Overlaid(f) == enabled /\ staged[f] # None
Cached(f) == cache[f] # None /\ cache[f][1] = mtime[f]

\* cached_file_read: the overlay, the cache under this mtime, the disk.
FileRead(f) ==
  IF Overlaid(f) THEN staged[f] ELSE IF Cached(f) THEN cache[f][2] ELSE disk[f]

\* ... and what it leaves in the cache.
CacheAfter(F) ==
  [f \in Files |-> IF f \in F /\ ~Overlaid(f) /\ ~Cached(f) THEN <<mtime[f], disk[f]>>
                   ELSE cache[f]]

\* cached_graph_result: an entry holds as long as no file has another mtime.
Hit == graph # None /\ graph.seen = mtime

\* What load_config answers when nothing comes in between.
LoadResult == IF Hit THEN graph.found ELSE [f \in Files |-> FileRead(f)]

\* A folder with two identities and a file of a newer format are refused.
Loadable == doubled = {} /\ \A f \in newer : Overlaid(f)

Loaded ==
  /\ Hit \/ Loadable
  /\ graph' = IF Hit THEN graph ELSE [found |-> LoadResult, seen |-> mtime]
  /\ cache' = IF Hit THEN cache ELSE CacheAfter(Files)

\* The UI thread loads the config.
UiLoad ==
  /\ pc = "idle" /\ Loaded
  /\ UNCHANGED <<diskVars, editVars, enabled, load, saveVars, boundVars>>

\* A worker's load finds no entry that holds and begins to compute, outside
\* the lock.
BeginLoad(w) ==
  /\ load[w] = None /\ ~Hit
  /\ load' = [load EXCEPT ![w] = [f \in {} |-> <<>>]] /\ graph' = None
  /\ upset' = upset \cup {"load"}
  /\ UNCHANGED <<diskVars, editVars, enabled, cache, saveVars, content, externals, failures>>

ReadFile(w, f) ==
  /\ load[w] # None /\ f \notin DOMAIN load[w]
  /\ load' = [load EXCEPT ![w] = [g \in DOMAIN load[w] \cup {f} |->
                IF g = f THEN <<mtime[f], FileRead(f)>> ELSE load[w][g]]]
  /\ cache' = CacheAfter({f})
  /\ UNCHANGED <<diskVars, editVars, enabled, graph, saveVars, boundVars>>

\* The load raises: nothing is stored.
LoadRaises(w) ==
  /\ load[w] # None /\ load' = [load EXCEPT ![w] = None]
  /\ UNCHANGED <<diskVars, editVars, enabled, cache, graph, saveVars, boundVars>>

\* The computed graph is stored with the mtimes it saw.
StoreGraph(w) ==
  /\ load[w] # None /\ DOMAIN load[w] = Files
  /\ graph' = [found |-> [f \in Files |-> load[w][f][2]],
               seen |-> [f \in Files |-> load[w][f][1]]]
  /\ load' = [load EXCEPT ![w] = None]
  /\ UNCHANGED <<diskVars, editVars, enabled, cache, saveVars, boundVars>>

-----------------------------------------------------------------------------
(* Editing.                                                                *)

\* Mutant: staging does not evict the graph.
GraphKept == graph

\* invalidate_graph_path: every entry has read the file.
GraphEvicted == None

\* stage_write, of a text stamped through the overlay: what other staged files
\* add is there for it to draw on, the row of a folder included.
StageWrite(f) ==
  /\ pc = "idle" /\ content < MaxContent /\ content' = content + 1
  /\ staged' = [staged EXCEPT ![f] = content'] /\ latest' = [latest EXCEPT ![f] = content']
  /\ \E on \in SUBSET (Dirty \ {f}) : needs' = [needs EXCEPT ![f] = on]
  /\ \E beside \in SUBSET (Dirty \ {f}) : shares' = [shares EXCEPT ![f] = beside]
  /\ graph' = GraphEvicted /\ errors' = errors \ {f}
  /\ UNCHANGED <<diskVars, enabled, cache, load, pc, todo, text, validated, backups, slipped,
                 upset, externals, failures>>

\* Nothing is staged any more.
Cleared ==
  /\ staged' = [f \in Files |-> None]
  /\ needs' = [f \in Files |-> {}] /\ shares' = [f \in Files |-> {}]

\* clear, and what the user meant is gone with it.
Discard ==
  /\ MayDiscard /\ pc = "idle" /\ Dirty # {} /\ Cleared
  /\ latest' = [f \in Files |-> IF f \in Dirty THEN None ELSE latest[f]]
  /\ upset' = upset \cup {"discard"}
  /\ UNCHANGED <<diskVars, enabled, cache, graph, load, saveVars, content, externals, failures>>

\* Somebody else replaces a file; the program's edit of it on the disk is
\* theirs to keep or to drop.
ExternalWrite(f) ==
  /\ externals < MaxExternal /\ externals' = externals + 1
  /\ pc = "idle" \/ ExternalInSave
  /\ content < MaxContent /\ content' = content + 1
  /\ disk' = [disk EXCEPT ![f] = content'] /\ mtime' = [mtime EXCEPT ![f] = @ + 1]
  /\ newer' \in IF MayLift THEN {newer, newer \cup {f}} ELSE {newer}
  /\ doubled' \in {doubled, {}}
  /\ slipped' = (slipped \/ (text # None /\ text[1] = f /\ f \in newer'))
  /\ latest' = [latest EXCEPT ![f] =
       IF staged[f] = @ /\ (pc # "write" \/ f \in todo) THEN @ ELSE None]
  /\ upset' = IF pc = "idle" THEN upset ELSE upset \cup {"overlap"}
  /\ UNCHANGED <<staged, needs, shares, enabled, cache, graph, load, pc, todo, text,
                 validated, errors, backups, failures>>

-----------------------------------------------------------------------------
(* flush, the global Save.                                                 *)

\* load_config raises, and caches no graph; or a dirty file has become newer.
\* Nothing is written.
FlushRefused ==
  /\ pc = "idle" /\ Dirty # {}
  /\ \/ ~Hit /\ graph' = None /\ cache' = CacheAfter(Files)
     \/ Dirty \cap newer # {} /\ Loaded
  /\ UNCHANGED <<diskVars, editVars, enabled, load, saveVars, boundVars>>

\* The graph is loaded through the overlay and accepted, and no file is newer.
\* What the last Save reported is known by now, and no longer asked for.
FlushValidate ==
  /\ pc = "idle" /\ Dirty # {} /\ Dirty \cap newer = {} /\ Loaded
  /\ validated' = LoadResult /\ pc' = "backup" /\ errors' = {}
  /\ latest' = [f \in Files |-> IF f \in errors THEN None ELSE latest[f]]
  /\ UNCHANGED <<diskVars, staged, needs, shares, enabled, load, todo, text, backups, slipped,
                 boundVars>>

\* Mutant: what is copied is what is about to be written.
CopiedStaged(failed) == {<<f, staged[f]>> : f \in Dirty \ failed}

\* backup_to_history: the bytes on the disk, under a name of their own.
Copied(failed) == {<<f, disk[f]>> : f \in Dirty \ failed}

\* The files whose copy came off.
Writable(failed) == Dirty \ failed

Backup ==
  /\ pc = "backup"
  /\ \E failed \in SUBSET Dirty :
       /\ failures + Cardinality(failed) <= MaxFailures
       /\ failures' = failures + Cardinality(failed)
       /\ backups' = backups \cup Copied(failed)
       /\ errors' = failed /\ todo' = Writable(failed)
       /\ upset' = IF failed = {} THEN upset ELSE upset \cup {"failure"}
  /\ enabled' = FALSE /\ pc' = "write"
  /\ UNCHANGED <<diskVars, editVars, cache, graph, load, text, validated, slipped, content,
                 externals>>

\* Mutants: the writer does not look at the format again; the write does not
\* drop the cached file.
Unlooked(f) == FALSE
CacheLeft(f) == cache

\* read_version refuses a file that has become newer meanwhile.
RefusesNewer(f) == f \in newer

CacheDropped(f) == [cache EXCEPT ![f] = None]

\* The staged edits among these that the disk has not got, when the stamp looks
\* there: the overlay is off, and the files are written one by one.
Unwritten(F) == {g \in F : FileRead(g) # staged[g]}

\* stamp_format3: a reference to a record that is nowhere, or a name that is twice.
StampRefuses(f) == Unwritten(needs[f]) # {}

\* What reading the other files leaves in the cache (a text without records and
\* references is not looked up at all).
Indexed == cache' \in {cache, CacheAfter(Files)}

\* The text of one file is stamped beside the files on the disk, and the format of
\* the file it will replace is looked at.
PrepareFile(f) ==
  /\ pc = "write" /\ f \in todo /\ text = None
  /\ ~StampRefuses(f) /\ ~RefusesNewer(f) /\ Indexed
  /\ text' = <<f, Unwritten(shares[f])>>
  /\ upset' = IF Unwritten(shares[f]) = {} THEN upset ELSE upset \cup {"stamp"}
  /\ UNCHANGED <<diskVars, editVars, enabled, graph, load, pc, todo, validated, errors,
                 backups, slipped, content, externals, failures>>

\* It is written: os.replace, then both caches are dropped (a reader in between
\* the two is taken to read before the write).  On a coarse clock the file may
\* keep its mtime.
WriteFile(f) ==
  /\ text # None /\ text[1] = f /\ text' = None /\ slipped' = FALSE
  /\ todo' = todo \ {f}
  /\ disk' = [disk EXCEPT ![f] = staged[f]] /\ newer' = newer \ {f}
  /\ doubled' = doubled \cup (text[2] \cap todo)
  /\ mtime' \in {mtime, [mtime EXCEPT ![f] = @ + 1]}
  /\ cache' = CacheDropped(f) /\ graph' = GraphEvicted
  /\ UNCHANGED <<editVars, enabled, load, pc, validated, errors, backups, boundVars>>

\* Mutant: a failed write is not reported.
Unreported(f) == errors
Reported(f) == errors \cup {f}

\* The write fails (OSError): for the stamp, for a format, its own or of a file the
\* stamp reads, or for any other reason, up to the replace.
WriteFails(f) ==
  /\ pc = "write" /\ f \in todo /\ (text # None => text[1] = f)
  /\ todo' = todo \ {f} /\ text' = None /\ slipped' = FALSE
  /\ errors' = Reported(f) /\ Indexed
  /\ doubled' = doubled \ {f}
  /\ \/ /\ text = None /\ StampRefuses(f) /\ UNCHANGED failures
        /\ upset' = upset \cup {"stamp"}
     \/ /\ text = None /\ newer # {} /\ UNCHANGED failures
        /\ upset' = upset \cup {"failure"}
     \/ /\ failures < MaxFailures /\ failures' = failures + 1
        /\ upset' = upset \cup {"failure"}
  /\ UNCHANGED <<disk, mtime, newer, editVars, enabled, graph, load, pc, validated, backups,
                 content, externals>>

\* The working set is cleared, successful or not.
FlushEnd ==
  /\ pc = "write" /\ todo = {} /\ pc' = "idle" /\ enabled' = TRUE /\ Cleared
  /\ UNCHANGED <<diskVars, latest, cache, graph, load, todo, text, validated, errors, backups,
                 slipped, boundVars>>

Next ==
  \/ UiLoad \/ Discard \/ FlushRefused \/ FlushValidate \/ Backup \/ FlushEnd
  \/ \E f \in Files : StageWrite(f) \/ ExternalWrite(f)
  \/ \E f \in Files : PrepareFile(f) \/ WriteFile(f) \/ WriteFails(f)
  \/ \E w \in Workers :
       BeginLoad(w) \/ LoadRaises(w) \/ StoreGraph(w) \/ \E f \in Files : ReadFile(w, f)

Spec == Init /\ [][Next]_vars

-----------------------------------------------------------------------------
(* Properties.                                                             *)

\* Whoever loads the config now gets what the user is working on.
LoadsCurrent == pc = "idle" => LoadResult = Current

\* A file read alone is never stale, whatever was written in one clock tick.
FileReadsCurrent ==
  \A f \in Files : FileRead(f) = IF Overlaid(f) THEN staged[f] ELSE disk[f]

\* Whatever a Save has written so far, the files on the disk and the edits it has
\* still to write are together the graph it validated, and none of them gives a
\* folder a second identity.
ValidatedIsWritten ==
  pc = "write" =>
    /\ \A f \in Files : validated[f] = IF f \in todo THEN staged[f] ELSE disk[f]
    /\ doubled = {} /\ (text # None => text[2] = {})

\* A Save that reports nothing, while nobody else does anything, has written the
\* graph it validated (config_working_set.py:209-211, config_writer.py:107-109).
SavedIsValidated ==
  pc = "write" /\ todo = {} /\ errors = {} /\ upset \subseteq {"stamp"} =>
    disk = validated /\ doubled = {}

\* ... and reports nothing (config_writer.py:257-258).
StampRepeats ==
  pc = "write" /\ upset \subseteq {"stamp"} => errors = {}

\* An edit nobody discarded is staged, on the disk, or reported by the Save
\* that dropped it.
LossReported ==
  \A f \in Files : latest[f] \in {None, staged[f], disk[f]} \/ f \in errors

\* An edit nobody discarded is staged or on the disk, also after a failed Save.
NothingLost == \A f \in Files : latest[f] \in {None, staged[f], disk[f]}

\* What a Save overwrites has a dated copy in .history/.
PreviousKept ==
  [][\A f \in todo \ todo' : disk'[f] # disk[f] => <<f, disk[f]>> \in backups]_vars

\* The same, of a config nothing came in between: no worker's load was under
\* way, nothing was discarded, no copy and no write failed, no stamp refused a file
\* or gave it a row of its own, and nobody else wrote while a Save was running.
LoadsCurrentUndisturbed == upset = {} => LoadsCurrent
ValidatedIsWrittenUndisturbed == upset = {} => ValidatedIsWritten

\* ... whatever fails and is read, if nobody wrote while a Save was running.
PreviousKeptUndisturbed ==
  [][\A f \in todo \ todo' :
       disk'[f] # disk[f] /\ "overlap" \notin upset => <<f, disk[f]>> \in backups]_vars

\* A Save overwrites a file of a newer format only if it was delivered between the
\* Save's look at that very file and the replace.
NewerKept ==
  [][\A f \in newer : f \in todo \ todo' /\ ~slipped => disk'[f] = disk[f]]_vars

\* ... and not even then (config_writer.py:176-178).
NewerAlwaysKept == [][\A f \in newer : f \in todo \ todo' => disk'[f] = disk[f]]_vars
=============================================================================
