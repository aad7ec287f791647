----------------------------- MODULE ProfileLift -----------------------------
(***************************************************************************)
(* Opening a profile lifts its files and its copper registries to the      *)
(* current format, on the disk, one file after the other                   *)
(* (kicadstamp/config/upgrade_on_disk.py, registry_upgrade.py, loader.py); *)
(* the writer's stamp keeps the identity of records through edits          *)
(* (config/format3.py).  Two programs may open one profile; the GUI edits  *)
(* in its working set and saves.                                           *)
(*                                                                         *)
(* A file has at most one record and one reference.  An identity (id, to)  *)
(* is history: which record this is, and which one the reference means.    *)
(***************************************************************************)
EXTENDS Naturals

CONSTANTS
  Files, Registries, Names, None,
  Gui, Mcp,       \* the two programs
  MaxOpens, MaxEdits,
  MaxTroubles     \* bound on failures, deaths and what comes from outside

Procs == {Gui, Mcp}

Current == 3
Newer == 4

\* The number a record's identity has in the migrated files, and a fresh one.
Seed(n) == <<"seed", n>>
Fresh(k) == <<"fresh", k>>
Uuids == {Seed(n) : n \in Names} \cup {Fresh(k) : k \in 1 .. MaxEdits}

\* A record there was from the start goes by its file, one made later by a number.
Ids == Files \cup 1 .. MaxEdits

VARIABLES
  file,       \* [Files -> content]
  copies,     \* the .bak files, as <<file, content>>
  registry,   \* [Registries -> [schema, key, of, spokes]]
  shown,      \* does the GUI show the profile
  staged,     \* [Files -> content, or None]: the GUI's working set
  made,       \* records made so far, and uuids minted for them
  pc,         \* [Procs -> where its open stands]
  todo,       \* [Procs -> the files, then the registries, it has still to lift]
  at,         \* [Procs -> the one it is lifting, or None]
  text,       \* [Procs -> what it is about to write there]
  index,      \* [Procs -> [Names -> uuid, or None]]: of the config it loaded
  disturbed,  \* opens with a failure, or a write of others meanwhile (history)
  mixed,      \* was an edit saved while a registry went by names (history)
  torn,       \* has a Save failed in part, a lift undone a write of others, or a file
              \* been put back (history)
  lost,       \* what lifts have overwritten without a copy (history)
  opens, edits, troubles

disk == <<file, copies, registry>>
openVars == <<pc, todo, at, text, index>>
counters == <<opens, edits, troubles>>
vars == <<disk, shown, staged, made, openVars, disturbed, mixed, torn, lost, counters>>

Contents ==
  [format : {2, Current, Newer}, name : Names \cup {None}, uuid : Uuids \cup {None},
   id : Ids \cup {None}, hint : Names \cup {None}, ref : Uuids \cup {None},
   to : Ids \cup {None}]

RegistryContents ==
  [schema : 1 .. 3, key : Names \cup Uuids, of : Ids, spokes : BOOLEAN]

ASSUME LiftAssumption ==
  /\ MaxOpens \in Nat /\ MaxEdits \in Nat /\ MaxTroubles \in Nat /\ Gui # Mcp
  /\ None \notin Names /\ None \notin Uuids /\ None \notin Ids /\ None \notin Contents
  /\ Names \cap Uuids = {} /\ Files \cap (1 .. MaxEdits) = {}

TypeOK ==
  /\ file \in [Files -> Contents] /\ copies \subseteq Files \X Contents
  /\ registry \in [Registries -> RegistryContents]
  /\ shown \in BOOLEAN /\ staged \in [Files -> Contents \cup {None}] /\ made \in 0 .. MaxEdits
  /\ pc \in [Procs -> {"idle", "files", "read", "copied", "registries", "registry read"}]
  /\ todo \in [Procs -> SUBSET (Files \cup Registries)]
  /\ at \in [Procs -> Files \cup Registries \cup {None}]
  /\ text \in [Procs -> Contents \cup RegistryContents \cup {None}]
  /\ index \in [Procs -> [Names -> Uuids \cup {None}]]
  /\ disturbed \subseteq Procs /\ mixed \in BOOLEAN /\ torn \in BOOLEAN
  /\ lost \subseteq {"undisturbed", "disturbed"}

-----------------------------------------------------------------------------
(* Records, references and the conversion.                                 *)

Named(c) == c.name # None
Refers(c) == c.hint # None

SeedOf(n) == IF n = None THEN None ELSE Seed(n)

\* Mutant: the number of a migrated record is that of its file, too.
LiftedByFile(c) ==
  IF c.format # 2 THEN c
  ELSE [c EXCEPT !.format = Current, !.uuid = SeedOf(c.name),
                 !.ref = IF c.hint = c.name THEN SeedOf(c.hint) ELSE <<"seed", c.hint, c.name>>]

\* _step_2_to_3: a pure function of one file.
Lifted(c) ==
  IF c.format # 2 THEN c
  ELSE [c EXCEPT !.format = Current, !.uuid = SeedOf(c.name), !.ref = SeedOf(c.hint)]

\* What a program reads: the GUI its working set first.
Content(p, f) == IF p = Gui /\ staged[f] # None THEN staged[f] ELSE file[f]

\* Graph: every file as it reads, lifted in memory.
Graph(p) == [f \in Files |-> Lifted(Content(p, f))]

Dirty(p) == p = Gui /\ \E f \in Files : staged[f] # None

\* _check_format3_graph, and the index of the writer's stamp: names and uuids
\* are unique and every reference resolves.
Sound(graph) ==
  /\ \A f \in Files : graph[f].format = Current
  /\ \A f, g \in Files : f # g /\ Named(graph[f]) /\ Named(graph[g]) =>
       graph[f].name # graph[g].name /\ graph[f].uuid # graph[g].uuid
  /\ \A f \in Files : Refers(graph[f]) =>
       \E g \in Files : Named(graph[g]) /\ graph[g].uuid = graph[f].ref

\* _NameIndex.
IndexOf(graph) ==
  [n \in Names |-> IF \E f \in Files : graph[f].name = n
                   THEN (CHOOSE c \in {graph[f] : f \in Files} : c.name = n).uuid
                   ELSE None]

\* A profile nobody has opened yet, or one that a build of schema 2 has lifted.
Init ==
  /\ \E name, hint \in [Files -> Names \cup {None}], schema \in {1, 2} :
       LET owner(n) == {f \in Files : name[f] = n /\ n # None}
           old == [f \in Files |->
                     [format |-> 2, name |-> name[f], uuid |-> None,
                      id |-> IF name[f] = None THEN None ELSE f,
                      hint |-> hint[f], ref |-> None,
                      to |-> IF hint[f] = None THEN None ELSE CHOOSE g \in owner(hint[f]) : TRUE]]
       IN  /\ \A f \in Files : owner(name[f]) \subseteq {f}
           /\ \A f \in Files : hint[f] # None => owner(hint[f]) # {}
           /\ file = [f \in Files |-> IF schema = 1 THEN old[f] ELSE Lifted(old[f])]
           /\ registry \in [Registries -> {[schema |-> schema, of |-> f, spokes |-> TRUE,
                                            key |-> IF schema = 1 THEN name[f] ELSE Seed(name[f])] :
                                             f \in {g \in Files : name[g] # None}}]
  /\ copies = {} /\ shown = FALSE /\ staged = [f \in Files |-> None] /\ made = 0
  /\ pc = [p \in Procs |-> "idle"] /\ todo = [p \in Procs |-> {}] /\ at = [p \in Procs |-> None]
  /\ text = [p \in Procs |-> None] /\ index = [p \in Procs |-> [n \in Names |-> None]]
  /\ disturbed = {} /\ mixed = FALSE /\ torn = FALSE /\ lost = {}
  /\ opens = 0 /\ edits = 0 /\ troubles = 0

-----------------------------------------------------------------------------
(* Opening a profile: the files.                                           *)

Goto(p, where) == pc' = [pc EXCEPT ![p] = where]

\* The open ends, refused or not; what it held is forgotten.
Forget(p) ==
  /\ todo' = [todo EXCEPT ![p] = {}] /\ at' = [at EXCEPT ![p] = None]
  /\ text' = [text EXCEPT ![p] = None] /\ index' = [index EXCEPT ![p] = [n \in Names |-> None]]

Refused(p) == Goto(p, "idle") /\ Forget(p)

Trouble == troubles < MaxTroubles /\ troubles' = troubles + 1

unchangedByOpen == <<staged, made, mixed, edits>>

\* upgrade_graph_on_disk: with unsaved edits the sweep is skipped; a file of a
\* newer build refuses it before the first write.
Open(p) ==
  /\ pc[p] = "idle" /\ opens < MaxOpens /\ opens' = opens + 1
  /\ \A f \in Files : file[f].format # Newer
  /\ Goto(p, "files")
  /\ IF Dirty(p)
     THEN UNCHANGED todo /\ disturbed' = disturbed \cup {p}
     ELSE /\ disturbed' = disturbed \ {p}
          /\ todo' = [todo EXCEPT ![p] = {f \in Files : file[f].format < Current}]
  /\ UNCHANGED <<disk, at, text, index, lost, troubles, torn, shown, unchangedByOpen>>

\* parse, convert, serialize; a file that has become newer is passed over.
ReadFile(p, f) ==
  /\ pc[p] = "files" /\ f \in todo[p]
  /\ todo' = [todo EXCEPT ![p] = @ \ {f}]
  /\ IF file[f].format = Newer
     THEN UNCHANGED <<pc, at, text>>
     ELSE /\ Goto(p, "read") /\ at' = [at EXCEPT ![p] = f]
          /\ text' = [text EXCEPT ![p] = Lifted(file[f])]
  /\ UNCHANGED <<disk, index, disturbed, lost, opens, troubles, torn, shown, unchangedByOpen>>

\* Mutant: no copy is taken of a file.
NoCopy(p) == copies

Copied(p) == copies \cup {<<at[p], file[at[p]]>>}

CopyFile(p) ==
  /\ pc[p] = "read" /\ Goto(p, "copied") /\ copies' = Copied(p)
  /\ UNCHANGED <<file, registry, todo, at, text, index, disturbed, lost, opens, troubles,
                 torn, shown, unchangedByOpen>>

\* The copy cannot be taken: the whole open is refused.
CopyFails(p) ==
  /\ pc[p] \in {"read", "registry read"} /\ Trouble /\ Refused(p)
  /\ UNCHANGED <<disk, disturbed, lost, opens, torn, shown, unchangedByOpen>>

Passed(p, where) ==
  Goto(p, where) /\ at' = [at EXCEPT ![p] = None] /\ text' = [text EXCEPT ![p] = None]

\* The opens under way, which a write of others disturbs.
Crossed == {p \in Procs : pc[p] # "idle"}

\* write_config_file: what became newer meanwhile is not overwritten.
WriteFile(p) ==
  /\ pc[p] = "copied" /\ Passed(p, "files")
  /\ LET f == at[p]
         undone == text[p] # Lifted(file[f])
     IN
     IF file[f].format = Newer THEN UNCHANGED <<file, torn, lost, disturbed>>
     ELSE /\ file' = [file EXCEPT ![f] = text[p]]
          /\ torn' = (torn \/ undone)
          /\ disturbed' = IF undone THEN disturbed \cup Crossed ELSE disturbed
          /\ lost' = IF file[f] = text[p] \/ <<f, file[f]>> \in copies THEN lost
                     ELSE lost \cup {IF p \in disturbed THEN "disturbed" ELSE "undisturbed"}
  /\ UNCHANGED <<copies, registry, todo, index, opens, troubles, shown, unchangedByOpen>>

\* The write fails: the reason is logged, and the sweep goes on.
WriteFails(p) ==
  /\ Trouble /\ disturbed' = disturbed \cup {p}
  /\ \/ pc[p] = "copied" /\ Passed(p, "files")
     \/ pc[p] = "registry read" /\ Passed(p, "registries")
  /\ UNCHANGED <<disk, todo, index, lost, opens, torn, shown, unchangedByOpen>>

-----------------------------------------------------------------------------
(* ... the config, and the registries.                                     *)

\* The open has come to its end.
Opened(p) == pc[p] = "registries" /\ todo[p] = {}

\* Mutant: a registry that goes by numbers already is taken for current.
NameKeyed(r) == registry[r].schema = 1

Outdated(r) == registry[r].schema < 3

\* A graph that is not sound is refused; the registries are left alone while
\* there are unsaved edits.
Load(p) ==
  /\ pc[p] = "files" /\ todo[p] = {}
  /\ IF ~Sound(Graph(p)) THEN Refused(p)
     ELSE /\ index' = [index EXCEPT ![p] = IndexOf(Graph(p))]
          /\ Goto(p, "registries")
          /\ todo' = [todo EXCEPT ![p] = {r \in Registries : Outdated(r) /\ ~Dirty(p)}]
          /\ UNCHANGED <<at, text>>
  /\ UNCHANGED <<disk, disturbed, lost, opens, troubles, torn, shown, unchangedByOpen>>

\* map_registry_key: a name the config does not have stays.
Mapped(names, key) ==
  IF key \in Names /\ names[key] # None THEN names[key] ELSE key

\* Mutant: the copper of removed spokes keeps its keys.
KeepsSpokes(old, names) == [old EXCEPT !.schema = 3, !.key = Mapped(names, old.key)]

LiftedRegistry(old, names) ==
  [old EXCEPT !.schema = 3, !.key = IF old.schema = 1 THEN Mapped(names, old.key) ELSE old.key,
              !.spokes = FALSE]

ReadRegistry(p, r) ==
  /\ pc[p] = "registries" /\ r \in todo[p]
  /\ todo' = [todo EXCEPT ![p] = @ \ {r}]
  /\ Goto(p, "registry read") /\ at' = [at EXCEPT ![p] = r]
  /\ text' = [text EXCEPT ![p] = LiftedRegistry(registry[r], index[p])]
  /\ UNCHANGED <<disk, index, disturbed, lost, opens, troubles, torn, shown, unchangedByOpen>>

WriteRegistry(p) ==
  /\ pc[p] = "registry read" /\ Passed(p, "registries")
  /\ registry' = [registry EXCEPT ![at[p]] = text[p]]
  /\ UNCHANGED <<file, copies, todo, index, disturbed, lost, opens, troubles, torn, shown,
                 unchangedByOpen>>

Close(p) ==
  /\ Opened(p) /\ Refused(p) /\ shown' = (shown \/ p = Gui)
  /\ UNCHANGED <<disk, disturbed, lost, opens, troubles, torn, unchangedByOpen>>

Die(p) ==
  /\ pc[p] # "idle" /\ Trouble /\ Refused(p)
  /\ IF p = Gui THEN shown' = FALSE /\ staged' = [f \in Files |-> None]
     ELSE UNCHANGED <<shown, staged>>
  /\ UNCHANGED <<disk, made, disturbed, mixed, torn, lost, opens, edits>>

-----------------------------------------------------------------------------
(* The GUI's edits.                                                        *)

\* Mutant: a record that comes from a form gets a number of its own.
MintedAnew(f, c) == Fresh(made + 1)

\* stamp_format3: a record without a number inherits that of the record of its
\* name in the file's previous content.
Stamped(f, c) == IF Graph(Gui)[f].name = c.name THEN Graph(Gui)[f].uuid ELSE Fresh(made + 1)

\* A reference keeps its number, and its hint follows the record's name.
Hinted(c, graph) ==
  IF ~Refers(c) THEN c
  ELSE [c EXCEPT !.hint = (CHOOSE t \in {graph[g] : g \in Files} :
                             Named(t) /\ t.uuid = c.ref).name]

\* The graph that is written must be sound, else the edit is refused.
Stage(f, c) ==
  LET graph == [Graph(Gui) EXCEPT ![f] = c]
  IN  /\ shown /\ pc[Gui] = "idle" /\ edits < MaxEdits /\ edits' = edits + 1
      /\ Sound(Graph(Gui)) /\ Sound(graph)
      /\ staged' = [staged EXCEPT ![f] = Hinted(c, graph)]
      /\ UNCHANGED <<disk, shown, openVars, disturbed, mixed, torn, lost, opens, troubles>>

Rename(f, n) ==
  LET c == Graph(Gui)[f]
  IN  Named(c) /\ c.name # n /\ Stage(f, [c EXCEPT !.name = n]) /\ UNCHANGED made

\* A form replaces the record whole, without its number.
EditForm(f) ==
  LET c == Graph(Gui)[f]
  IN  /\ Named(c) /\ Stage(f, [c EXCEPT !.uuid = Stamped(f, c)])
      /\ made' = IF Stamped(f, c) = Fresh(made + 1) THEN made + 1 ELSE made

Create(f, n) ==
  LET c == Graph(Gui)[f]
      new == [c EXCEPT !.name = n, !.id = made + 1]
  IN  /\ ~Named(c) /\ made' = made + 1
      /\ Stage(f, [new EXCEPT !.uuid = Stamped(f, new)])

Refer(f, g) ==
  LET c == Graph(Gui)[f]
      target == Graph(Gui)[g]
  IN  /\ Named(target) /\ c.ref # target.uuid /\ UNCHANGED made
      /\ Stage(f, [c EXCEPT !.hint = target.name, !.ref = target.uuid, !.to = target.id])

\* ConfigWorkingSet.flush: files that cannot be written are reported, and the
\* working set is cleared all the same.
Save(failed) ==
  /\ pc[Gui] = "idle" /\ Dirty(Gui) /\ \A f \in Files : file[f].format # Newer
  /\ failed \subseteq {f \in Files : staged[f] # None}
  /\ IF failed = {} THEN UNCHANGED <<troubles, torn>> ELSE Trouble /\ torn' = TRUE
  /\ file' = [f \in Files |->
                IF staged[f] # None /\ f \notin failed THEN staged[f] ELSE file[f]]
  /\ staged' = [f \in Files |-> None]
  /\ mixed' = (mixed \/ \E r \in Registries : registry[r].schema = 1)
  /\ disturbed' = disturbed \cup Crossed
  /\ UNCHANGED <<copies, registry, made, shown, openVars, lost, opens, edits>>

Discard ==
  /\ pc[Gui] = "idle" /\ Dirty(Gui) /\ staged' = [f \in Files |-> None]
  /\ UNCHANGED <<disk, made, shown, openVars, disturbed, mixed, torn, lost, counters>>

-----------------------------------------------------------------------------
(* From outside.                                                           *)

Outside == Trouble /\ disturbed' = disturbed \cup Crossed

\* The user puts the copy of a file back.
PutBack(f, c) ==
  /\ <<f, c>> \in copies /\ c # file[f] /\ Outside
  /\ file' = [file EXCEPT ![f] = c] /\ torn' = TRUE
  /\ UNCHANGED <<copies, registry, staged, made, shown, openVars, mixed, lost, opens, edits>>

\* A file of a newer build arrives.
Deliver(f) ==
  /\ file[f].format = Current /\ Outside
  /\ file' = [file EXCEPT ![f].format = Newer]
  /\ UNCHANGED <<copies, registry, staged, made, shown, openVars, mixed, torn, lost, opens, edits>>

Next ==
  \/ \E p \in Procs :
       \/ Open(p) \/ CopyFile(p) \/ CopyFails(p) \/ WriteFile(p) \/ WriteFails(p)
       \/ Load(p) \/ WriteRegistry(p) \/ Close(p)
       \/ Die(p)
       \/ \E f \in Files : ReadFile(p, f)
       \/ \E r \in Registries : ReadRegistry(p, r)
  \/ \E f \in Files, n \in Names : Rename(f, n) \/ Create(f, n)
  \/ \E f \in Files : EditForm(f) \/ Deliver(f)
  \/ \E f, g \in Files : Refer(f, g)
  \/ \E failed \in SUBSET Files : Save(failed)
  \/ Discard
  \/ \E c \in copies : PutBack(c[1], c[2])

Spec == Init /\ [][Next]_vars

-----------------------------------------------------------------------------
(* Properties.                                                             *)

\* However lifts of two programs, deaths, edits, renames, Saves and copies put
\* back come together, and whichever files are of the old format still, a
\* reference resolves to the record it was made for, and to no other
\* (config/format_version.py:246-252, config/format3.py:580-600).
ReferencesMeant ==
  \A p \in Procs : LET graph == Graph(p) IN
    \A f, g \in Files : Refers(graph[f]) /\ Named(graph[g]) =>
      (graph[f].ref = graph[g].uuid <=> graph[f].to = graph[g].id)

\* ... and there is such a record, unless a Save failed in part, was undone by a
\* lift that had read the file before, or a file was put back: the profile loads.
LoadsWhatever ==
  ~torn => \A p \in Procs :
    (\A f \in Files : file[f].format # Newer) => Sound(Graph(p))

\* What a lift overwrites has a copy, if nobody else writes while it runs; a
\* second lift at the same time does no harm (config/upgrade_on_disk.py:45-47).
PreviousCopied == "undisturbed" \notin lost

\* ... whoever writes meanwhile.
AlwaysCopied == lost = {}

\* After a lift a key goes by the number of the record whose copper it holds, and
\* no key of removed spokes is left for an apply to delete.  It needs that no edit
\* was saved while a registry went by names (config/registry_upgrade.py:1-32).
KeysFollow ==
  \A r \in Registries : registry[r].schema = 3 =>
    /\ ~registry[r].spokes
    /\ ~mixed => \A f \in Files : LET c == Lifted(file[f]) IN
         Named(c) => (registry[r].of = c.id <=> registry[r].key = c.uuid)

\* ... whenever it was (config/registry_upgrade.py:15-16).
NextOpenIsEnough ==
  \A r \in Registries : registry[r].schema = 3 =>
    \A f \in Files : LET c == Lifted(file[f]) IN
      Named(c) => (registry[r].of = c.id <=> registry[r].key = c.uuid)

\* An open in which nothing fails leaves the whole profile current, whatever an
\* earlier one left half-lifted and whoever lifts beside it.
LiftsAll ==
  \A p \in Procs : Opened(p) /\ p \notin disturbed =>
    /\ \A f \in Files : file[f].format = Current
    /\ \A r \in Registries : registry[r].schema = 3
=============================================================================
