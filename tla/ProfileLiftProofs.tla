--------------------------- MODULE ProfileLiftProofs ---------------------------
(***************************************************************************)
(* Why the lift of a profile keeps what records and references mean, loads *)
(* what it leaves half-lifted, copies what it overwrites and misses        *)
(* nothing, for any number of files, registries, names, edits and faults.  *)
(***************************************************************************)
EXTENDS ProfileLift, TLAPS

\* What a number stands for: `meant` says of each number which record has it from
\* the start, or the record that gets it when it is minted.  No two records share one.
Numbering(meant) ==
  /\ meant \in [Uuids -> Ids \cup {None}]
  /\ \A u, v \in Uuids : meant[u] = meant[v] /\ meant[u] # None => u = v
  /\ \A k \in 1 .. MaxEdits : meant[Fresh(k)] = k
  /\ \A n \in Names : meant[Seed(n)] \in Files \cup {None}

\* A content whose record has its own number, and whose reference that of the record
\* it was made for.
Faithful(meant, c) ==
  /\ Named(c) => Lifted(c).uuid \in Uuids /\ meant[Lifted(c).uuid] = c.id /\ c.id # None
  /\ Refers(c) => Lifted(c).ref \in Uuids /\ meant[Lifted(c).ref] = c.to /\ c.to # None

Lifting(p) == pc[p] \in {"read", "copied"}
LiftingFiles(p) == pc[p] = "files" \/ Lifting(p)
LiftingRegistries(p) == pc[p] \in {"registries", "registry read"}

\* What a step of an open may rely on: where it stands says what it holds.
OpenTypes ==
  /\ \A p \in Procs : pc[p] = "idle" => todo[p] = {}
  /\ \A p \in Procs : LiftingFiles(p) => todo[p] \subseteq Files
  /\ \A p \in Procs : LiftingRegistries(p) => todo[p] \subseteq Registries
  /\ \A p \in Procs : Lifting(p) =>
       at[p] \in Files /\ text[p] \in Contents /\ text[p].format = Current
  /\ \A p \in Procs : pc[p] = "registry read" =>
       at[p] \in Registries /\ text[p] \in RegistryContents /\ text[p].schema = 3
  /\ \A f \in Files : staged[f] # None => staged[f].format = Current
  /\ edits \in 0 .. MaxEdits /\ made <= edits

AllFaithful(meant) ==
  /\ \A f \in Files : Faithful(meant, file[f])
  /\ \A f \in Files : staged[f] # None => Faithful(meant, staged[f])
  /\ \A c \in copies : Faithful(meant, c[2])
  /\ \A p \in Procs : Lifting(p) => Faithful(meant, text[p])

\* Names are unique, numbers are, and every reference resolves.
Whole(graph) ==
  /\ \A f, g \in Files : f # g /\ Named(graph[f]) /\ Named(graph[g]) =>
       graph[f].name # graph[g].name /\ graph[f].uuid # graph[g].uuid
  /\ \A f \in Files : Refers(graph[f]) =>
       \E g \in Files : Named(graph[g]) /\ graph[g].uuid = graph[f].ref

GraphsWhole == ~torn => \A p \in Procs : Whole(Graph(p))

\* A registry by names can still be lifted to the right numbers.
Namely == ~mixed /\ \E r \in Registries : registry[r].schema = 1

\* The file has the record it had from the start, under its first name.
Original(meant, f, c) ==
  /\ Named(c) => c.id = f
  /\ \A n \in Names : c.name = n <=> meant[Seed(n)] = f

AllOriginal(meant) ==
  Namely =>
    /\ \A f \in Files : Original(meant, f, file[f])
    /\ \A c \in copies : Original(meant, c[1], c[2])
    /\ \A p \in Procs : Lifting(p) => Original(meant, at[p], text[p])
    /\ \A p \in Procs : LiftingRegistries(p) /\ todo[p] # {} =>
         \A n \in Names : meant[Seed(n)] # None => index[p][n] = Seed(n)

KeyRight(meant, r) ==
  IF r.schema = 1 THEN r.key \in Names /\ meant[Seed(r.key)] = r.of /\ r.of # None
  ELSE /\ ~mixed => r.key \in Uuids /\ meant[r.key] = r.of /\ r.of # None
       /\ r.schema = 3 => ~r.spokes

KeysRight(meant) ==
  /\ \A r \in Registries : KeyRight(meant, registry[r])
  /\ \A p \in Procs : pc[p] = "registry read" => KeyRight(meant, text[p])

\* An open finds everything as it left it ...
AsLeft(p) ==
  /\ p = Gui => \A f \in Files : staged[f] = None
  /\ \A f \in Files : \/ file[f].format = Current
                      \/ file[f].format = 2 /\ LiftingFiles(p)
                         /\ (f \in todo[p] \/ (Lifting(p) /\ at[p] = f))
  /\ LiftingRegistries(p) => \A r \in Registries :
       registry[r].schema = 3 \/ r \in todo[p] \/ (pc[p] = "registry read" /\ at[p] = r)
  /\ Lifting(p) => text[p] = Lifted(file[at[p]])
  /\ pc[p] = "copied" => <<at[p], file[at[p]]>> \in copies \/ file[at[p]] = text[p]

\* ... if nobody crosses it.
Uncrossed == \A p \in Procs \ disturbed : pc[p] # "idle" => AsLeft(p)

LiftInv(meant) ==
  /\ TypeOK /\ OpenTypes /\ AllFaithful(meant) /\ GraphsWhole /\ AllOriginal(meant)
  /\ KeysRight(meant) /\ Uncrossed /\ PreviousCopied

-----------------------------------------------------------------------------
(* The conversion.                                                         *)

LEMMA SeedIsUuid == \A n \in Names : Seed(n) \in Uuids /\ Seed(n) # None
BY LiftAssumption DEF Uuids, Seed

LEMMA LiftedFacts ==
  ASSUME NEW c \in Contents
  PROVE  /\ Lifted(c) \in Contents /\ Lifted(Lifted(c)) = Lifted(c)
         /\ Lifted(c).name = c.name /\ Lifted(c).id = c.id
         /\ Lifted(c).hint = c.hint /\ Lifted(c).to = c.to
         /\ Lifted(c).format \in {Current, Newer}
         /\ Lifted(c).format = Newer <=> c.format = Newer
         /\ c.format # 2 => Lifted(c) = c
         /\ c.format = 2 => Lifted(c).uuid = SeedOf(c.name) /\ Lifted(c).ref = SeedOf(c.hint)
<1>1. SeedOf(c.name) \in Uuids \cup {None} /\ SeedOf(c.hint) \in Uuids \cup {None}
  BY SeedIsUuid DEF SeedOf, Contents
<1>2. CASE c.format # 2
  BY <1>2 DEF Lifted, Contents, Current, Newer
<1>3. CASE c.format = 2
  <2>1. Lifted(c) = [c EXCEPT !.format = Current, !.uuid = SeedOf(c.name), !.ref = SeedOf(c.hint)]
    BY <1>3 DEF Lifted
  <2>2. Lifted(c) \in Contents /\ Lifted(c).format = Current
    BY <1>1, <2>1 DEF Contents
  <2> QED BY <1>3, <2>1, <2>2 DEF Lifted, Contents, Current, Newer
<1> QED BY <1>2, <1>3

\* What a file, a working set and a graph hold are contents.
LEMMA ContentFacts ==
  ASSUME TypeOK, NEW p \in Procs, NEW f \in Files
  PROVE  /\ Content(p, f) \in Contents /\ Graph(p)[f] = Lifted(Content(p, f))
         /\ Graph(p)[f] \in Contents /\ Lifted(Graph(p)[f]) = Graph(p)[f]
<1>1. Content(p, f) \in Contents
  BY DEF TypeOK, Content
<1> QED BY <1>1, LiftedFacts DEF Graph

LEMMA FaithfulLifted ==
  ASSUME NEW meant, NEW c \in Contents, Faithful(meant, c)
  PROVE  Faithful(meant, Lifted(c))
BY LiftedFacts DEF Faithful, Named, Refers

-----------------------------------------------------------------------------
(* At the start.                                                           *)

\* How the files begin: each name is one file's, and each reference names one.
Starts(own, o, schema) ==
  /\ \A f \in Files : o[f] \in Contents /\ o[f].format = 2
  /\ \A n \in Names, f \in Files : own[n] = f <=> o[f].name = n
  /\ \A f \in Files : Named(o[f]) => o[f].id = f
  /\ \A f \in Files : Refers(o[f]) => own[o[f].hint] \in Files /\ o[f].to = own[o[f].hint]
  /\ file = [f \in Files |-> IF schema = 1 THEN o[f] ELSE Lifted(o[f])]
  /\ registry \in [Registries -> {[schema |-> schema, of |-> f, spokes |-> TRUE,
                                   key |-> IF schema = 1 THEN o[f].name ELSE Seed(o[f].name)] :
                                     f \in {g \in Files : Named(o[g])}}]

LEMMA OwnerOf ==
  ASSUME NEW names \in [Files -> Names \cup {None}],
         \A f \in Files : {g \in Files : names[g] = names[f] /\ names[f] # None} \subseteq {f}
  PROVE  \E own \in [Names -> Files \cup {None}] :
           \A n \in Names, f \in Files : own[n] = f <=> names[f] = n
<1> DEFINE own == [n \in Names |-> IF \E f \in Files : names[f] = n
                                   THEN CHOOSE f \in Files : names[f] = n ELSE None]
<1>1. None \notin Files /\ None \notin Names
  BY LiftAssumption DEF Ids
<1>2. ASSUME NEW n \in Names, NEW f \in Files PROVE own[n] = f <=> names[f] = n
  BY <1>1
<1>3. own \in [Names -> Files \cup {None}]
  OBVIOUS
<1> HIDE DEF own
<1> QED BY <1>2, <1>3

LEMMA InitStarts ==
  ASSUME Init
  PROVE  \E own \in [Names -> Files \cup {None}], schema \in {1, 2} : \E o : Starts(own, o, schema)
<1> DEFINE owner(names, n) == {f \in Files : names[f] = n /\ n # None}
           old(names, hints) ==
             [f \in Files |->
                [format |-> 2, name |-> names[f], uuid |-> None,
                 id |-> IF names[f] = None THEN None ELSE f,
                 hint |-> hints[f], ref |-> None,
                 to |-> IF hints[f] = None THEN None ELSE CHOOSE g \in owner(names, hints[f]) : TRUE]]
<1>1. PICK called \in [Files -> Names \cup {None}], hinted \in [Files -> Names \cup {None}],
           schema \in {1, 2} :
        /\ \A f \in Files : owner(called, called[f]) \subseteq {f}
        /\ \A f \in Files : hinted[f] # None => owner(called, hinted[f]) # {}
        /\ file = [f \in Files |-> IF schema = 1 THEN old(called, hinted)[f]
                                                 ELSE Lifted(old(called, hinted)[f])]
        /\ registry \in [Registries -> {[schema |-> schema, of |-> f, spokes |-> TRUE,
                                          key |-> IF schema = 1 THEN called[f] ELSE Seed(called[f])] :
                                           f \in {g \in Files : called[g] # None}}]
  BY DEF Init
<1>2. \A f \in Files : owner(called, called[f]) \subseteq {f}
  BY <1>1
<1>3. \A f \in Files : hinted[f] # None => owner(called, hinted[f]) # {}
  BY <1>1
<1>4. PICK own \in [Names -> Files \cup {None}] :
        \A n \in Names, f \in Files : own[n] = f <=> called[f] = n
  BY <1>2, OwnerOf
<1>5. PICK o : o = old(called, hinted)
  OBVIOUS
<1>6. file = [f \in Files |-> IF schema = 1 THEN o[f] ELSE Lifted(o[f])]
  <2> HIDE DEF owner, old
  <2>1. file = [f \in Files |-> IF schema = 1 THEN old(called, hinted)[f]
                                              ELSE Lifted(old(called, hinted)[f])]
    BY <1>1
  <2> QED BY <1>5, <2>1
<1>7. registry \in [Registries -> {[schema |-> schema, of |-> f, spokes |-> TRUE,
                                    key |-> IF schema = 1 THEN called[f] ELSE Seed(called[f])] :
                                      f \in {g \in Files : called[g] # None}}]
  BY <1>1
<1>8. ASSUME NEW f \in Files
      PROVE  /\ o[f] \in Contents /\ o[f].format = 2 /\ o[f].name = called[f]
             /\ Named(o[f]) => o[f].id = f
             /\ Refers(o[f]) => own[o[f].hint] \in Files /\ o[f].to = own[o[f].hint]
  <2>1. o[f] = [format |-> 2, name |-> called[f], uuid |-> None,
                id |-> IF called[f] = None THEN None ELSE f,
                hint |-> hinted[f], ref |-> None,
                to |-> IF hinted[f] = None THEN None
                       ELSE CHOOSE g \in owner(called, hinted[f]) : TRUE]
    BY <1>5
  <2>2. ASSUME hinted[f] # None
        PROVE  /\ own[hinted[f]] \in Files
               /\ (CHOOSE g \in owner(called, hinted[f]) : TRUE) = own[hinted[f]]
    <3>1. PICK g \in Files : called[g] = hinted[f]
      BY <1>3, <2>2
    <3>2. own[hinted[f]] = g
      BY <1>4, <2>2, <3>1
    <3>3. owner(called, hinted[f]) = {g}
      BY <1>4, <2>2, <3>1, <3>2
    <3> QED BY <3>2, <3>3
  <2> HIDE DEF owner, old
  <2>3. o[f].to = IF hinted[f] = None THEN None ELSE own[hinted[f]]
    <3>1. o[f].to = IF hinted[f] = None THEN None
                    ELSE CHOOSE g \in owner(called, hinted[f]) : TRUE
      BY <2>1
    <3>2. CASE hinted[f] = None
      BY <3>1, <3>2
    <3>3. CASE hinted[f] # None
      BY <2>2, <3>1, <3>3
    <3> QED BY <3>2, <3>3
  <2>4. o[f].to \in Ids \cup {None}
    BY <2>2, <2>3 DEF Ids
  <2>5. /\ o[f].format = 2 /\ o[f].name = called[f] /\ o[f].uuid = None /\ o[f].hint = hinted[f]
        /\ o[f].id = (IF called[f] = None THEN None ELSE f) /\ o[f].ref = None
        /\ o[f] = [format |-> 2, name |-> called[f], uuid |-> None, id |-> o[f].id,
                   hint |-> hinted[f], ref |-> None, to |-> o[f].to]
    BY <2>1
  <2>6. o[f].id \in Ids \cup {None}
    BY <2>5 DEF Ids
  <2>7. o[f] \in Contents
    BY <2>4, <2>5, <2>6 DEF Contents
  <2> QED BY <2>2, <2>3, <2>5, <2>7 DEF Named, Refers
<1> HIDE DEF owner, old
<1>9. registry \in [Registries -> {[schema |-> schema, of |-> f, spokes |-> TRUE,
                                    key |-> IF schema = 1 THEN o[f].name ELSE Seed(o[f].name)] :
                                      f \in {g \in Files : Named(o[g])}}]
  <2>1. {[schema |-> schema, of |-> f, spokes |-> TRUE,
          key |-> IF schema = 1 THEN called[f] ELSE Seed(called[f])] :
            f \in {g \in Files : called[g] # None}}
        = {[schema |-> schema, of |-> f, spokes |-> TRUE,
            key |-> IF schema = 1 THEN o[f].name ELSE Seed(o[f].name)] :
              f \in {g \in Files : Named(o[g])}}
    BY <1>8 DEF Named
  <2> QED BY <1>7, <2>1
<1>10. Starts(own, o, schema)
  BY <1>4, <1>6, <1>8, <1>9 DEF Starts
<1> QED BY <1>10

LEMMA NumbersMeant ==
  ASSUME NEW own \in [Names -> Files \cup {None}],
         \A m, n \in Names : own[m] = own[n] /\ own[m] # None => m = n
  PROVE  \E meant : Numbering(meant) /\ \A n \in Names : meant[Seed(n)] = own[n]
<1> DEFINE meant == [u \in Uuids |-> IF u[1] = "seed" THEN own[u[2]] ELSE u[2]]
<1>1. ASSUME NEW n \in Names PROVE meant[Seed(n)] = own[n]
  <2>1. Seed(n) \in Uuids /\ Seed(n)[1] = "seed" /\ Seed(n)[2] = n
    BY SeedIsUuid DEF Seed
  <2> QED BY <2>1
<1>2. \A k \in 1 .. MaxEdits : Fresh(k) \in Uuids /\ meant[Fresh(k)] = k
  BY DEF Fresh, Uuids
<1>3. \A u \in Uuids : (\E n \in Names : u = Seed(n)) \/ (\E k \in 1 .. MaxEdits : u = Fresh(k))
  BY DEF Uuids
<1>4. meant = [u \in Uuids |-> meant[u]]
  OBVIOUS
<1> HIDE DEF meant
<1>5. meant \in [Uuids -> Ids \cup {None}]
  <2>1. ASSUME NEW u \in Uuids PROVE meant[u] \in Ids \cup {None}
    <3>1. CASE \E n \in Names : u = Seed(n)
      BY <1>1, <3>1 DEF Ids
    <3>2. CASE \E k \in 1 .. MaxEdits : u = Fresh(k)
      BY <1>2, <3>2 DEF Ids
    <3> QED BY <1>3, <3>1, <3>2
  <2> QED BY <1>4, <2>1
<1>6. ASSUME NEW u \in Uuids, NEW v \in Uuids, meant[u] = meant[v], meant[u] # None
      PROVE  u = v
  <2>1. CASE \E n \in Names : u = Seed(n)
    <3>1. PICK m \in Names : u = Seed(m)
      BY <2>1
    <3>2. meant[u] \in Files
      BY <1>1, <1>6, <3>1
    <3>3. PICK n \in Names : v = Seed(n)
      BY <1>2, <1>3, <1>6, <3>2, LiftAssumption
    <3> QED BY <1>1, <1>6, <3>1, <3>3
  <2>2. CASE \E k \in 1 .. MaxEdits : u = Fresh(k)
    <3>1. meant[u] \in 1 .. MaxEdits
      BY <1>2, <2>2
    <3>2. PICK k \in 1 .. MaxEdits : v = Fresh(k)
      BY <1>1, <1>3, <1>6, <3>1, LiftAssumption
    <3> QED BY <1>2, <1>6, <2>2, <3>2
  <2> QED BY <1>3, <2>1, <2>2
<1>7. Numbering(meant)
  BY <1>1, <1>2, <1>5, <1>6 DEF Numbering
<1> QED BY <1>1, <1>7

LEMMA InitLift == Init => \E meant : Numbering(meant) /\ LiftInv(meant)
<1> SUFFICES ASSUME Init PROVE \E meant : Numbering(meant) /\ LiftInv(meant)
  OBVIOUS
<1>1. PICK own \in [Names -> Files \cup {None}], schema \in {1, 2} :
        \E contents : Starts(own, contents, schema)
  BY InitStarts
<1>0. PICK o : Starts(own, o, schema)
  BY <1>1
<1>2. /\ \A f \in Files : o[f] \in Contents /\ o[f].format = 2
      /\ \A n \in Names, f \in Files : own[n] = f <=> o[f].name = n
      /\ \A f \in Files : Named(o[f]) => o[f].id = f
      /\ \A f \in Files : Refers(o[f]) => own[o[f].hint] \in Files /\ o[f].to = own[o[f].hint]
  BY <1>0 DEF Starts
<1>3. file = [f \in Files |-> IF schema = 1 THEN o[f] ELSE Lifted(o[f])]
  BY <1>0 DEF Starts
<1>4. \A r \in Registries : \E f \in Files :
        /\ Named(o[f])
        /\ registry[r] = [schema |-> schema, of |-> f, spokes |-> TRUE,
                          key |-> IF schema = 1 THEN o[f].name ELSE Seed(o[f].name)]
  BY <1>0 DEF Starts
<1>5. \A f \in Files : f # None /\ o[f].name \in Names \cup {None} /\ o[f].hint \in Names \cup {None}
  <2> SUFFICES ASSUME NEW f \in Files
               PROVE  f # None /\ o[f].name \in Names \cup {None} /\ o[f].hint \in Names \cup {None}
    OBVIOUS
  <2>1. f # None
    BY LiftAssumption DEF Ids
  <2>2. o[f] \in Contents
    BY <1>2
  <2>3. o[f].name \in Names \cup {None} /\ o[f].hint \in Names \cup {None}
    BY <2>2 DEF Contents
  <2> QED BY <2>1, <2>3
<1>6. \A m, n \in Names : own[m] = own[n] /\ own[m] # None => m = n
  BY <1>2
<1>7. PICK meant : Numbering(meant) /\ \A n \in Names : meant[Seed(n)] = own[n]
  BY <1>6, NumbersMeant
<1>8. \A f \in Files : file[f] \in {o[f], Lifted(o[f])}
  BY <1>3
<1>9. \A f \in Files : file[f] \in Contents /\ Lifted(file[f]) = Lifted(o[f])
  <2> SUFFICES ASSUME NEW f \in Files
               PROVE  file[f] \in Contents /\ Lifted(file[f]) = Lifted(o[f])
    OBVIOUS
  <2>1. o[f] \in Contents /\ file[f] \in {o[f], Lifted(o[f])}
    BY <1>2, <1>8
  <2>2. Lifted(o[f]) \in Contents /\ Lifted(Lifted(o[f])) = Lifted(o[f])
    BY <2>1, LiftedFacts
  <2> QED BY <2>1, <2>2
<1>10. \A f \in Files :
         /\ Lifted(o[f]).name = o[f].name /\ Lifted(o[f]).uuid = SeedOf(o[f].name)
         /\ Lifted(o[f]).hint = o[f].hint /\ Lifted(o[f]).ref = SeedOf(o[f].hint)
         /\ Lifted(o[f]).id = o[f].id /\ Lifted(o[f]).to = o[f].to
  BY <1>2, LiftedFacts
<1>11. \A f \in Files : Named(o[f]) => /\ o[f].name \in Names /\ own[o[f].name] = f
                                       /\ Lifted(o[f]).uuid = Seed(o[f].name)
  BY <1>2, <1>5, <1>10 DEF Named, SeedOf
<1>12. \A f \in Files : Refers(o[f]) => /\ o[f].hint \in Names
                                        /\ Lifted(o[f]).ref = Seed(o[f].hint)
  BY <1>2, <1>5, <1>10 DEF Refers, SeedOf
<1>13. \A f \in Files : Faithful(meant, o[f])
  <2> SUFFICES ASSUME NEW f \in Files PROVE Faithful(meant, o[f])
    OBVIOUS
  <2>1. Named(o[f]) => Lifted(o[f]).uuid \in Uuids /\ meant[Lifted(o[f]).uuid] = o[f].id
                       /\ o[f].id # None
    BY <1>2, <1>5, <1>7, <1>11, SeedIsUuid
  <2>2. Refers(o[f]) => Lifted(o[f]).ref \in Uuids /\ meant[Lifted(o[f]).ref] = o[f].to
                        /\ o[f].to # None
    BY <1>2, <1>5, <1>7, <1>12, SeedIsUuid
  <2> QED BY <2>1, <2>2 DEF Faithful
<1>14. /\ copies = {} /\ shown = FALSE /\ staged = [f \in Files |-> None] /\ made = 0
       /\ pc = [p \in Procs |-> "idle"] /\ todo = [p \in Procs |-> {}]
       /\ at = [p \in Procs |-> None] /\ text = [p \in Procs |-> None]
       /\ index = [p \in Procs |-> [n \in Names |-> None]]
       /\ disturbed = {} /\ mixed = FALSE /\ torn = FALSE /\ lost = {} /\ edits = 0
  BY DEF Init
<1>15. TypeOK
  <2>1. file \in [Files -> Contents]
    BY <1>3, <1>9
  <2>2. registry \in [Registries -> RegistryContents]
    <3>1. ASSUME NEW r \in Registries PROVE registry[r] \in RegistryContents
      <4>1. PICK f \in Files :
              /\ Named(o[f])
              /\ registry[r] = [schema |-> schema, of |-> f, spokes |-> TRUE,
                                key |-> IF schema = 1 THEN o[f].name ELSE Seed(o[f].name)]
        BY <1>4
      <4>2. o[f].name \in Names /\ Seed(o[f].name) \in Uuids
        BY <1>11, <4>1, SeedIsUuid
      <4> QED BY <4>1, <4>2 DEF RegistryContents, Ids
    <3>2. registry = [r \in Registries |-> registry[r]]
      BY <1>0 DEF Starts
    <3> QED BY <3>1, <3>2
  <2>3. /\ pc \in [Procs -> {"idle", "files", "read", "copied", "registries", "registry read"}]
        /\ todo \in [Procs -> SUBSET (Files \cup Registries)]
        /\ at \in [Procs -> Files \cup Registries \cup {None}]
        /\ text \in [Procs -> Contents \cup RegistryContents \cup {None}]
        /\ index \in [Procs -> [Names -> Uuids \cup {None}]]
    BY <1>14
  <2>4. staged \in [Files -> Contents \cup {None}] /\ made \in 0 .. MaxEdits /\ copies \subseteq Files \X Contents
    BY <1>14, LiftAssumption
  <2> QED BY <1>14, <2>1, <2>2, <2>3, <2>4 DEF TypeOK
<1>16. OpenTypes
  BY <1>14, LiftAssumption DEF OpenTypes, Lifting, LiftingFiles, LiftingRegistries
<1>17. AllFaithful(meant)
  BY <1>2, <1>8, <1>13, <1>14, FaithfulLifted DEF AllFaithful, Lifting
<1>18. GraphsWhole
  <2>1. \A p \in Procs, f \in Files : Graph(p)[f] = Lifted(o[f])
    BY <1>9, <1>14 DEF Graph, Content
  <2>2. \A m, n \in Names : Seed(m) = Seed(n) => m = n
    BY DEF Seed
  <2>3. ASSUME NEW p \in Procs PROVE Whole(Graph(p))
    <3>1. \A f \in Files : /\ Named(Graph(p)[f]) <=> Named(o[f])
                           /\ Refers(Graph(p)[f]) <=> Refers(o[f])
                           /\ Graph(p)[f].name = o[f].name
      BY <1>10, <2>1 DEF Named, Refers
    <3>2. ASSUME NEW f \in Files, NEW g \in Files, f # g, Named(Graph(p)[f]), Named(Graph(p)[g])
          PROVE  /\ Graph(p)[f].name # Graph(p)[g].name
                 /\ Graph(p)[f].uuid # Graph(p)[g].uuid
      <4>1. o[f].name # o[g].name /\ o[f].name \in Names /\ o[g].name \in Names
        BY <1>11, <3>1, <3>2
      <4> QED BY <1>11, <2>1, <2>2, <3>1, <3>2, <4>1
    <3>3. ASSUME NEW f \in Files, Refers(Graph(p)[f])
          PROVE  \E g \in Files : Named(Graph(p)[g]) /\ Graph(p)[g].uuid = Graph(p)[f].ref
      <4>1. PICK g \in Files : g = own[o[f].hint]
        BY <1>2, <3>1, <3>3
      <4>2. o[g].name = o[f].hint /\ o[f].hint \in Names
        BY <1>2, <1>12, <3>1, <3>3, <4>1
      <4>3. Named(o[g])
        BY <4>2, LiftAssumption DEF Named
      <4> QED BY <1>11, <1>12, <2>1, <3>1, <3>3, <4>2, <4>3
    <3> QED BY <3>2, <3>3 DEF Whole
  <2> QED BY <2>3 DEF GraphsWhole
<1>19. AllOriginal(meant)
  <2>1. ASSUME NEW f \in Files PROVE Original(meant, f, file[f])
    <3>1. file[f].name = o[f].name /\ file[f].id = o[f].id
      BY <1>8, <1>10
    <3> QED BY <1>2, <1>7, <3>1 DEF Original, Named
  <2> QED BY <1>14, <2>1 DEF AllOriginal, Lifting, LiftingRegistries
<1>20. KeysRight(meant)
  <2>1. ASSUME NEW r \in Registries PROVE KeyRight(meant, registry[r])
    <3>1. PICK f \in Files :
            /\ Named(o[f])
            /\ registry[r] = [schema |-> schema, of |-> f, spokes |-> TRUE,
                              key |-> IF schema = 1 THEN o[f].name ELSE Seed(o[f].name)]
      BY <1>4
    <3>2. /\ registry[r].schema = schema /\ registry[r].of = f
          /\ registry[r].key = IF schema = 1 THEN o[f].name ELSE Seed(o[f].name)
      BY <3>1
    <3>3. /\ o[f].name \in Names /\ Seed(o[f].name) \in Uuids
          /\ meant[Seed(o[f].name)] = f /\ f # None
      BY <1>5, <1>7, <1>11, <3>1, SeedIsUuid
    <3> QED BY <3>2, <3>3 DEF KeyRight
  <2> QED BY <1>14, <2>1 DEF KeysRight
<1>21. Uncrossed /\ PreviousCopied
  BY <1>14 DEF Uncrossed, PreviousCopied
<1> QED BY <1>7, <1>15, <1>16, <1>17, <1>18, <1>19, <1>20, <1>21 DEF LiftInv

-----------------------------------------------------------------------------
(* The edits.                                                              *)

LEMMA GraphFacts ==
  ASSUME TypeOK, NEW p \in Procs
  PROVE  Graph(p) \in [Files -> Contents]
<1>1. Graph(p) = [f \in Files |-> Graph(p)[f]]
  BY DEF Graph
<1> QED BY <1>1, ContentFacts

LEMMA SoundIsWhole ==
  ASSUME NEW graph
  PROVE  Sound(graph) <=> Whole(graph) /\ \A f \in Files : graph[f].format = Current
BY DEF Sound, Whole

\* The writer's stamp changes the hint only, and leaves one where there is one.
LEMMA HintedFacts ==
  ASSUME NEW graph \in [Files -> Contents], Sound(graph), NEW f \in Files
  PROVE  LET h == Hinted(graph[f], graph) IN
         /\ h \in Contents /\ h.format = Current
         /\ h.name = graph[f].name /\ h.uuid = graph[f].uuid /\ h.id = graph[f].id
         /\ h.ref = graph[f].ref /\ h.to = graph[f].to /\ (Refers(h) <=> Refers(graph[f]))
<1>1. graph[f] \in Contents /\ graph[f].format = Current
  BY DEF Sound
<1>2. CASE ~Refers(graph[f])
  BY <1>1, <1>2 DEF Hinted
<1>3. CASE Refers(graph[f])
  <2> DEFINE t == CHOOSE t \in {graph[g] : g \in Files} : Named(t) /\ t.uuid = graph[f].ref
  <2>1. t \in {graph[g] : g \in Files} /\ Named(t)
    <3>1. \E s \in {graph[g] : g \in Files} : Named(s) /\ s.uuid = graph[f].ref
      BY <1>3 DEF Sound
    <3> QED BY <3>1
  <2>2. t.name \in Names
    <3>1. t \in Contents
      BY <2>1
    <3> QED BY <2>1, <3>1 DEF Contents, Named
  <2>3. Hinted(graph[f], graph) = [graph[f] EXCEPT !.hint = t.name]
    BY <1>3 DEF Hinted
  <2> HIDE DEF t
  <2> QED BY <1>1, <1>3, <2>2, <2>3, LiftAssumption DEF Contents, Refers
<1> QED BY <1>2, <1>3

\* What an edit does: a content whose record and reference are right is staged
\* where the graph with it is sound.
Staging(meant, f, h) ==
  /\ h \in Contents /\ h.format = Current /\ Faithful(meant, h)
  /\ staged' = [staged EXCEPT ![f] = h]
  /\ Whole([Graph(Gui) EXCEPT ![f] = h])
  /\ pc[Gui] = "idle" /\ edits < MaxEdits /\ edits' = edits + 1 /\ made' \in {made, made + 1}
  /\ UNCHANGED <<file, copies, registry, pc, todo, at, text, index, disturbed, mixed, torn, lost, shown>>

Editing ==
  \/ \E f \in Files, n \in Names : Rename(f, n) \/ Create(f, n)
  \/ \E f \in Files : EditForm(f)
  \/ \E f, g \in Files : Refer(f, g)

LEMMA StageFacts ==
  ASSUME TypeOK, NEW meant, NEW f \in Files, NEW c \in Contents, Stage(f, c), Faithful(meant, c),
         made' \in {made, made + 1}
  PROVE  \E h : Staging(meant, f, h)
<1> DEFINE graph == [Graph(Gui) EXCEPT ![f] = c]
           h == Hinted(c, graph)
<1>1. graph \in [Files -> Contents] /\ graph[f] = c
  BY GraphFacts DEF Procs
<1>2. Sound(graph) /\ staged' = [staged EXCEPT ![f] = h]
  BY DEF Stage
<1>3. /\ h \in Contents /\ h.format = Current
      /\ h.name = c.name /\ h.uuid = c.uuid /\ h.id = c.id
      /\ h.ref = c.ref /\ h.to = c.to /\ (Refers(h) <=> Refers(c))
  BY <1>1, <1>2, HintedFacts
<1>4. c.format = Current
  BY <1>1, <1>2 DEF Sound
<1>5. pc[Gui] = "idle" /\ edits < MaxEdits /\ edits' = edits + 1
  BY DEF Stage
<1>6. UNCHANGED <<file, copies, registry, pc, todo, at, text, index, disturbed, mixed, torn, lost, shown>>
  BY DEF Stage, disk, openVars
<1>7. Faithful(meant, h)
  <2> HIDE DEF h
  <2>1. Lifted(h) = h /\ Lifted(c) = c
    BY <1>3, <1>4 DEF Lifted, Current
  <2> QED BY <1>3, <2>1 DEF Faithful, Named
<1>8. Whole([Graph(Gui) EXCEPT ![f] = h])
  <2> DEFINE new == [Graph(Gui) EXCEPT ![f] = h]
  <2>1. Whole(graph)
    BY <1>2, SoundIsWhole
  <2>2. ASSUME NEW g \in Files
        PROVE  /\ new[g].name = graph[g].name /\ new[g].uuid = graph[g].uuid
               /\ new[g].ref = graph[g].ref /\ (Refers(new[g]) <=> Refers(graph[g]))
    <3> HIDE DEF h
    <3>1. CASE g = f
      BY <1>1, <1>3, <3>1, GraphFacts DEF Procs
    <3>2. CASE g # f
      BY <3>2, GraphFacts DEF Procs
    <3> QED BY <3>1, <3>2
  <2> HIDE DEF new, graph, h
  <2>3. Whole(new)
    BY <2>1, <2>2 DEF Whole, Named
  <2> QED BY <2>3 DEF new
<1> HIDE DEF h, graph
<1>9. Staging(meant, f, h)
  BY <1>2, <1>3, <1>5, <1>6, <1>7, <1>8 DEF Staging
<1> QED BY <1>9

LEMMA GraphFaithful ==
  ASSUME TypeOK, NEW meant, AllFaithful(meant), NEW p \in Procs, NEW f \in Files
  PROVE  Faithful(meant, Graph(p)[f])
<1>1. Faithful(meant, Content(p, f))
  BY DEF AllFaithful, Content
<1> QED BY <1>1, ContentFacts, FaithfulLifted

LEMMA EditsStage ==
  ASSUME TypeOK, OpenTypes, NEW meant, Numbering(meant), AllFaithful(meant), Editing
  PROVE  \E f \in Files, h \in Contents : Staging(meant, f, h)
<1> SUFFICES \E f \in Files : \E h : Staging(meant, f, h)
  BY DEF Staging
<1> DEFINE old(f) == Graph(Gui)[f]
<1>1. ASSUME NEW f \in Files
      PROVE  /\ old(f) \in Contents /\ Faithful(meant, old(f)) /\ Lifted(old(f)) = old(f)
  BY GraphFaithful, ContentFacts DEF Procs
<1>2. ASSUME Sound(Graph(Gui)), NEW f \in Files
      PROVE  old(f).format = Current
  BY <1>2 DEF Sound
<1> HIDE DEF old
<1>3. ASSUME NEW c \in Contents, c.format = Current
      PROVE  Lifted(c) = c
  BY <1>3 DEF Lifted, Current
<1>4. ASSUME NEW f \in Files, NEW n \in Names, Rename(f, n)
      PROVE  \E h : Staging(meant, f, h)
  <2> DEFINE c == [old(f) EXCEPT !.name = n]
  <2>1. Stage(f, c) /\ Named(old(f)) /\ made' = made
    BY <1>4 DEF Rename, old
  <2>2. Sound(Graph(Gui))
    BY <2>1 DEF Stage
  <2>3. /\ c \in Contents /\ c.format = Current /\ c.uuid = old(f).uuid /\ c.id = old(f).id
        /\ c.hint = old(f).hint /\ c.ref = old(f).ref /\ c.to = old(f).to
    BY <1>1, <1>2, <2>2 DEF Contents
  <2> HIDE DEF c
  <2>4. Faithful(meant, c)
    BY <1>1, <1>3, <2>1, <2>3 DEF Faithful, Refers
  <2> QED BY <2>1, <2>3, <2>4, StageFacts
<1>5. ASSUME NEW f \in Files, EditForm(f)
      PROVE  \E h : Staging(meant, f, h)
  <2> DEFINE c == [old(f) EXCEPT !.uuid = Stamped(f, old(f))]
  <2>1. Stage(f, c) /\ made' \in {made, made + 1}
    BY <1>5 DEF EditForm, old
  <2>2. c = old(f)
    BY <1>1 DEF Stamped, old, Contents
  <2> HIDE DEF c
  <2> QED BY <1>1, <2>1, <2>2, StageFacts
<1>6. ASSUME NEW f \in Files, NEW n \in Names, Create(f, n)
      PROVE  \E h : Staging(meant, f, h)
  <2> DEFINE new == [old(f) EXCEPT !.name = n, !.id = made + 1]
             c == [new EXCEPT !.uuid = Stamped(f, new)]
  <2>1. Stage(f, c) /\ ~Named(old(f)) /\ made' = made + 1
    BY <1>6 DEF Create, old
  <2>2. Sound(Graph(Gui)) /\ edits < MaxEdits
    BY <2>1 DEF Stage
  <2>3. Stamped(f, new) = Fresh(made + 1)
    <3>1. new.name = n /\ old(f).name = None /\ n # None
      BY <1>1, <2>1, LiftAssumption DEF Contents, Named
    <3> HIDE DEF new
    <3> QED BY <3>1 DEF Stamped, old
  <2>4. made + 1 \in 1 .. MaxEdits /\ made + 1 # None /\ Fresh(made + 1) \in Uuids
    <3>1. made + 1 \in 1 .. MaxEdits
      <4>1. made \in 0 .. MaxEdits /\ edits \in 0 .. MaxEdits /\ made <= edits
        BY DEF OpenTypes, TypeOK
      <4> QED BY <2>2, <4>1, LiftAssumption
    <3> QED BY <3>1, LiftAssumption DEF Uuids, Ids
  <2>5. c = [old(f) EXCEPT !.name = n, !.id = made + 1, !.uuid = Fresh(made + 1)]
    BY <2>3
  <2> HIDE DEF c, new
  <2>6. /\ c \in Contents /\ c.format = Current /\ c.uuid = Fresh(made + 1) /\ c.id = made + 1
        /\ c.hint = old(f).hint /\ c.ref = old(f).ref /\ c.to = old(f).to
    BY <1>1, <1>2, <2>2, <2>4, <2>5 DEF Contents, Ids
  <2>7. meant[Fresh(made + 1)] = made + 1
    BY <2>4 DEF Numbering
  <2>8. Faithful(meant, c)
    BY <1>1, <1>3, <2>4, <2>6, <2>7 DEF Faithful, Refers
  <2> QED BY <2>1, <2>6, <2>8, StageFacts
<1>7. ASSUME NEW f \in Files, NEW g \in Files, Refer(f, g)
      PROVE  \E h : Staging(meant, f, h)
  <2> DEFINE c == [old(f) EXCEPT !.hint = old(g).name, !.ref = old(g).uuid, !.to = old(g).id]
  <2>1. Stage(f, c) /\ Named(old(g)) /\ made' = made
    BY <1>7 DEF Refer, old
  <2>2. Sound(Graph(Gui))
    BY <2>1 DEF Stage
  <2>3. old(g).uuid \in Uuids /\ meant[old(g).uuid] = old(g).id /\ old(g).id # None
    BY <1>1, <2>1 DEF Faithful
  <2>4. /\ c \in Contents /\ c.format = Current /\ c.uuid = old(f).uuid /\ c.id = old(f).id
        /\ c.name = old(f).name /\ c.ref = old(g).uuid /\ c.to = old(g).id
    BY <1>1, <1>2, <2>2 DEF Contents
  <2> HIDE DEF c
  <2>5. Faithful(meant, c)
    BY <1>1, <1>3, <2>3, <2>4 DEF Faithful, Named
  <2> QED BY <2>1, <2>4, <2>5, StageFacts
<1> QED BY <1>4, <1>5, <1>6, <1>7 DEF Editing

-----------------------------------------------------------------------------
(* The types.                                                              *)

\* One program is on its way, with nothing in hand or a file it just read; the
\* others do not move.
LEMMA OpenTypesKept ==
  ASSUME OpenTypes, NEW p \in Procs, UNCHANGED <<staged, edits, made>>,
         \A q \in Procs \ {p} :
           pc'[q] = pc[q] /\ todo'[q] = todo[q] /\ at'[q] = at[q] /\ text'[q] = text[q],
         pc'[p] \in {"idle", "files", "read", "registries"},
         pc'[p] = "idle" => todo'[p] = {},
         pc'[p] \in {"files", "read"} => todo'[p] \subseteq Files,
         pc'[p] = "read" => at'[p] \in Files /\ text'[p] \in Contents /\ text'[p].format = Current,
         pc'[p] = "registries" => todo'[p] \subseteq Registries
  PROVE  OpenTypes'
<1> USE DEF Lifting, LiftingFiles, LiftingRegistries
<1>1. ASSUME NEW q \in Procs
      PROVE  /\ pc'[q] = "idle" => todo'[q] = {}
             /\ LiftingFiles(q)' => todo'[q] \subseteq Files
             /\ LiftingRegistries(q)' => todo'[q] \subseteq Registries
             /\ Lifting(q)' => at'[q] \in Files /\ text'[q] \in Contents
                                 /\ text'[q].format = Current
             /\ pc'[q] = "registry read" => at'[q] \in Registries
                  /\ text'[q] \in RegistryContents /\ text'[q].schema = 3
  <2>1. CASE q = p
    BY <2>1
  <2>2. CASE q # p
    <3>1. pc'[q] = pc[q] /\ todo'[q] = todo[q] /\ at'[q] = at[q] /\ text'[q] = text[q]
      BY <2>2
    <3>2. /\ pc[q] = "idle" => todo[q] = {}
          /\ LiftingFiles(q) => todo[q] \subseteq Files
          /\ LiftingRegistries(q) => todo[q] \subseteq Registries
      BY DEF OpenTypes
    <3>3. /\ Lifting(q) => at[q] \in Files /\ text[q] \in Contents /\ text[q].format = Current
          /\ pc[q] = "registry read" =>
               at[q] \in Registries /\ text[q] \in RegistryContents /\ text[q].schema = 3
      BY DEF OpenTypes
    <3> HIDE DEF OpenTypes
    <3> QED BY <3>1, <3>2, <3>3
  <2> QED BY <2>1, <2>2
<1>2. /\ \A f \in Files : staged'[f] # None => staged'[f].format = Current
      /\ edits' \in 0 .. MaxEdits /\ made' <= edits'
  BY DEF OpenTypes
<1> QED BY <1>1, <1>2 DEF OpenTypes

\* An open that ends forgets what it held.
LEMMA ForgetKept ==
  ASSUME TypeOK, OpenTypes, NEW p \in Procs, pc' = [pc EXCEPT ![p] = "idle"], Forget(p), shown' \in BOOLEAN,
         UNCHANGED <<file, copies, registry, disturbed, lost, torn, staged, made, mixed, edits>>
  PROVE  TypeOK' /\ OpenTypes'
<1>1. /\ todo' = [todo EXCEPT ![p] = {}] /\ at' = [at EXCEPT ![p] = None]
      /\ text' = [text EXCEPT ![p] = None] /\ index' = [index EXCEPT ![p] = [n \in Names |-> None]]
  BY DEF Forget
<1>2. TypeOK'
  BY <1>1 DEF TypeOK
<1>3. /\ pc \in [Procs -> {"idle", "files", "read", "copied", "registries", "registry read"}]
      /\ todo \in [Procs -> SUBSET (Files \cup Registries)]
      /\ at \in [Procs -> Files \cup Registries \cup {None}]
      /\ text \in [Procs -> Contents \cup RegistryContents \cup {None}]
  BY DEF TypeOK
<1>4. pc'[p] = "idle" /\ todo'[p] = {}
  BY <1>1, <1>3
<1>5. \A q \in Procs \ {p} :
        pc'[q] = pc[q] /\ todo'[q] = todo[q] /\ at'[q] = at[q] /\ text'[q] = text[q]
  BY <1>1, <1>3
<1> QED BY <1>2, <1>4, <1>5, OpenTypesKept

LEMMA TypesStep ==
  ASSUME TypeOK, OpenTypes, NEW meant, Numbering(meant), AllFaithful(meant), [Next]_vars
  PROVE  TypeOK' /\ OpenTypes'
<1> USE DEF Lifting, LiftingFiles, LiftingRegistries
<1>t. /\ file \in [Files -> Contents] /\ copies \subseteq Files \X Contents
      /\ registry \in [Registries -> RegistryContents]
      /\ shown \in BOOLEAN /\ staged \in [Files -> Contents \cup {None}] /\ made \in 0 .. MaxEdits
      /\ pc \in [Procs -> {"idle", "files", "read", "copied", "registries", "registry read"}]
      /\ todo \in [Procs -> SUBSET (Files \cup Registries)]
      /\ at \in [Procs -> Files \cup Registries \cup {None}]
      /\ text \in [Procs -> Contents \cup RegistryContents \cup {None}]
      /\ index \in [Procs -> [Names -> Uuids \cup {None}]]
      /\ disturbed \subseteq Procs /\ mixed \in BOOLEAN /\ torn \in BOOLEAN
      /\ lost \subseteq {"undisturbed", "disturbed"}
  BY DEF TypeOK
<1>o. /\ \A p \in Procs : pc[p] = "idle" => todo[p] = {}
      /\ \A p \in Procs : LiftingFiles(p) => todo[p] \subseteq Files
      /\ \A p \in Procs : LiftingRegistries(p) => todo[p] \subseteq Registries
      /\ \A p \in Procs : Lifting(p) =>
           at[p] \in Files /\ text[p] \in Contents /\ text[p].format = Current
      /\ \A p \in Procs : pc[p] = "registry read" =>
           at[p] \in Registries /\ text[p] \in RegistryContents /\ text[p].schema = 3
      /\ \A f \in Files : staged[f] # None => staged[f].format = Current
      /\ edits \in 0 .. MaxEdits /\ made <= edits
  BY DEF OpenTypes
<1>r. Files \cup Registries \subseteq Files \cup Registries /\ Crossed \subseteq Procs
  BY DEF Crossed
<1>1. CASE UNCHANGED vars
  BY <1>1 DEF vars, disk, openVars, counters, TypeOK, OpenTypes
<1>2. ASSUME NEW p \in Procs, Open(p) PROVE TypeOK' /\ OpenTypes'
  <2>1. /\ pc[p] = "idle" /\ pc' = [pc EXCEPT ![p] = "files"]
        /\ todo' = todo \/ todo' = [todo EXCEPT ![p] = {f \in Files : file[f].format < Current}]
        /\ disturbed' \in {disturbed \cup {p}, disturbed \ {p}}
        /\ UNCHANGED <<file, copies, registry, at, text, index, lost, torn, shown, staged, made, mixed, edits>>
    BY <1>2 DEF Open, Goto, unchangedByOpen, disk
  <2>2. todo[p] = {}
    BY <1>o, <2>1
  <2>3. PICK work \in SUBSET Files : todo' = [todo EXCEPT ![p] = work]
    <3>1. CASE todo' = todo
      <4>1. todo' = [todo EXCEPT ![p] = {}]
        BY <1>t, <2>2, <3>1
      <4> QED BY <4>1
    <3>2. CASE todo' = [todo EXCEPT ![p] = {f \in Files : file[f].format < Current}]
      <4>1. {f \in Files : file[f].format < Current} \in SUBSET Files
        OBVIOUS
      <4> QED BY <3>2, <4>1
    <3> QED BY <2>1, <3>1, <3>2
  <2>4. TypeOK'
    BY <1>t, <2>1, <2>3 DEF TypeOK
  <2>5. pc'[p] = "files" /\ todo'[p] \subseteq Files
    BY <1>t, <2>1, <2>3
  <2>6. \A q \in Procs \ {p} :
          pc'[q] = pc[q] /\ todo'[q] = todo[q] /\ at'[q] = at[q] /\ text'[q] = text[q]
    BY <1>t, <2>1, <2>3
  <2>7. OpenTypes'
    BY <2>1, <2>5, <2>6, OpenTypesKept
  <2> QED BY <2>4, <2>7
<1>3. ASSUME NEW p \in Procs, NEW f \in Files, ReadFile(p, f) PROVE TypeOK' /\ OpenTypes'
  <2>1. file[f].format # Newer => Lifted(file[f]) \in Contents /\ Lifted(file[f]).format = Current
    BY <1>t, LiftedFacts
  <2>2. /\ pc[p] = "files" /\ f \in todo[p] /\ todo' = [todo EXCEPT ![p] = @ \ {f}]
        /\ UNCHANGED <<file, copies, registry, index, disturbed, lost, torn, shown, staged, made, mixed, edits>>
    BY <1>3 DEF ReadFile, unchangedByOpen, disk
  <2>5. todo[p] \subseteq Files
    BY <1>o, <2>2
  <2>6. \A q \in Procs \ {p} :
          pc'[q] = pc[q] /\ todo'[q] = todo[q] /\ at'[q] = at[q] /\ text'[q] = text[q]
    <3>1. \A q \in Procs \ {p} : todo'[q] = todo[q]
      BY <1>t, <2>2
    <3>2. \A q \in Procs \ {p} : pc'[q] = pc[q] /\ at'[q] = at[q] /\ text'[q] = text[q]
      BY <1>t, <1>3 DEF ReadFile, Goto
    <3> QED BY <3>1, <3>2
  <2>3. CASE file[f].format = Newer
    <3>1. UNCHANGED <<pc, at, text>>
      BY <1>3, <2>3 DEF ReadFile
    <3>2. TypeOK'
      BY <1>t, <2>2, <3>1 DEF TypeOK
    <3>3. pc'[p] = "files" /\ todo'[p] \subseteq Files
      BY <1>t, <2>2, <2>5, <3>1
    <3> QED BY <2>2, <2>6, <3>1, <3>2, <3>3, OpenTypesKept
  <2>4. CASE file[f].format # Newer
    <3>1. /\ pc' = [pc EXCEPT ![p] = "read"] /\ at' = [at EXCEPT ![p] = f]
          /\ text' = [text EXCEPT ![p] = Lifted(file[f])]
      BY <1>3, <2>4 DEF ReadFile, Goto
    <3>2. TypeOK'
      BY <1>t, <2>1, <2>2, <2>4, <3>1 DEF TypeOK
    <3>3. pc'[p] = "read" /\ todo'[p] \subseteq Files /\ at'[p] = f
          /\ text'[p] = Lifted(file[f])
      BY <1>t, <2>2, <2>5, <3>1
    <3>4. at'[p] \in Files /\ text'[p] \in Contents /\ text'[p].format = Current
      BY <2>1, <2>4, <3>3
    <3> QED BY <2>2, <2>6, <3>2, <3>3, <3>4, OpenTypesKept
  <2> QED BY <2>3, <2>4
<1>4. ASSUME NEW p \in Procs, CopyFile(p) PROVE TypeOK' /\ OpenTypes'
  <2>1. copies' \subseteq Files \X Contents
    <3>1. copies' = copies \cup {<<at[p], file[at[p]]>>} /\ pc[p] = "read"
      BY <1>4 DEF CopyFile, Copied
    <3>2. at[p] \in Files /\ file[at[p]] \in Contents
      BY <1>t, <1>o, <3>1
    <3>3. <<at[p], file[at[p]]>> \in Files \X Contents
      BY <3>2
    <3>4. copies \subseteq Files \X Contents
      BY <1>t
    <3> QED BY <3>1, <3>3, <3>4
  <2> QED BY <1>4, <1>t, <1>o, <2>1, ZenonT(60) DEF TypeOK, OpenTypes, CopyFile, Goto, unchangedByOpen
<1>5. ASSUME NEW p \in Procs, CopyFails(p) PROVE TypeOK' /\ OpenTypes'
  <2>1. /\ pc' = [pc EXCEPT ![p] = "idle"] /\ Forget(p)
        /\ UNCHANGED <<file, copies, registry, disturbed, lost, torn, shown, staged, made, mixed, edits>>
    BY <1>5 DEF CopyFails, Refused, Goto, unchangedByOpen, disk
  <2>2. shown' \in BOOLEAN
    BY <2>1, <1>t
  <2> QED BY <2>1, <2>2, ForgetKept
<1>6. ASSUME NEW p \in Procs, WriteFile(p) PROVE TypeOK' /\ OpenTypes'
  <2>1. /\ pc[p] = "copied" /\ pc' = [pc EXCEPT ![p] = "files"] /\ at' = [at EXCEPT ![p] = None]
        /\ text' = [text EXCEPT ![p] = None]
        /\ UNCHANGED <<copies, registry, todo, index, shown, staged, made, mixed, edits>>
    BY <1>6 DEF WriteFile, Passed, Goto, unchangedByOpen
  <2>2. file' \in [Files -> Contents] /\ disturbed' \subseteq Procs /\ torn' \in BOOLEAN
        /\ lost' \subseteq {"undisturbed", "disturbed"}
    <3>1. at[p] \in Files /\ text[p] \in Contents
      BY <1>o, <2>1
    <3>2. CASE file[at[p]].format = Newer
      <4>1. UNCHANGED <<file, torn, lost, disturbed>>
        BY <1>6, <3>2 DEF WriteFile
      <4> QED BY <1>t, <4>1
    <3>3. CASE file[at[p]].format # Newer
      <4> DEFINE undone == text[p] # Lifted(file[at[p]])
                 how == IF p \in disturbed THEN "disturbed" ELSE "undisturbed"
      <4>1. /\ file' = [file EXCEPT ![at[p]] = text[p]] /\ torn' = (torn \/ undone)
            /\ disturbed' = disturbed \cup Crossed \/ disturbed' = disturbed
            /\ lost' = lost \/ lost' = lost \cup {how}
        BY <1>6, <3>3 DEF WriteFile
      <4>2. how \in {"undisturbed", "disturbed"} /\ undone \in BOOLEAN
        OBVIOUS
      <4> HIDE DEF undone, how
      <4>3. file' \in [Files -> Contents]
        BY <1>t, <3>1, <4>1
      <4> QED BY <1>t, <1>r, <4>1, <4>2, <4>3
    <3> QED BY <3>2, <3>3
  <2>3. TypeOK'
    BY <1>t, <2>1, <2>2 DEF TypeOK
  <2>4. pc'[p] = "files" /\ todo'[p] = todo[p] /\ todo[p] \subseteq Files
    BY <1>t, <1>o, <2>1
  <2>5. \A q \in Procs \ {p} :
          pc'[q] = pc[q] /\ todo'[q] = todo[q] /\ at'[q] = at[q] /\ text'[q] = text[q]
    BY <1>t, <2>1
  <2> QED BY <2>1, <2>3, <2>4, <2>5, OpenTypesKept
<1>7. ASSUME NEW p \in Procs, WriteFails(p) PROVE TypeOK' /\ OpenTypes'
  <2>1. /\ disturbed' = disturbed \cup {p} /\ at' = [at EXCEPT ![p] = None]
        /\ text' = [text EXCEPT ![p] = None]
        /\ \/ pc[p] = "copied" /\ pc' = [pc EXCEPT ![p] = "files"]
           \/ pc[p] = "registry read" /\ pc' = [pc EXCEPT ![p] = "registries"]
        /\ UNCHANGED <<file, copies, registry, todo, index, lost, torn, shown, staged, made, mixed, edits>>
    BY <1>7 DEF WriteFails, Passed, Goto, unchangedByOpen, disk
  <2>2. TypeOK'
    BY <1>t, <2>1 DEF TypeOK
  <2>3. /\ pc'[p] \in {"files", "registries"} /\ todo'[p] = todo[p]
        /\ pc'[p] = "files" => todo[p] \subseteq Files
        /\ pc'[p] = "registries" => todo[p] \subseteq Registries
    BY <1>t, <1>o, <2>1, ZenonT(60)
  <2>4. \A q \in Procs \ {p} :
          pc'[q] = pc[q] /\ todo'[q] = todo[q] /\ at'[q] = at[q] /\ text'[q] = text[q]
    BY <1>t, <2>1
  <2>5. OpenTypes'
    BY <2>1, <2>3, <2>4, OpenTypesKept
  <2> QED BY <2>2, <2>5
<1>8. ASSUME NEW p \in Procs, Load(p) PROVE TypeOK' /\ OpenTypes'
  <2>1. CASE ~Sound(Graph(p))
    <3>1. /\ pc' = [pc EXCEPT ![p] = "idle"] /\ Forget(p)
          /\ UNCHANGED <<file, copies, registry, disturbed, lost, torn, shown, staged, made, mixed, edits>>
      BY <1>8, <2>1 DEF Load, Refused, Goto, unchangedByOpen, disk
    <3>2. shown' \in BOOLEAN
      BY <3>1, <1>t
    <3> QED BY <3>1, <3>2, ForgetKept
  <2>2. CASE Sound(Graph(p))
    <3>1. IndexOf(Graph(p)) \in [Names -> Uuids \cup {None}]
      <4>1. ASSUME NEW n \in Names, NEW f \in Files, Graph(p)[f].name = n
            PROVE  (CHOOSE c \in {Graph(p)[g] : g \in Files} : c.name = n).uuid \in Uuids \cup {None}
        <5> DEFINE c == CHOOSE c \in {Graph(p)[g] : g \in Files} : c.name = n
        <5>1. c \in {Graph(p)[g] : g \in Files}
          BY <4>1
        <5>2. c \in Contents
          BY <5>1, GraphFacts
        <5> QED BY <5>2 DEF Contents
      <4> QED BY <4>1 DEF IndexOf
    <3>2. /\ pc' = [pc EXCEPT ![p] = "registries"]
          /\ index' = [index EXCEPT ![p] = IndexOf(Graph(p))]
          /\ todo' = [todo EXCEPT ![p] = {r \in Registries : Outdated(r) /\ ~Dirty(p)}]
          /\ UNCHANGED <<file, copies, registry, at, text, disturbed, lost, torn, shown, staged, made, mixed, edits>>
      BY <1>8, <2>2 DEF Load, Goto, unchangedByOpen, disk
    <3>3. PICK work \in SUBSET Registries : todo' = [todo EXCEPT ![p] = work]
      BY <3>2
    <3>4. TypeOK'
      BY <1>t, <3>1, <3>2, <3>3 DEF TypeOK
    <3>5. \A q \in Procs \ {p} :
            pc'[q] = pc[q] /\ todo'[q] = todo[q] /\ at'[q] = at[q] /\ text'[q] = text[q]
      BY <1>t, <3>2, <3>3
    <3>6. pc'[p] = "registries" /\ todo'[p] \subseteq Registries
      BY <1>t, <3>2, <3>3
    <3>7. OpenTypes'
      BY <3>2, <3>5, <3>6, OpenTypesKept
    <3> QED BY <3>4, <3>7
  <2> QED BY <2>1, <2>2
<1>9. ASSUME NEW p \in Procs, NEW r \in Registries, ReadRegistry(p, r) PROVE TypeOK' /\ OpenTypes'
  <2>1. LiftedRegistry(registry[r], index[p]) \in RegistryContents
        /\ LiftedRegistry(registry[r], index[p]).schema = 3
    <3>1. registry[r] \in RegistryContents /\ index[p] \in [Names -> Uuids \cup {None}]
      BY <1>t
    <3>2. registry[r].key \in Names \cup Uuids
      BY <3>1 DEF RegistryContents
    <3>3. Mapped(index[p], registry[r].key) \in Names \cup Uuids
      BY <3>1, <3>2 DEF Mapped
    <3>4. PICK key \in Names \cup Uuids : LiftedRegistry(registry[r], index[p]) =
            [registry[r] EXCEPT !.schema = 3, !.key = key, !.spokes = FALSE]
      BY <3>2, <3>3 DEF LiftedRegistry
    <3>5. LiftedRegistry(registry[r], index[p]) =
            [schema |-> 3, key |-> key, of |-> registry[r].of, spokes |-> FALSE]
      BY <3>1, <3>4 DEF RegistryContents
    <3>6. registry[r].of \in Ids
      BY <3>1 DEF RegistryContents
    <3> QED BY <3>5, <3>6 DEF RegistryContents
  <2> QED BY <1>9, <1>t, <1>o, <2>1, ZenonT(60) DEF TypeOK, OpenTypes, ReadRegistry, Goto, unchangedByOpen, disk
<1>10. ASSUME NEW p \in Procs, WriteRegistry(p) PROVE TypeOK' /\ OpenTypes'
  BY <1>10, <1>t, <1>o, ZenonT(60) DEF TypeOK, OpenTypes, WriteRegistry, Passed, Goto, unchangedByOpen
<1>11. ASSUME NEW p \in Procs, Close(p) PROVE TypeOK' /\ OpenTypes'
  <2>1. /\ pc' = [pc EXCEPT ![p] = "idle"] /\ Forget(p)
        /\ shown' = (shown \/ p = Gui)
        /\ UNCHANGED <<file, copies, registry, disturbed, lost, torn, staged, made, mixed, edits>>
    BY <1>11 DEF Close, Refused, Goto, unchangedByOpen, disk
  <2>2. shown' \in BOOLEAN
    BY <2>1, <1>t
  <2> QED BY <2>1, <2>2, ForgetKept
<1>12. ASSUME NEW p \in Procs, Die(p) PROVE TypeOK' /\ OpenTypes'
  <2>1. /\ pc' = [pc EXCEPT ![p] = "idle"] /\ Forget(p)
        /\ \/ shown' = FALSE /\ staged' = [f \in Files |-> None]
           \/ UNCHANGED <<shown, staged>>
        /\ UNCHANGED <<file, copies, registry, made, disturbed, mixed, torn, lost, edits>>
    BY <1>12 DEF Die, Refused, Goto, disk
  <2>2. TypeOK'
    BY <1>t, <2>1 DEF TypeOK, Forget
  <2>3. OpenTypes'
    BY <1>t, <1>o, <2>1, ZenonT(60) DEF OpenTypes, Forget
  <2> QED BY <2>2, <2>3
<1>13. CASE Editing
  <2>1. PICK f \in Files, h \in Contents : Staging(meant, f, h)
    BY <1>13, EditsStage
  <2>2. made' \in 0 .. MaxEdits /\ edits' \in 0 .. MaxEdits /\ made' <= edits'
    <3>1. edits < MaxEdits /\ edits' = edits + 1 /\ made' \in {made, made + 1}
      BY <2>1 DEF Staging
    <3>2. made \in 0 .. MaxEdits /\ edits \in 0 .. MaxEdits /\ made <= edits
      BY <1>t, <1>o
    <3> QED BY <3>1, <3>2, LiftAssumption
  <2> QED BY <1>t, <1>o, <2>1, <2>2 DEF Staging, TypeOK, OpenTypes
<1>14. ASSUME NEW failed \in SUBSET Files, Save(failed) PROVE TypeOK' /\ OpenTypes'
  <2>1. file' \in [Files -> Contents] /\ torn' \in BOOLEAN /\ mixed' \in BOOLEAN
        /\ disturbed' \subseteq Procs
    BY <1>14, <1>t, <1>r DEF Save, Trouble
  <2> QED BY <1>14, <1>t, <1>o, <2>1 DEF TypeOK, OpenTypes, Save, openVars
<1>15. CASE Discard
  BY <1>15, <1>t, <1>o DEF TypeOK, OpenTypes, Discard, disk, openVars, counters
<1>16. ASSUME NEW c \in copies, PutBack(c[1], c[2]) PROVE TypeOK' /\ OpenTypes'
  <2>1. c[1] \in Files /\ c[2] \in Contents
    BY <1>t
  <2> QED BY <1>16, <1>t, <1>o, <1>r, <2>1 DEF TypeOK, OpenTypes, PutBack, Outside, Trouble, openVars
<1>17. ASSUME NEW f \in Files, Deliver(f) PROVE TypeOK' /\ OpenTypes'
  <2>1. [file[f] EXCEPT !.format = Newer] \in Contents
    <3>1. file[f] \in Contents
      BY <1>t
    <3> QED BY <3>1 DEF Contents
  <2> QED BY <1>17, <1>t, <1>o, <1>r, <2>1 DEF TypeOK, OpenTypes, Deliver, Outside, Trouble, openVars
<1> QED BY <1>1, <1>2, <1>3, <1>4, <1>5, <1>6, <1>7, <1>8, <1>9, <1>10, <1>11, <1>12, <1>13,
           <1>14, <1>15, <1>16, <1>17 DEF Next, Editing

-----------------------------------------------------------------------------
(* What a step leaves of the contents.                                     *)

\* A step that writes, copies and reads no file.
Quiet ==
  /\ UNCHANGED <<file, copies>>
  /\ staged' = staged \/ staged' = [f \in Files |-> None]
  /\ \A q \in Procs : (Lifting(q))' => Lifting(q) /\ text'[q] = text[q] /\ at'[q] = at[q]

LEMMA QuietSteps ==
  ASSUME TypeOK, NEW p \in Procs,
         \/ Open(p) \/ CopyFails(p) \/ WriteFails(p) \/ Load(p) \/ WriteRegistry(p) \/ Close(p)
         \/ Die(p) \/ Discard \/ \E r \in Registries : ReadRegistry(p, r)
  PROVE  Quiet
<1>t. /\ pc \in [Procs -> {"idle", "files", "read", "copied", "registries", "registry read"}]
      /\ at \in [Procs -> Files \cup Registries \cup {None}]
      /\ text \in [Procs -> Contents \cup RegistryContents \cup {None}]
  BY DEF TypeOK
<1> DEFINE Moved(where) == /\ where \notin {"read", "copied"} /\ pc' = [pc EXCEPT ![p] = where]
                           /\ \A q \in Procs \ {p} : text'[q] = text[q] /\ at'[q] = at[q]
<1>1. \/ \E where : Moved(where)
      \/ UNCHANGED <<pc, text, at>>
  <2>1. CASE Open(p)
    BY <2>1 DEF Open, Goto
  <2>2. CASE CopyFails(p) \/ Close(p) \/ Die(p)
    BY <1>t, <2>2 DEF CopyFails, Close, Die, Refused, Forget, Goto
  <2>3. CASE WriteFails(p)
    BY <1>t, <2>3 DEF WriteFails, Passed, Goto
  <2>4. CASE Load(p)
    <3>1. Moved("idle") \/ Moved("registries")
      BY <1>t, <2>4 DEF Load, Refused, Forget, Goto
    <3> QED BY <3>1
  <2>5. CASE WriteRegistry(p)
    BY <1>t, <2>5 DEF WriteRegistry, Passed, Goto
  <2>6. CASE \E r \in Registries : ReadRegistry(p, r)
    BY <1>t, <2>6 DEF ReadRegistry, Goto
  <2>7. CASE Discard
    BY <2>7 DEF Discard, openVars
  <2> QED BY <2>1, <2>2, <2>3, <2>4, <2>5, <2>6, <2>7
<1>2. UNCHANGED <<file, copies>> /\ (staged' = staged \/ staged' = [f \in Files |-> None])
  BY DEF Open, CopyFails, WriteFails, Load, WriteRegistry, Close, Die, Discard, ReadRegistry, disk,
         unchangedByOpen
<1>3. \A q \in Procs : (Lifting(q))' => Lifting(q) /\ text'[q] = text[q] /\ at'[q] = at[q]
  BY <1>1, <1>t DEF Lifting
<1> QED BY <1>2, <1>3 DEF Quiet

\* The effect of the steps that do read, copy or write a file.
LEMMA ReadsFile ==
  ASSUME TypeOK, NEW p \in Procs, NEW f \in Files, ReadFile(p, f)
  PROVE  /\ UNCHANGED <<file, copies, staged, torn, registry, index, mixed, disturbed>>
         /\ pc[p] = "files" /\ f \in todo[p] /\ todo' = [todo EXCEPT ![p] = @ \ {f}]
         /\ \/ file[f].format = Newer /\ UNCHANGED <<pc, at, text>>
            \/ /\ file[f].format # Newer /\ pc' = [pc EXCEPT ![p] = "read"]
               /\ at' = [at EXCEPT ![p] = f] /\ text' = [text EXCEPT ![p] = Lifted(file[f])]
BY DEF ReadFile, Goto, disk, unchangedByOpen

LEMMA CopiesFile ==
  ASSUME TypeOK, OpenTypes, NEW p \in Procs, CopyFile(p)
  PROVE  /\ UNCHANGED <<file, staged, torn, registry, index, todo, at, text, mixed, disturbed, lost>>
         /\ at[p] \in Files /\ copies' = copies \cup {<<at[p], file[at[p]]>>}
         /\ pc[p] = "read" /\ pc' = [pc EXCEPT ![p] = "copied"]
BY DEF CopyFile, Goto, Copied, unchangedByOpen, OpenTypes, Lifting

LEMMA WritesFile ==
  ASSUME TypeOK, OpenTypes, NEW p \in Procs, WriteFile(p)
  PROVE  /\ UNCHANGED <<copies, staged, registry, index, todo, mixed>>
         /\ pc[p] = "copied" /\ pc' = [pc EXCEPT ![p] = "files"]
         /\ at[p] \in Files /\ at' = [at EXCEPT ![p] = None]
         /\ text[p] \in Contents /\ text[p].format = Current /\ text' = [text EXCEPT ![p] = None]
         /\ \/ file[at[p]].format = Newer /\ UNCHANGED <<file, torn, lost, disturbed>>
            \/ /\ file[at[p]].format # Newer /\ file' = [file EXCEPT ![at[p]] = text[p]]
               /\ \/ text[p] = Lifted(file[at[p]]) /\ UNCHANGED <<torn, disturbed>>
                  \/ torn' = TRUE /\ disturbed' = disturbed \cup Crossed
               /\ \/ lost' = lost
                  \/ /\ file[at[p]] # text[p] /\ <<at[p], file[at[p]]>> \notin copies
                     /\ lost' = lost \cup {IF p \in disturbed THEN "disturbed" ELSE "undisturbed"}
<1>1. pc[p] = "copied" /\ torn \in BOOLEAN
  BY DEF WriteFile, TypeOK
<1>2. at[p] \in Files /\ text[p] \in Contents /\ text[p].format = Current
  BY <1>1 DEF OpenTypes, Lifting
<1> QED BY <1>1, <1>2 DEF WriteFile, Passed, Goto, unchangedByOpen

-----------------------------------------------------------------------------
(* Records and references.                                                 *)

LEMMA DeliveredFacts ==
  ASSUME NEW c \in Contents, c.format = Current, NEW d, d = [c EXCEPT !.format = Newer]
  PROVE  /\ d \in Contents /\ d.format = Newer /\ Lifted(d) = d /\ Lifted(c) = c
         /\ d.name = c.name /\ d.uuid = c.uuid /\ d.id = c.id
         /\ d.hint = c.hint /\ d.ref = c.ref /\ d.to = c.to
BY DEF Lifted, Current, Newer, Contents

LEMMA FaithfulStep ==
  ASSUME TypeOK, OpenTypes, NEW meant, Numbering(meant), AllFaithful(meant), [Next]_vars
  PROVE  AllFaithful(meant)'
<1>t. /\ file \in [Files -> Contents] /\ copies \subseteq Files \X Contents
      /\ staged \in [Files -> Contents \cup {None}]
      /\ pc \in [Procs -> {"idle", "files", "read", "copied", "registries", "registry read"}]
      /\ text \in [Procs -> Contents \cup RegistryContents \cup {None}]
  BY DEF TypeOK
<1>a. /\ \A f \in Files : Faithful(meant, file[f])
      /\ \A f \in Files : staged[f] # None => Faithful(meant, staged[f])
      /\ \A c \in copies : Faithful(meant, c[2])
      /\ \A p \in Procs : Lifting(p) => Faithful(meant, text[p])
  BY DEF AllFaithful
<1>1. CASE UNCHANGED vars
  BY <1>1, <1>a DEF vars, disk, openVars, counters, AllFaithful, Lifting
<1>2. CASE Quiet
  BY <1>2, <1>a DEF Quiet, AllFaithful
<1>3. ASSUME NEW p \in Procs, NEW f \in Files, ReadFile(p, f) PROVE AllFaithful(meant)'
  <2>1. Faithful(meant, Lifted(file[f]))
    BY <1>t, <1>a, FaithfulLifted
  <2> QED BY <1>3, <1>t, <1>a, <2>1, ReadsFile, ZenonT(60) DEF AllFaithful, Lifting
<1>4. ASSUME NEW p \in Procs, CopyFile(p) PROVE AllFaithful(meant)'
  <2>1. /\ UNCHANGED <<file, staged, text>> /\ at[p] \in Files
        /\ copies' = copies \cup {<<at[p], file[at[p]]>>}
        /\ pc[p] = "read" /\ pc' = [pc EXCEPT ![p] = "copied"]
    BY <1>4, CopiesFile
  <2>2. \A c \in copies' : Faithful(meant, c[2])
    BY <1>a, <2>1
  <2> QED BY <1>t, <1>a, <2>1, <2>2 DEF AllFaithful, Lifting
<1>5. ASSUME NEW p \in Procs, WriteFile(p) PROVE AllFaithful(meant)'
  <2>1. /\ UNCHANGED <<copies, staged>> /\ at[p] \in Files
        /\ pc[p] = "copied" /\ pc' = [pc EXCEPT ![p] = "files"]
        /\ text' = [text EXCEPT ![p] = None]
        /\ file' = file \/ file' = [file EXCEPT ![at[p]] = text[p]]
    BY <1>5, WritesFile
  <2>2. \A f \in Files : file'[f] = file[f] \/ file'[f] = text[p]
    BY <1>t, <2>1
  <2>3. Faithful(meant, text[p])
    BY <1>a, <2>1 DEF Lifting
  <2>4. \A f \in Files : Faithful(meant, file'[f])
    BY <1>a, <2>2, <2>3
  <2> QED BY <1>t, <1>a, <2>1, <2>4 DEF AllFaithful, Lifting
<1>6. CASE Editing
  <2>1. PICK f \in Files, h \in Contents : Staging(meant, f, h)
    BY <1>6, EditsStage
  <2> QED BY <1>t, <1>a, <2>1 DEF Staging, AllFaithful, Lifting
<1>7. ASSUME NEW failed \in SUBSET Files, Save(failed) PROVE AllFaithful(meant)'
  <2>1. /\ \A f \in Files : file'[f] = file[f] \/ (staged[f] # None /\ file'[f] = staged[f])
        /\ staged' = [f \in Files |-> None] /\ UNCHANGED <<copies, pc, text>>
    BY <1>7 DEF Save, openVars
  <2> QED BY <1>a, <2>1 DEF AllFaithful, Lifting
<1>8. ASSUME NEW c \in copies, PutBack(c[1], c[2]) PROVE AllFaithful(meant)'
  <2>1. file' = [file EXCEPT ![c[1]] = c[2]] /\ UNCHANGED <<staged, copies, pc, text>>
    BY <1>8 DEF PutBack, openVars
  <2> QED BY <1>t, <1>a, <2>1 DEF AllFaithful, Lifting
<1>9. ASSUME NEW f \in Files, Deliver(f) PROVE AllFaithful(meant)'
  <2>1. /\ file' = [file EXCEPT ![f] = [file[f] EXCEPT !.format = Newer]]
        /\ file[f].format = Current /\ UNCHANGED <<staged, copies, pc, text>>
    BY <1>9 DEF Deliver, openVars
  <2>2. Faithful(meant, [file[f] EXCEPT !.format = Newer])
    <3>1. file[f] \in Contents /\ Faithful(meant, file[f])
      BY <1>t, <1>a
    <3> QED BY <2>1, <3>1, DeliveredFacts DEF Faithful, Named, Refers
  <2> QED BY <1>t, <1>a, <2>1, <2>2 DEF AllFaithful, Lifting
<1> QED BY <1>1, <1>2, <1>3, <1>4, <1>5, <1>6, <1>7, <1>8, <1>9, QuietSteps DEF Next, Editing, Procs

-----------------------------------------------------------------------------
(* The graph.                                                              *)

\* Only names, numbers, hints and references count.
LEMMA SameWhole ==
  ASSUME NEW old, NEW new, Whole(old),
         \A f \in Files : /\ new[f].name = old[f].name /\ new[f].uuid = old[f].uuid
                          /\ new[f].hint = old[f].hint /\ new[f].ref = old[f].ref
  PROVE  Whole(new)
BY DEF Whole, Named, Refers

LEMMA WholeStep ==
  ASSUME TypeOK, OpenTypes, NEW meant, Numbering(meant), AllFaithful(meant), GraphsWhole,
         [Next]_vars
  PROVE  GraphsWhole'
<1> SUFFICES ASSUME ~torn' PROVE \A q \in Procs : Whole(Graph(q)')
  BY DEF GraphsWhole
<1>t. /\ file \in [Files -> Contents] /\ copies \subseteq Files \X Contents
      /\ staged \in [Files -> Contents \cup {None}]
  BY DEF TypeOK
<1>g. \A q \in Procs, f \in Files : /\ Graph(q)[f] = Lifted(Content(q, f))
                                    /\ Graph(q)'[f] = Lifted(Content(q, f)')
  BY DEF Graph
<1>m. Graph(Mcp) = [f \in Files |-> Lifted(file[f])] /\ Mcp # Gui /\ Mcp \in Procs /\ Gui \in Procs
  BY LiftAssumption DEF Graph, Content, Procs
<1>k. Procs = {Gui, Mcp}
  BY DEF Procs
<1> DEFINE Goal == \A q \in Procs : Whole(Graph(q)')
<1>w. ASSUME ~torn PROVE \A q \in Procs : Whole(Graph(q))
  BY <1>w DEF GraphsWhole
<1>1. ASSUME ~torn, file' = file, staged' = staged \/ staged' = [f \in Files |-> None] PROVE Goal
  <2>1. \A q \in Procs : Graph(q)' = Graph(q) \/ Graph(q)' = Graph(Mcp)
    BY <1>1, <1>m DEF Graph, Content
  <2> QED BY <1>1, <1>w, <1>m, <2>1
<1>2. CASE UNCHANGED vars
  BY <1>1, <1>2 DEF vars, disk
<1>3. ASSUME NEW p \in Procs, \/ Open(p) \/ CopyFails(p) \/ WriteFails(p) \/ Load(p)
                              \/ WriteRegistry(p) \/ Close(p)
                              \/ Die(p) \/ Discard \/ \E r \in Registries : ReadRegistry(p, r)
      PROVE  Goal
  <2>1. Quiet
    BY <1>3, QuietSteps
  <2>2. torn' = torn
    BY <1>3 DEF Open, CopyFails, WriteFails, Load, WriteRegistry, Close, Die, Discard, ReadRegistry
  <2> QED BY <1>1, <2>1, <2>2 DEF Quiet
<1>4. ASSUME NEW p \in Procs, NEW f \in Files, ReadFile(p, f) PROVE Goal
  BY <1>1, <1>4, ReadsFile
<1>5. ASSUME NEW p \in Procs, CopyFile(p) PROVE Goal
  BY <1>1, <1>5, CopiesFile
<1>6. ASSUME NEW p \in Procs, WriteFile(p) PROVE Goal
  <2>1. \/ UNCHANGED <<file, torn>>
        \/ /\ at[p] \in Files /\ file' = [file EXCEPT ![at[p]] = text[p]]
           /\ text[p] = Lifted(file[at[p]]) /\ torn' = torn
    BY <1>6, WritesFile
  <2>2. staged' = staged
    BY <1>6, WritesFile
  <2>3. CASE UNCHANGED <<file, torn>>
    BY <1>1, <2>2, <2>3
  <2>4. CASE /\ at[p] \in Files /\ file' = [file EXCEPT ![at[p]] = text[p]]
             /\ text[p] = Lifted(file[at[p]]) /\ torn' = torn
    <3>1. ASSUME NEW q \in Procs, NEW f \in Files PROVE Graph(q)'[f] = Graph(q)[f]
      <4>1. Lifted(file'[f]) = Lifted(file[f])
        <5>1. file[f] \in Contents
          BY <1>t
        <5> QED BY <1>t, <2>4, <5>1, LiftedFacts
      <4> QED BY <1>g, <2>2, <4>1 DEF Content
    <3> QED BY <1>w, <2>4, <3>1, SameWhole
  <2> QED BY <2>1, <2>3, <2>4
<1>7. CASE Editing
  <2>1. PICK f \in Files, h \in Contents : Staging(meant, f, h)
    BY <1>7, EditsStage
  <2>2. /\ h.format = Current /\ staged' = [staged EXCEPT ![f] = h] /\ file' = file /\ torn' = torn
        /\ Whole([Graph(Gui) EXCEPT ![f] = h])
    BY <2>1 DEF Staging
  <2>3. h # None /\ Lifted(h) = h
    BY <2>2, LiftAssumption DEF Lifted, Current
  <2>4. ASSUME NEW g \in Files PROVE Graph(Gui)'[g] = [Graph(Gui) EXCEPT ![f] = h][g]
    <3>1. Graph(Gui) \in [Files -> Contents]
      BY GraphFacts, <1>m
    <3>2. Content(Gui, g)' = IF g = f THEN h ELSE Content(Gui, g)
      BY <1>t, <2>2, <2>3 DEF Content
    <3> QED BY <1>g, <1>m, <2>3, <3>1, <3>2
  <2>5. Whole(Graph(Gui)')
    BY <2>2, <2>4, SameWhole
  <2>6. Graph(Mcp)' = Graph(Mcp)
    BY <1>m, <2>2 DEF Graph, Content
  <2> QED BY <1>k, <1>m, <1>w, <2>2, <2>5, <2>6
<1>8. ASSUME NEW failed \in SUBSET Files, Save(failed) PROVE Goal
  <2>1. /\ failed = {} /\ torn' = torn
        /\ file' = [f \in Files |-> IF staged[f] # None /\ f \notin failed THEN staged[f] ELSE file[f]]
        /\ staged' = [f \in Files |-> None]
    BY <1>8 DEF Save
  <2>2. ASSUME NEW q \in Procs, NEW f \in Files PROVE Graph(q)'[f] = Graph(Gui)[f]
    <3>1. Content(q, f)' = Content(Gui, f)
      BY <2>1 DEF Content
    <3> QED BY <1>g, <1>m, <3>1
  <2> QED BY <1>m, <1>w, <2>1, <2>2, SameWhole
<1>9. ASSUME NEW c \in copies, PutBack(c[1], c[2]) PROVE Goal
  BY <1>9 DEF PutBack
<1>10. ASSUME NEW f \in Files, Deliver(f) PROVE Goal
  <2>1. /\ file' = [file EXCEPT ![f] = [file[f] EXCEPT !.format = Newer]]
        /\ file[f].format = Current /\ staged' = staged /\ torn' = torn
    BY <1>10 DEF Deliver
  <2>2. ASSUME NEW g \in Files
        PROVE  /\ Lifted(file'[g]).name = Lifted(file[g]).name
               /\ Lifted(file'[g]).uuid = Lifted(file[g]).uuid
               /\ Lifted(file'[g]).hint = Lifted(file[g]).hint
               /\ Lifted(file'[g]).ref = Lifted(file[g]).ref
    <3>1. CASE g = f
      <4>1. file[f] \in Contents /\ file'[f] = [file[f] EXCEPT !.format = Newer]
        BY <1>t, <2>1
      <4> QED BY <2>1, <3>1, <4>1, DeliveredFacts
    <3>2. CASE g # f
      BY <1>t, <2>1, <3>2
    <3> QED BY <3>1, <3>2
  <2>3. ASSUME NEW q \in Procs, NEW g \in Files
        PROVE  /\ Graph(q)'[g].name = Graph(q)[g].name /\ Graph(q)'[g].uuid = Graph(q)[g].uuid
               /\ Graph(q)'[g].hint = Graph(q)[g].hint /\ Graph(q)'[g].ref = Graph(q)[g].ref
    BY <1>g, <2>1, <2>2 DEF Content
  <2> QED BY <1>w, <2>1, <2>3, SameWhole
<1> QED BY <1>2, <1>3, <1>4, <1>5, <1>6, <1>7, <1>8, <1>9, <1>10 DEF Next, Editing, Procs

-----------------------------------------------------------------------------
(* The names the registries went by.                                       *)

\* A lift of the file changes neither its record nor the name.
LEMMA OriginalLifted ==
  ASSUME NEW meant, NEW f, NEW c \in Contents, Original(meant, f, c)
  PROVE  Original(meant, f, Lifted(c))
BY LiftedFacts DEF Original, Named

\* While the registries go by the names the files began with, the index that is
\* loaded maps each to the number of its record.
LEMMA IndexMeant ==
  ASSUME TypeOK, NEW meant, Numbering(meant), AllFaithful(meant),
         \A f \in Files : Original(meant, f, file[f]),
         NEW p \in Procs, ~Dirty(p), NEW n \in Names, meant[Seed(n)] # None
  PROVE  IndexOf(Graph(p))[n] = Seed(n)
<1>1. PICK g \in Files : meant[Seed(n)] = g
  BY DEF Numbering
<1>2. \A f \in Files : Content(p, f) = file[f] /\ file[f] \in Contents
  BY DEF Dirty, Content, TypeOK
<1>3. \A f \in Files : /\ Graph(p)[f].name = file[f].name
                       /\ Graph(p)[f].uuid = Lifted(file[f]).uuid
  BY <1>2, LiftedFacts, ZenonT(60) DEF Graph
<1>4. \A f \in Files : file[f].name = n <=> f = g
  BY <1>1 DEF Original
<1> DEFINE t == CHOOSE c \in {Graph(p)[f] : f \in Files} : c.name = n
<1>5. t \in {Graph(p)[f] : f \in Files} /\ t.name = n
  <2>1. \E c \in {Graph(p)[f] : f \in Files} : c.name = n
    BY <1>3, <1>4
  <2> QED BY <2>1
<1>6. IndexOf(Graph(p))[n] = t.uuid
  BY <1>3, <1>4 DEF IndexOf
<1> HIDE DEF t
<1>7. t = Graph(p)[g]
  BY <1>3, <1>4, <1>5
<1>8. Lifted(file[g]).uuid \in Uuids /\ meant[Lifted(file[g]).uuid] = g
  <2>1. Named(file[g])
    BY <1>4, LiftAssumption DEF Named
  <2> QED BY <2>1 DEF AllFaithful, Faithful, Original
<1>9. Lifted(file[g]).uuid = Seed(n)
  BY <1>1, <1>8, SeedIsUuid DEF Numbering
<1> QED BY <1>3, <1>6, <1>7, <1>9

LEMMA OriginalStep ==
  ASSUME TypeOK, OpenTypes, NEW meant, Numbering(meant), AllFaithful(meant), AllOriginal(meant),
         [Next]_vars
  PROVE  AllOriginal(meant)'
<1> SUFFICES ASSUME Namely'
             PROVE  /\ \A f \in Files : Original(meant, f, file'[f])
                    /\ \A c \in copies' : Original(meant, c[1], c[2])
                    /\ \A p \in Procs : (Lifting(p))' => Original(meant, at'[p], text'[p])
                    /\ \A p \in Procs : (LiftingRegistries(p))' /\ todo'[p] # {} =>
                         \A n \in Names : meant[Seed(n)] # None => index'[p][n] = Seed(n)
  BY DEF AllOriginal, Original
<1>t. /\ file \in [Files -> Contents] /\ copies \subseteq Files \X Contents
      /\ registry \in [Registries -> RegistryContents]
      /\ staged \in [Files -> Contents \cup {None}]
      /\ pc \in [Procs -> {"idle", "files", "read", "copied", "registries", "registry read"}]
      /\ todo \in [Procs -> SUBSET (Files \cup Registries)]
      /\ at \in [Procs -> Files \cup Registries \cup {None}]
      /\ text \in [Procs -> Contents \cup RegistryContents \cup {None}]
      /\ index \in [Procs -> [Names -> Uuids \cup {None}]]
      /\ mixed \in BOOLEAN
  BY DEF TypeOK
<1> DEFINE FilesGoal == /\ \A f \in Files : Original(meant, f, file'[f])
                        /\ \A c \in copies' : Original(meant, c[1], c[2])
           TextGoal == \A p \in Procs : (Lifting(p))' => Original(meant, at'[p], text'[p])
           IndexGoal == \A p \in Procs : (LiftingRegistries(p))' /\ todo'[p] # {} =>
                          \A n \in Names : meant[Seed(n)] # None => index'[p][n] = Seed(n)
           Goal == FilesGoal /\ TextGoal /\ IndexGoal
\* What goes by names still did so before.
<1>n. ASSUME mixed' = mixed, \A r \in Registries : registry'[r].schema = 1 => registry[r].schema = 1
      PROVE  /\ \A f \in Files : Original(meant, f, file[f])
             /\ \A c \in copies : Original(meant, c[1], c[2])
             /\ \A p \in Procs : Lifting(p) => Original(meant, at[p], text[p])
             /\ \A p \in Procs : LiftingRegistries(p) /\ todo[p] # {} =>
                  \A n \in Names : meant[Seed(n)] # None => index[p][n] = Seed(n)
  BY <1>n DEF Namely, AllOriginal
<1>1. ASSUME mixed' = mixed, registry' = registry, Quiet,
             \A q \in Procs : (LiftingRegistries(q))' /\ todo'[q] # {} =>
               LiftingRegistries(q) /\ todo[q] # {} /\ index'[q] = index[q]
      PROVE  Goal
  BY <1>1, <1>n DEF Quiet
<1>2. CASE UNCHANGED vars
  BY <1>2, <1>n DEF vars, disk, openVars, counters, Lifting, LiftingRegistries
<1>3. ASSUME NEW p \in Procs, Open(p) PROVE Goal
  <2>1. UNCHANGED <<mixed, registry, index>>
        /\ pc' = [pc EXCEPT ![p] = "files"] /\ \A q \in Procs \ {p} : todo'[q] = todo[q]
    BY <1>3, <1>t DEF Open, Goto, disk, unchangedByOpen
  <2>2. Quiet
    BY <1>3, QuietSteps
  <2> QED BY <1>1, <1>t, <2>1, <2>2 DEF LiftingRegistries
<1>4. ASSUME NEW p \in Procs, CopyFails(p) \/ Close(p) \/ Die(p) PROVE Goal
  <2>1. /\ UNCHANGED <<mixed, registry>> /\ pc' = [pc EXCEPT ![p] = "idle"]
        /\ \A q \in Procs \ {p} : todo'[q] = todo[q] /\ index'[q] = index[q]
    BY <1>4, <1>t DEF CopyFails, Close, Die, Refused, Forget, Goto, disk, unchangedByOpen
  <2>2. Quiet
    BY <1>4, QuietSteps
  <2> QED BY <1>1, <1>t, <2>1, <2>2 DEF LiftingRegistries
<1>5. ASSUME NEW p \in Procs, WriteFails(p) PROVE Goal
  <2>1. /\ UNCHANGED <<mixed, registry, todo, index>>
        /\ \/ pc[p] = "copied" /\ pc' = [pc EXCEPT ![p] = "files"]
           \/ pc[p] = "registry read" /\ pc' = [pc EXCEPT ![p] = "registries"]
    BY <1>5 DEF WriteFails, Passed, Goto, disk, unchangedByOpen
  <2>2. Quiet
    BY <1>5, QuietSteps
  <2> QED BY <1>1, <1>t, <2>1, <2>2 DEF LiftingRegistries
<1>6. ASSUME NEW p \in Procs, Load(p) PROVE Goal
  <2>1. UNCHANGED <<mixed, registry>>
    BY <1>6 DEF Load, disk, unchangedByOpen
  <2>2. Quiet
    BY <1>6, QuietSteps
  <2>3. CASE ~Sound(Graph(p))
    <3>1. /\ pc' = [pc EXCEPT ![p] = "idle"]
          /\ \A q \in Procs \ {p} : todo'[q] = todo[q] /\ index'[q] = index[q]
      BY <1>6, <1>t, <2>3 DEF Load, Refused, Forget, Goto
    <3> QED BY <1>1, <1>t, <2>1, <2>2, <3>1 DEF LiftingRegistries
  <2>4. CASE Sound(Graph(p))
    <3>1. /\ pc' = [pc EXCEPT ![p] = "registries"]
          /\ index' = [index EXCEPT ![p] = IndexOf(Graph(p))]
          /\ todo' = [todo EXCEPT ![p] = {r \in Registries : Outdated(r) /\ ~Dirty(p)}]
      BY <1>6, <2>4 DEF Load, Goto
    <3>2. FilesGoal /\ TextGoal
      BY <1>n, <2>1, <2>2 DEF Quiet
    <3>3. ASSUME todo'[p] # {}, NEW n \in Names, meant[Seed(n)] # None
          PROVE  index'[p][n] = Seed(n)
      <4>1. ~Dirty(p)
        BY <1>t, <3>1, <3>3
      <4>2. IndexOf(Graph(p))[n] = Seed(n)
        BY <1>n, <2>1, <3>3, <4>1, IndexMeant
      <4> QED BY <1>t, <3>1, <4>2
    <3>4. \A q \in Procs \ {p} : pc'[q] = pc[q] /\ todo'[q] = todo[q] /\ index'[q] = index[q]
      BY <1>t, <3>1
    <3>5. \A q \in Procs : LiftingRegistries(q) /\ todo[q] # {} =>
            \A n \in Names : meant[Seed(n)] # None => index[q][n] = Seed(n)
      BY <1>n, <2>1
    <3>6. ASSUME NEW q \in Procs, LiftingRegistries(q)', todo'[q] # {},
                 NEW n \in Names, meant[Seed(n)] # None
          PROVE  index'[q][n] = Seed(n)
      <4>1. CASE q = p
        BY <3>3, <3>6, <4>1
      <4>2. CASE q # p
        <5>1. pc'[q] = pc[q] /\ todo'[q] = todo[q] /\ index'[q] = index[q]
          BY <3>4, <4>2
        <5>2. LiftingRegistries(q) /\ todo[q] # {}
          BY <3>6, <5>1 DEF LiftingRegistries
        <5> QED BY <3>5, <3>6, <5>1, <5>2
      <4> QED BY <4>1, <4>2
    <3>7. IndexGoal
      BY <3>6
    <3> QED BY <3>2, <3>7
  <2> QED BY <2>3, <2>4
<1>7. ASSUME NEW p \in Procs, NEW r \in Registries, ReadRegistry(p, r) PROVE Goal
  <2>1. /\ UNCHANGED <<mixed, registry, index>> /\ pc[p] = "registries" /\ todo[p] # {}
        /\ pc' = [pc EXCEPT ![p] = "registry read"] /\ \A q \in Procs \ {p} : todo'[q] = todo[q]
    BY <1>7, <1>t DEF ReadRegistry, Goto, disk, unchangedByOpen
  <2>2. Quiet
    BY <1>7, QuietSteps
  <2> QED BY <1>1, <1>t, <2>1, <2>2 DEF LiftingRegistries
<1>8. ASSUME NEW p \in Procs, WriteRegistry(p) PROVE Goal
  <2>1. /\ UNCHANGED <<mixed, index, todo>> /\ pc[p] = "registry read"
        /\ pc' = [pc EXCEPT ![p] = "registries"] /\ registry' = [registry EXCEPT ![at[p]] = text[p]]
    BY <1>8 DEF WriteRegistry, Passed, Goto, unchangedByOpen
  <2>2. text[p].schema = 3 /\ at[p] \in Registries
    BY <2>1 DEF OpenTypes
  <2>3. \A r \in Registries : registry'[r].schema = 1 => registry[r].schema = 1
    <3>1. registry \in [Registries -> RegistryContents]
      BY <1>t
    <3>2. \A r \in Registries : registry'[r] = registry[r] \/ registry'[r] = text[p]
      BY <2>1, <2>2, <3>1
    <3> QED BY <2>2, <3>2
  <2>4. Quiet
    BY <1>8, QuietSteps
  <2> QED BY <1>n, <1>t, <2>1, <2>3, <2>4, ZenonT(60) DEF Quiet, LiftingRegistries
<1>9. ASSUME NEW p \in Procs, NEW f \in Files, ReadFile(p, f) PROVE Goal
  <2>1. /\ UNCHANGED <<file, copies, registry, index, mixed>>
        /\ pc[p] = "files" /\ \A q \in Procs \ {p} : todo'[q] = todo[q]
        /\ \/ UNCHANGED <<pc, at, text>>
           \/ /\ pc' = [pc EXCEPT ![p] = "read"]
              /\ at' = [at EXCEPT ![p] = f] /\ text' = [text EXCEPT ![p] = Lifted(file[f])]
    <3>1. todo' = [todo EXCEPT ![p] = @ \ {f}] /\ todo \in [Procs -> SUBSET (Files \cup Registries)]
      BY <1>9, <1>t, ReadsFile
    <3> QED BY <1>9, <3>1, ReadsFile
  <2>2. Original(meant, f, Lifted(file[f]))
    BY <1>n, <1>t, <2>1, OriginalLifted
  <2>3. FilesGoal
    BY <1>n, <2>1
  <2>4. TextGoal
    BY <1>n, <1>t, <2>1, <2>2, ZenonT(60) DEF Lifting
  <2>5. IndexGoal
    BY <1>n, <1>t, <2>1, ZenonT(60) DEF LiftingRegistries
  <2> QED BY <2>3, <2>4, <2>5
<1>10. ASSUME NEW p \in Procs, CopyFile(p) PROVE Goal
  <2>1. /\ UNCHANGED <<file, registry, index, todo, at, text, mixed>>
        /\ at[p] \in Files /\ copies' = copies \cup {<<at[p], file[at[p]]>>}
        /\ pc[p] = "read" /\ pc' = [pc EXCEPT ![p] = "copied"]
    BY <1>10, CopiesFile
  <2>2. Original(meant, at[p], file[at[p]])
    BY <1>n, <2>1
  <2>3. FilesGoal
    BY <1>n, <2>1, <2>2
  <2>4. TextGoal
    BY <1>n, <1>t, <2>1 DEF Lifting
  <2>5. IndexGoal
    BY <1>n, <1>t, <2>1 DEF LiftingRegistries
  <2> QED BY <2>3, <2>4, <2>5
<1>11. ASSUME NEW p \in Procs, WriteFile(p) PROVE Goal
  <2>1. /\ UNCHANGED <<copies, registry, index, todo, mixed>>
        /\ pc[p] = "copied" /\ pc' = [pc EXCEPT ![p] = "files"]
        /\ at[p] \in Files /\ at' = [at EXCEPT ![p] = None]
        /\ text' = [text EXCEPT ![p] = None]
        /\ file' = file \/ file' = [file EXCEPT ![at[p]] = text[p]]
    BY <1>11, WritesFile
  <2>2. Original(meant, at[p], text[p])
    BY <1>n, <2>1 DEF Lifting
  <2>3. FilesGoal
    BY <1>n, <1>t, <2>1, <2>2
  <2>4. TextGoal
    BY <1>n, <1>t, <2>1 DEF Lifting
  <2>5. IndexGoal
    BY <1>n, <1>t, <2>1 DEF LiftingRegistries
  <2> QED BY <2>3, <2>4, <2>5
<1>12. CASE Editing
  <2>1. PICK f \in Files, h \in Contents : Staging(meant, f, h)
    BY <1>12, EditsStage
  <2>2. UNCHANGED <<file, copies, registry, pc, todo, at, text, index, mixed>>
    BY <2>1 DEF Staging
  <2> QED BY <1>n, <2>2 DEF Lifting, LiftingRegistries
<1>13. ASSUME NEW failed \in SUBSET Files, Save(failed) PROVE Goal
  <2>1. mixed' = (mixed \/ \E r \in Registries : registry[r].schema = 1) /\ registry' = registry
    BY <1>13 DEF Save
  <2> QED BY <2>1 DEF Namely
<1>14. CASE Discard
  BY <1>14, <1>n DEF Discard, disk, openVars, Lifting, LiftingRegistries
<1>15. ASSUME NEW c \in copies, PutBack(c[1], c[2]) PROVE Goal
  <2>1. /\ file' = [file EXCEPT ![c[1]] = c[2]]
        /\ UNCHANGED <<copies, registry, pc, todo, at, text, index, mixed>>
    BY <1>15 DEF PutBack, openVars
  <2>2. Original(meant, c[1], c[2])
    BY <1>n, <2>1
  <2>3. FilesGoal
    BY <1>n, <1>t, <2>1, <2>2
  <2> QED BY <1>n, <2>1, <2>3 DEF Lifting, LiftingRegistries
<1>16. ASSUME NEW f \in Files, Deliver(f) PROVE Goal
  <2>1. /\ file' = [file EXCEPT ![f] = [file[f] EXCEPT !.format = Newer]]
        /\ file[f].format = Current
        /\ UNCHANGED <<copies, registry, pc, todo, at, text, index, mixed>>
    BY <1>16 DEF Deliver, openVars
  <2>2. Original(meant, f, [file[f] EXCEPT !.format = Newer])
    <3>1. Original(meant, f, file[f]) /\ file[f] \in Contents
      BY <1>n, <1>t, <2>1
    <3> QED BY <2>1, <3>1, DeliveredFacts DEF Original, Named
  <2>3. FilesGoal
    BY <1>n, <1>t, <2>1, <2>2
  <2> QED BY <1>n, <2>1, <2>3 DEF Lifting, LiftingRegistries
<1> QED BY <1>2, <1>3, <1>4, <1>5, <1>6, <1>7, <1>8, <1>9, <1>10, <1>11, <1>12, <1>13, <1>14,
           <1>15, <1>16 DEF Next, Editing

-----------------------------------------------------------------------------
(* The keys.                                                               *)

LEMMA KeysStep ==
  ASSUME TypeOK, OpenTypes, NEW meant, Numbering(meant), AllOriginal(meant), KeysRight(meant),
         [Next]_vars
  PROVE  KeysRight(meant)'
<1>t. /\ registry \in [Registries -> RegistryContents] /\ mixed \in BOOLEAN
      /\ pc \in [Procs -> {"idle", "files", "read", "copied", "registries", "registry read"}]
      /\ at \in [Procs -> Files \cup Registries \cup {None}]
      /\ text \in [Procs -> Contents \cup RegistryContents \cup {None}]
  BY DEF TypeOK
<1>k. /\ \A r \in Registries : KeyRight(meant, registry[r])
      /\ \A p \in Procs : pc[p] = "registry read" => KeyRight(meant, text[p])
  BY DEF KeysRight
<1>2. ASSUME registry' = registry, mixed => mixed',
             \A q \in Procs : pc'[q] = "registry read" => pc[q] = "registry read" /\ text'[q] = text[q]
      PROVE  KeysRight(meant)'
  BY <1>2, <1>k, ZenonT(60) DEF KeysRight, KeyRight
<1>3. CASE UNCHANGED vars
  BY <1>2, <1>3 DEF vars, disk, openVars
<1>4. ASSUME NEW p \in Procs, Open(p) PROVE KeysRight(meant)'
  <2>1. UNCHANGED <<registry, mixed, text>> /\ pc' = [pc EXCEPT ![p] = "files"]
    BY <1>4 DEF Open, Goto, disk, unchangedByOpen
  <2> QED BY <1>2, <1>t, <2>1
<1>5. ASSUME NEW p \in Procs, CopyFails(p) \/ Close(p) \/ Die(p) PROVE KeysRight(meant)'
  <2>1. /\ UNCHANGED <<registry, mixed>> /\ pc' = [pc EXCEPT ![p] = "idle"]
        /\ text' = [text EXCEPT ![p] = None]
    BY <1>5 DEF CopyFails, Close, Die, Refused, Forget, Goto, disk, unchangedByOpen
  <2> QED BY <1>2, <1>t, <2>1
<1>6. ASSUME NEW p \in Procs, WriteFails(p) PROVE KeysRight(meant)'
  <2>1. /\ UNCHANGED <<registry, mixed>> /\ text' = [text EXCEPT ![p] = None]
        /\ pc' = [pc EXCEPT ![p] = "files"] \/ pc' = [pc EXCEPT ![p] = "registries"]
    BY <1>6 DEF WriteFails, Passed, Goto, disk, unchangedByOpen
  <2> QED BY <1>2, <1>t, <2>1
<1>7. ASSUME NEW p \in Procs, Load(p) PROVE KeysRight(meant)'
  <2>1. /\ UNCHANGED <<registry, mixed>>
        /\ text' = [text EXCEPT ![p] = None] \/ text' = text
        /\ pc' = [pc EXCEPT ![p] = "idle"] \/ pc' = [pc EXCEPT ![p] = "registries"]
    BY <1>7 DEF Load, Refused, Forget, Goto, disk, unchangedByOpen
  <2> QED BY <1>2, <1>t, <2>1
<1>8. ASSUME NEW p \in Procs, NEW f \in Files, ReadFile(p, f) PROVE KeysRight(meant)'
  <2>1. /\ UNCHANGED <<registry, mixed>> /\ pc[p] = "files"
        /\ \/ UNCHANGED <<pc, text>>
           \/ pc' = [pc EXCEPT ![p] = "read"] /\ \A q \in Procs \ {p} : text'[q] = text[q]
    <3>1. text = [q \in Procs |-> text[q]]
      BY <1>t
    <3> QED BY <1>8, <3>1, ReadsFile
  <2> QED BY <1>2, <1>t, <2>1
<1>9. ASSUME NEW p \in Procs, CopyFile(p) PROVE KeysRight(meant)'
  <2>1. UNCHANGED <<registry, mixed, text>> /\ pc' = [pc EXCEPT ![p] = "copied"]
    BY <1>9, CopiesFile
  <2> QED BY <1>2, <1>t, <2>1
<1>10. ASSUME NEW p \in Procs, WriteFile(p) PROVE KeysRight(meant)'
  <2>1. /\ UNCHANGED <<registry, mixed>> /\ pc' = [pc EXCEPT ![p] = "files"]
        /\ text' = [text EXCEPT ![p] = None]
    BY <1>10, WritesFile
  <2> QED BY <1>2, <1>t, <2>1
<1>11. ASSUME NEW p \in Procs, NEW r \in Registries, ReadRegistry(p, r) PROVE KeysRight(meant)'
  <2>1. /\ UNCHANGED <<registry, mixed>> /\ pc[p] = "registries" /\ r \in todo[p]
        /\ pc' = [pc EXCEPT ![p] = "registry read"]
        /\ text' = [text EXCEPT ![p] = LiftedRegistry(registry[r], index[p])]
    BY <1>11 DEF ReadRegistry, Goto, disk, unchangedByOpen
  <2> DEFINE old == registry[r]
             key == IF old.schema = 1 THEN Mapped(index[p], old.key) ELSE old.key
  <2>2. old \in RegistryContents /\ KeyRight(meant, old)
    BY <1>t, <1>k
  <2>3. LiftedRegistry(old, index[p]) = [old EXCEPT !.schema = 3, !.key = key, !.spokes = FALSE]
    BY DEF LiftedRegistry
  <2>4. ASSUME ~mixed PROVE key \in Uuids /\ meant[key] = old.of /\ old.of # None
    <3>1. CASE old.schema = 1
      <4>1. old.key \in Names /\ meant[Seed(old.key)] = old.of /\ old.of # None
        BY <2>2, <3>1 DEF KeyRight
      <4>2. index[p][old.key] = Seed(old.key)
        BY <2>1, <2>4, <3>1, <4>1 DEF AllOriginal, Namely, LiftingRegistries
      <4>3. key = Seed(old.key)
        BY <3>1, <4>1, <4>2, SeedIsUuid DEF Mapped
      <4> QED BY <4>1, <4>3, SeedIsUuid
    <3>2. CASE old.schema # 1
      BY <2>2, <2>4, <3>2 DEF KeyRight
    <3> QED BY <3>1, <3>2
  <2> HIDE DEF old, key
  <2>5. PICK new : new = LiftedRegistry(old, index[p])
    OBVIOUS
  <2>6. new.schema = 3 /\ new.key = key /\ new.of = old.of /\ new.spokes = FALSE
    BY <2>2, <2>3, <2>5 DEF RegistryContents
  <2>7. KeyRight(meant, new)
    BY <2>4, <2>6 DEF KeyRight
  <2>8. text' = [text EXCEPT ![p] = new]
    BY <2>1, <2>5 DEF old
  <2>9. KeyRight(meant, new)'
    BY <2>1, <2>7 DEF KeyRight
  <2>10. ASSUME NEW q \in Procs, pc'[q] = "registry read" PROVE KeyRight(meant, text[q])'
    <3>1. CASE q = p
      <4>1. text'[p] = new
        BY <1>t, <2>8
      <4> QED BY <2>9, <3>1, <4>1
    <3>2. CASE q # p
      <4>1. text'[q] = text[q] /\ pc[q] = "registry read"
        BY <1>t, <2>1, <2>8, <2>10, <3>2
      <4> QED BY <1>k, <2>1, <4>1 DEF KeyRight
    <3> QED BY <3>1, <3>2
  <2>11. \A s \in Registries : KeyRight(meant, registry[s])'
    BY <1>k, <2>1 DEF KeyRight
  <2> QED BY <2>10, <2>11 DEF KeysRight
<1>12. ASSUME NEW p \in Procs, WriteRegistry(p) PROVE KeysRight(meant)'
  <2>1. /\ pc[p] = "registry read" /\ pc' = [pc EXCEPT ![p] = "registries"]
        /\ text' = [text EXCEPT ![p] = None] /\ mixed' = mixed
        /\ registry' = [registry EXCEPT ![at[p]] = text[p]]
    BY <1>12 DEF WriteRegistry, Passed, Goto, unchangedByOpen
  <2>2. KeyRight(meant, text[p])
    BY <1>k, <2>1
  <2>3. \A r \in Registries : registry'[r] = registry[r] \/ registry'[r] = text[p]
    BY <1>t, <2>1
  <2>4. \A r \in Registries : KeyRight(meant, registry[r])'
    BY <1>k, <2>1, <2>2, <2>3, ZenonT(60) DEF KeyRight
  <2>5. \A q \in Procs : pc'[q] = "registry read" => pc[q] = "registry read" /\ text'[q] = text[q]
    BY <1>t, <2>1
  <2>6. ASSUME NEW q \in Procs, pc'[q] = "registry read" PROVE KeyRight(meant, text[q])'
    <3>1. KeyRight(meant, text[q]) /\ text'[q] = text[q] /\ mixed' = mixed
      BY <1>k, <2>1, <2>5, <2>6
    <3> QED BY <3>1 DEF KeyRight
  <2> QED BY <2>4, <2>6 DEF KeysRight
<1>13. ASSUME UNCHANGED <<registry, pc, text>>, mixed => mixed' PROVE KeysRight(meant)'
  BY <1>2, <1>13
<1>14. ASSUME NEW f \in Files, NEW c, Stage(f, c) PROVE KeysRight(meant)'
  BY <1>13, <1>14 DEF Stage, disk, openVars
<1>15. ASSUME Editing PROVE KeysRight(meant)'
  BY <1>14, <1>15 DEF Editing, Rename, Create, EditForm, Refer
<1>16. ASSUME NEW failed \in SUBSET Files, Save(failed) PROVE KeysRight(meant)'
  BY <1>13, <1>16 DEF Save, openVars
<1>17. CASE Discard
  BY <1>13, <1>17 DEF Discard, disk, openVars
<1>18. ASSUME NEW c \in copies, PutBack(c[1], c[2]) PROVE KeysRight(meant)'
  BY <1>13, <1>18 DEF PutBack, openVars
<1>19. ASSUME NEW f \in Files, Deliver(f) PROVE KeysRight(meant)'
  BY <1>13, <1>19 DEF Deliver, openVars
<1> QED BY <1>3, <1>4, <1>5, <1>6, <1>7, <1>8, <1>9, <1>10, <1>11, <1>12, <1>15, <1>16, <1>17,
           <1>18, <1>19 DEF Next, Editing

-----------------------------------------------------------------------------
(* An open nobody crosses.                                                 *)

\* What an open that goes on meanwhile keeps.
LEMMA AsLeftKept ==
  ASSUME NEW q \in Procs, AsLeft(q), pc'[q] = pc[q], todo'[q] = todo[q], at'[q] = at[q],
         text'[q] = text[q], file' = file, copies \subseteq copies', registry' = registry,
         staged' = staged
  PROVE  AsLeft(q)'
BY DEF AsLeft, Lifting, LiftingFiles, LiftingRegistries

LEMMA UncrossedStep ==
  ASSUME TypeOK, OpenTypes, Uncrossed, [Next]_vars
  PROVE  Uncrossed'
<1> USE DEF Lifting, LiftingFiles, LiftingRegistries
<1>t. /\ file \in [Files -> Contents] /\ copies \subseteq Files \X Contents
      /\ registry \in [Registries -> RegistryContents]
      /\ staged \in [Files -> Contents \cup {None}]
      /\ pc \in [Procs -> {"idle", "files", "read", "copied", "registries", "registry read"}]
      /\ todo \in [Procs -> SUBSET (Files \cup Registries)]
      /\ at \in [Procs -> Files \cup Registries \cup {None}]
      /\ text \in [Procs -> Contents \cup RegistryContents \cup {None}]
  BY DEF TypeOK
<1>u. ASSUME NEW q \in Procs, q \notin disturbed, pc[q] # "idle" PROVE AsLeft(q)
  BY <1>u DEF Uncrossed
<1>1. ASSUME UNCHANGED <<file, copies, registry, staged, disturbed, pc, todo, at, text>>
      PROVE  Uncrossed'
  BY <1>1, <1>u, AsLeftKept DEF Uncrossed
\* A step of one open: what it comes to is all there is to see to.
<1>2. ASSUME NEW p \in Procs, disturbed \ {p} \subseteq disturbed', copies \subseteq copies',
             UNCHANGED <<file, registry, staged>>,
             \A q \in Procs \ {p} : /\ pc'[q] = pc[q] /\ todo'[q] = todo[q] /\ at'[q] = at[q]
                                    /\ text'[q] = text[q],
             p \notin disturbed' /\ pc'[p] # "idle" => AsLeft(p)'
      PROVE  Uncrossed'
  <2> SUFFICES ASSUME NEW q \in Procs, q \notin disturbed', pc'[q] # "idle" PROVE AsLeft(q)'
    BY DEF Uncrossed
  <2>1. CASE q = p
    BY <1>2, <2>1
  <2>2. CASE q # p
    BY <1>2, <1>u, <2>2, AsLeftKept
  <2> QED BY <2>1, <2>2
<1>3. CASE UNCHANGED vars
  BY <1>1, <1>3 DEF vars, disk, openVars
<1>4. ASSUME NEW p \in Procs, Open(p) PROVE Uncrossed'
  <2>1. /\ pc[p] = "idle" /\ pc' = [pc EXCEPT ![p] = "files"]
        /\ \A f \in Files : file[f].format # Newer
        /\ UNCHANGED <<file, copies, registry, staged, at, text>>
    BY <1>4 DEF Open, Goto, disk, unchangedByOpen
  <2>2. \/ todo' = todo /\ disturbed' = disturbed \cup {p}
        \/ /\ ~Dirty(p) /\ disturbed' = disturbed \ {p}
           /\ todo' = [todo EXCEPT ![p] = {f \in Files : file[f].format < Current}]
    BY <1>4 DEF Open
  <2>3. ASSUME p \notin disturbed' PROVE AsLeft(p)'
    <3>1. /\ ~Dirty(p) /\ todo'[p] = {f \in Files : file[f].format < Current}
          /\ pc'[p] = "files"
      BY <1>t, <2>1, <2>2, <2>3
    <3>2. \A f \in Files : file[f].format \in {2, 3, 4}
      BY <1>t DEF Contents, Current, Newer
    <3>3. \A f \in Files : file'[f].format = Current \/ (file'[f].format = 2 /\ f \in todo'[p])
      BY <2>1, <3>1, <3>2 DEF Current, Newer
    <3>4. p = Gui => \A f \in Files : staged'[f] = None
      BY <2>1, <3>1 DEF Dirty
    <3> QED BY <3>1, <3>3, <3>4 DEF AsLeft
  <2>4. \A q \in Procs \ {p} : pc'[q] = pc[q] /\ todo'[q] = todo[q]
    BY <1>t, <2>1, <2>2
  <2>5. disturbed \ {p} \subseteq disturbed'
    BY <2>2
  <2> QED BY <1>2, <2>1, <2>3, <2>4, <2>5
<1>5. ASSUME NEW p \in Procs, CopyFails(p) \/ Close(p) PROVE Uncrossed'
  <2>1. /\ UNCHANGED <<file, copies, registry, staged, disturbed>>
        /\ pc' = [pc EXCEPT ![p] = "idle"] /\ todo' = [todo EXCEPT ![p] = {}]
        /\ at' = [at EXCEPT ![p] = None] /\ text' = [text EXCEPT ![p] = None]
    BY <1>5 DEF CopyFails, Close, Refused, Forget, Goto, disk, unchangedByOpen
  <2> QED BY <1>2, <1>t, <2>1
<1>6. ASSUME NEW p \in Procs, WriteFails(p) PROVE Uncrossed'
  <2>1. /\ UNCHANGED <<file, copies, registry, staged, todo>> /\ disturbed' = disturbed \cup {p}
        /\ pc' = [pc EXCEPT ![p] = "files"] \/ pc' = [pc EXCEPT ![p] = "registries"]
        /\ at' = [at EXCEPT ![p] = None] /\ text' = [text EXCEPT ![p] = None]
    BY <1>6 DEF WriteFails, Passed, Goto, disk, unchangedByOpen
  <2> QED BY <1>2, <1>t, <2>1
<1>7. ASSUME NEW p \in Procs, Load(p) PROVE Uncrossed'
  <2>1. /\ UNCHANGED <<file, copies, registry, staged, disturbed>> /\ pc[p] = "files" /\ todo[p] = {}
    BY <1>7 DEF Load, disk, unchangedByOpen
  <2>2. CASE ~Sound(Graph(p))
    <3>1. /\ pc' = [pc EXCEPT ![p] = "idle"] /\ todo' = [todo EXCEPT ![p] = {}]
          /\ at' = [at EXCEPT ![p] = None] /\ text' = [text EXCEPT ![p] = None]
      BY <1>7, <2>2 DEF Load, Refused, Forget, Goto
    <3> QED BY <1>2, <1>t, <2>1, <3>1
  <2>3. CASE Sound(Graph(p))
    <3>1. /\ pc' = [pc EXCEPT ![p] = "registries"] /\ UNCHANGED <<at, text>>
          /\ todo' = [todo EXCEPT ![p] = {r \in Registries : Outdated(r) /\ ~Dirty(p)}]
      BY <1>7, <2>3 DEF Load, Goto
    <3>2. ASSUME p \notin disturbed' PROVE AsLeft(p)'
      <4>1. AsLeft(p)
        BY <1>u, <2>1, <3>2
      <4>2. ~Dirty(p) /\ \A f \in Files : file[f].format = Current
        BY <2>1, <4>1 DEF AsLeft, Dirty
      <4>3. \A r \in Registries : registry[r].schema = 3 \/ Outdated(r)
        <5>1. \A r \in Registries : registry[r].schema \in 1 .. 3
          BY <1>t DEF RegistryContents
        <5> QED BY <5>1 DEF Outdated
      <4>4. todo'[p] = {r \in Registries : Outdated(r)} /\ pc'[p] = "registries"
        BY <1>t, <3>1, <4>2
      <4> QED BY <2>1, <4>1, <4>2, <4>3, <4>4 DEF AsLeft
    <3> QED BY <1>2, <1>t, <2>1, <3>1, <3>2
  <2> QED BY <2>2, <2>3
<1>8. ASSUME NEW p \in Procs, NEW f \in Files, ReadFile(p, f) PROVE Uncrossed'
  <2>1. /\ UNCHANGED <<file, copies, registry, staged, disturbed>>
        /\ pc[p] = "files" /\ f \in todo[p] /\ todo' = [todo EXCEPT ![p] = @ \ {f}]
        /\ \/ file[f].format = Newer /\ UNCHANGED <<pc, at, text>>
           \/ /\ file[f].format # Newer /\ pc' = [pc EXCEPT ![p] = "read"]
              /\ at' = [at EXCEPT ![p] = f] /\ text' = [text EXCEPT ![p] = Lifted(file[f])]
    BY <1>8, ReadsFile
  <2>2. ASSUME p \notin disturbed' PROVE AsLeft(p)'
    <3>1. AsLeft(p)
      BY <1>u, <2>1, <2>2
    <3>2. file[f].format # Newer
      <4>1. file[f].format \in {Current, 2}
        BY <3>1 DEF AsLeft
      <4> QED BY <4>1 DEF Current, Newer
    <3>3. pc'[p] = "read" /\ at'[p] = f /\ text'[p] = Lifted(file[f]) /\ todo'[p] = todo[p] \ {f}
      BY <1>t, <2>1, <3>2
    <3> QED BY <2>1, <3>1, <3>3 DEF AsLeft
  <2>3. \A q \in Procs \ {p} : pc'[q] = pc[q] /\ todo'[q] = todo[q] /\ at'[q] = at[q] /\ text'[q] = text[q]
    BY <1>t, <2>1
  <2> QED BY <1>2, <2>1, <2>2, <2>3
<1>9. ASSUME NEW p \in Procs, CopyFile(p) PROVE Uncrossed'
  <2>1. /\ UNCHANGED <<file, registry, staged, todo, at, text, disturbed>>
        /\ copies' = copies \cup {<<at[p], file[at[p]]>>}
        /\ pc[p] = "read" /\ pc' = [pc EXCEPT ![p] = "copied"]
    BY <1>9, CopiesFile
  <2>2. ASSUME p \notin disturbed' PROVE AsLeft(p)'
    <3>1. AsLeft(p)
      BY <1>u, <2>1, <2>2
    <3>2. pc'[p] = "copied" /\ <<at[p], file[at[p]]>> \in copies'
      BY <1>t, <2>1
    <3> QED BY <2>1, <3>1, <3>2 DEF AsLeft
  <2> QED BY <1>2, <1>t, <2>1, <2>2
<1>10. ASSUME NEW p \in Procs, WriteFile(p) PROVE Uncrossed'
  <2>1. /\ UNCHANGED <<copies, staged, registry, todo>>
        /\ pc[p] = "copied" /\ pc' = [pc EXCEPT ![p] = "files"]
        /\ at[p] \in Files /\ at' = [at EXCEPT ![p] = None]
        /\ text[p].format = Current /\ text' = [text EXCEPT ![p] = None]
    BY <1>10, WritesFile
  <2>2. \/ file[at[p]].format = Newer /\ UNCHANGED <<file, disturbed>>
        \/ /\ file' = [file EXCEPT ![at[p]] = text[p]]
           /\ \/ text[p] = Lifted(file[at[p]]) /\ disturbed' = disturbed
              \/ disturbed' = disturbed \cup Crossed
    BY <1>10, WritesFile
  <2> SUFFICES ASSUME NEW q \in Procs, q \notin disturbed', pc'[q] # "idle" PROVE AsLeft(q)'
    BY DEF Uncrossed
  <2>3. q \notin disturbed /\ pc[q] # "idle"
    BY <1>t, <2>1, <2>2
  <2>4. AsLeft(q)
    BY <1>u, <2>3
  <2>5. /\ file' = [file EXCEPT ![at[p]] = text[p]]
        /\ text[p] = Lifted(file[at[p]]) /\ disturbed' = disturbed
    <3>1. file[at[p]].format # Newer
      <4>1. file[at[p]].format \in {Current, 2}
        BY <2>1, <2>4 DEF AsLeft
      <4> QED BY <4>1 DEF Current, Newer
    <3>2. q \in Crossed
      BY <2>3 DEF Crossed
    <3> QED BY <2>2, <3>1, <3>2
  <2>6. file'[at[p]] = text[p] /\ \A g \in Files : g # at[p] => file'[g] = file[g]
    BY <1>t, <2>1, <2>5
  <2>7. \A g \in Files : Lifted(file'[g]) = Lifted(file[g])
    <3>1. file[at[p]] \in Contents
      BY <1>t, <2>1
    <3> QED BY <2>1, <2>5, <2>6, <3>1, LiftedFacts
  <2>8. CASE q = p
    <3>1. pc'[q] = "files" /\ todo'[q] = todo[q]
      BY <1>t, <2>1, <2>8
    <3> QED BY <2>1, <2>4, <2>6, <2>8, <3>1, ZenonT(60) DEF AsLeft
  <2>9. CASE q # p
    <3>1. pc'[q] = pc[q] /\ todo'[q] = todo[q] /\ at'[q] = at[q] /\ text'[q] = text[q]
      BY <1>t, <2>1, <2>9
    <3>2. \A g \in Files : \/ file'[g].format = Current
                           \/ file'[g].format = 2 /\ LiftingFiles(q)
                              /\ (g \in todo[q] \/ (Lifting(q) /\ at[q] = g))
      BY <2>1, <2>4, <2>6, ZenonT(60) DEF AsLeft
    <3>3. Lifting(q) => at[q] \in Files
      BY DEF OpenTypes
    <3>4. Lifting(q) => text[q] = Lifted(file'[at[q]])
      BY <2>4, <2>7, <3>3 DEF AsLeft
    <3>5. pc[q] = "copied" => <<at[q], file'[at[q]]>> \in copies \/ file'[at[q]] = text[q]
      BY <2>4, <2>5, <2>6, <3>3 DEF AsLeft
    <3>6. q = Gui => \A f \in Files : staged'[f] = None
      BY <2>1, <2>4 DEF AsLeft
    <3>7. LiftingRegistries(q) => \A r \in Registries :
            registry'[r].schema = 3 \/ r \in todo[q] \/ (pc[q] = "registry read" /\ at[q] = r)
      BY <2>1, <2>4 DEF AsLeft
    <3>8. (pc[q] = "copied" => <<at[q], file[at[q]]>> \in copies \/ file[at[q]] = text[q])'
      BY <2>1, <3>1, <3>5
    <3>9. (Lifting(q) => text[q] = Lifted(file[at[q]]))'
      BY <3>1, <3>4
    <3>10. (LiftingRegistries(q) => \A r \in Registries :
              registry[r].schema = 3 \/ r \in todo[q] \/ (pc[q] = "registry read" /\ at[q] = r))'
      BY <3>1, <3>7
    <3> QED BY <3>1, <3>2, <3>6, <3>8, <3>9, <3>10 DEF AsLeft
  <2> QED BY <2>8, <2>9
<1>11. ASSUME NEW p \in Procs, NEW r \in Registries, ReadRegistry(p, r) PROVE Uncrossed'
  <2>1. /\ UNCHANGED <<file, copies, registry, staged, disturbed>>
        /\ pc[p] = "registries" /\ todo' = [todo EXCEPT ![p] = @ \ {r}]
        /\ pc' = [pc EXCEPT ![p] = "registry read"] /\ at' = [at EXCEPT ![p] = r]
        /\ \E new : text' = [text EXCEPT ![p] = new]
    BY <1>11 DEF ReadRegistry, Goto, disk, unchangedByOpen
  <2>2. ASSUME p \notin disturbed' PROVE AsLeft(p)'
    <3>1. AsLeft(p)
      BY <1>u, <2>1, <2>2
    <3>2. pc'[p] = "registry read" /\ at'[p] = r /\ todo'[p] = todo[p] \ {r}
      BY <1>t, <2>1
    <3> QED BY <2>1, <3>1, <3>2 DEF AsLeft
  <2>3. \A q \in Procs \ {p} : pc'[q] = pc[q] /\ todo'[q] = todo[q] /\ at'[q] = at[q] /\ text'[q] = text[q]
    BY <1>t, <2>1
  <2> QED BY <1>2, <2>1, <2>2, <2>3
<1>12. ASSUME NEW p \in Procs, WriteRegistry(p) PROVE Uncrossed'
  <2>1. /\ UNCHANGED <<file, copies, staged, todo, disturbed>>
        /\ pc[p] = "registry read" /\ pc' = [pc EXCEPT ![p] = "registries"]
        /\ at' = [at EXCEPT ![p] = None] /\ text' = [text EXCEPT ![p] = None]
        /\ registry' = [registry EXCEPT ![at[p]] = text[p]]
    BY <1>12 DEF WriteRegistry, Passed, Goto, unchangedByOpen
  <2>2. text[p].schema = 3 /\ at[p] \in Registries
    BY <2>1 DEF OpenTypes
  <2>3. /\ registry'[at[p]].schema = 3
        /\ \A r \in Registries : r # at[p] => registry'[r] = registry[r]
    BY <1>t, <2>1, <2>2
  <2> SUFFICES ASSUME NEW q \in Procs, q \notin disturbed', pc'[q] # "idle" PROVE AsLeft(q)'
    BY DEF Uncrossed
  <2>4. AsLeft(q)
    BY <1>u, <1>t, <2>1
  <2>5. CASE q = p
    <3>1. pc'[q] = "registries" /\ todo'[q] = todo[q]
      BY <1>t, <2>1, <2>5
    <3> QED BY <2>1, <2>3, <2>4, <2>5, <3>1, ZenonT(60) DEF AsLeft
  <2>6. CASE q # p
    <3>1. pc'[q] = pc[q] /\ todo'[q] = todo[q] /\ at'[q] = at[q] /\ text'[q] = text[q]
      BY <1>t, <2>1, <2>6
    <3>2. LiftingRegistries(q) => \A r \in Registries :
            registry'[r].schema = 3 \/ r \in todo[q] \/ (pc[q] = "registry read" /\ at[q] = r)
      BY <2>3, <2>4 DEF AsLeft
    <3>3. q = Gui => \A f \in Files : staged'[f] = None
      BY <2>1, <2>4 DEF AsLeft
    <3>4. \A f \in Files : \/ file'[f].format = Current
                           \/ file'[f].format = 2 /\ LiftingFiles(q)
                              /\ (f \in todo[q] \/ (Lifting(q) /\ at[q] = f))
      BY <2>1, <2>4 DEF AsLeft
    <3>5. /\ Lifting(q) => text[q] = Lifted(file'[at[q]])
          /\ pc[q] = "copied" => <<at[q], file'[at[q]]>> \in copies' \/ file'[at[q]] = text[q]
      BY <2>1, <2>4 DEF AsLeft
    <3> QED BY <3>1, <3>2, <3>3, <3>4, <3>5 DEF AsLeft
  <2> QED BY <2>5, <2>6
<1>13. ASSUME NEW p \in Procs, Die(p) PROVE Uncrossed'
  <2>1. /\ UNCHANGED <<file, copies, registry, disturbed>>
        /\ pc' = [pc EXCEPT ![p] = "idle"] /\ todo' = [todo EXCEPT ![p] = {}]
        /\ at' = [at EXCEPT ![p] = None] /\ text' = [text EXCEPT ![p] = None]
        /\ IF p = Gui THEN staged' = [f \in Files |-> None] ELSE staged' = staged
    BY <1>13 DEF Die, Refused, Forget, Goto, disk
  <2> SUFFICES ASSUME NEW q \in Procs, q \notin disturbed', pc'[q] # "idle" PROVE AsLeft(q)'
    BY DEF Uncrossed
  <2>2. q # p /\ pc'[q] = pc[q] /\ todo'[q] = todo[q] /\ at'[q] = at[q] /\ text'[q] = text[q]
    BY <1>t, <2>1
  <2>3. AsLeft(q)
    BY <1>u, <2>1, <2>2
  <2>4. q = Gui => \A f \in Files : staged'[f] = None
    BY <2>1, <2>2, <2>3 DEF AsLeft
  <2>5. \A f \in Files : \/ file'[f].format = Current
                         \/ file'[f].format = 2 /\ LiftingFiles(q)
                            /\ (f \in todo[q] \/ (Lifting(q) /\ at[q] = f))
    BY <2>1, <2>3 DEF AsLeft
  <2>6. LiftingRegistries(q) => \A r \in Registries :
          registry'[r].schema = 3 \/ r \in todo[q] \/ (pc[q] = "registry read" /\ at[q] = r)
    BY <2>1, <2>3 DEF AsLeft
  <2>7. /\ Lifting(q) => text[q] = Lifted(file'[at[q]])
        /\ pc[q] = "copied" => <<at[q], file'[at[q]]>> \in copies' \/ file'[at[q]] = text[q]
    BY <2>1, <2>3 DEF AsLeft
  <2> QED BY <2>2, <2>4, <2>5, <2>6, <2>7 DEF AsLeft
\* The GUI edits while it has no open under way.
<1>14. ASSUME pc[Gui] = "idle",
              UNCHANGED <<file, copies, registry, disturbed, pc, todo, at, text>>
       PROVE  Uncrossed'
  <2> SUFFICES ASSUME NEW q \in Procs, q \notin disturbed', pc'[q] # "idle" PROVE AsLeft(q)'
    BY DEF Uncrossed
  <2>1. AsLeft(q) /\ q # Gui
    BY <1>14, <1>u
  <2> QED BY <1>14, <2>1 DEF AsLeft
<1>15. CASE Editing
  <2>1. \E f \in Files : \E c : Stage(f, c)
    BY <1>15 DEF Editing, Rename, Create, EditForm, Refer
  <2> QED BY <1>14, <2>1, SMTT(60) DEF Stage, disk, openVars
<1>16. CASE Discard
  BY <1>14, <1>16 DEF Discard, disk, openVars
\* A write of others: the opens under way are disturbed.
<1>17. ASSUME pc' = pc, disturbed' = disturbed \cup Crossed PROVE Uncrossed'
  BY <1>17 DEF Uncrossed, Crossed
<1>18. ASSUME NEW failed \in SUBSET Files, Save(failed) PROVE Uncrossed'
  BY <1>17, <1>18 DEF Save, openVars
<1>19. ASSUME NEW c \in copies, PutBack(c[1], c[2]) PROVE Uncrossed'
  BY <1>17, <1>19 DEF PutBack, Outside, openVars
<1>20. ASSUME NEW f \in Files, Deliver(f) PROVE Uncrossed'
  BY <1>17, <1>20 DEF Deliver, Outside, openVars
<1> QED BY <1>3, <1>4, <1>5, <1>6, <1>7, <1>8, <1>9, <1>10, <1>11, <1>12, <1>13, <1>15, <1>16,
           <1>18, <1>19, <1>20 DEF Next, Editing

LEMMA CopiedStep ==
  ASSUME TypeOK, OpenTypes, Uncrossed, PreviousCopied, [Next]_vars
  PROVE  PreviousCopied'
<1>1. ASSUME NEW p \in Procs, WriteFile(p) PROVE PreviousCopied'
  <2>1. /\ pc[p] = "copied"
        /\ \/ lost' = lost
           \/ /\ file[at[p]] # text[p] /\ <<at[p], file[at[p]]>> \notin copies
              /\ lost' = lost \cup {IF p \in disturbed THEN "disturbed" ELSE "undisturbed"}
    BY <1>1, WritesFile
  <2>2. p \notin disturbed => <<at[p], file[at[p]]>> \in copies \/ file[at[p]] = text[p]
    BY <2>1 DEF Uncrossed, AsLeft
  <2> QED BY <2>1, <2>2 DEF PreviousCopied
<1>2. ASSUME lost' = lost PROVE PreviousCopied'
  BY <1>2 DEF PreviousCopied
<1>3. CASE UNCHANGED vars
  BY <1>2, <1>3 DEF vars
<1>4. ASSUME NEW p \in Procs,
             \/ Open(p) \/ CopyFile(p) \/ CopyFails(p) \/ WriteFails(p) \/ Load(p) \/ WriteRegistry(p)
             \/ Close(p) \/ Die(p)
      PROVE  lost' = lost
  BY <1>4 DEF Open, CopyFile, CopyFails, WriteFails, Load, WriteRegistry, Close, Die
<1>6. ASSUME NEW p \in Procs, NEW x, ReadFile(p, x) \/ ReadRegistry(p, x) PROVE lost' = lost
  BY <1>6 DEF ReadFile, ReadRegistry
<1>5. ASSUME NEW f, NEW x, \/ Rename(f, x) \/ Create(f, x) \/ EditForm(f) \/ Refer(f, x) \/ Discard
                           \/ Save(f) \/ Deliver(f) \/ PutBack(f, x)
      PROVE  lost' = lost
  BY <1>5 DEF Rename, Create, EditForm, Refer, Stage, Discard, Save, Deliver, PutBack
<1>7. ASSUME Next PROVE lost' = lost \/ \E p \in Procs : WriteFile(p)
  BY <1>4, <1>5, <1>6, <1>7, Zenon DEF Next
<1> QED BY <1>1, <1>2, <1>3, <1>7

-----------------------------------------------------------------------------
(* The invariant, and what follows from it.                                *)

\* There is a meaning of the numbers, fixed from the start.
LiftIInv == \E meant : Numbering(meant) /\ LiftInv(meant)

LEMMA LiftStep == LiftIInv /\ [Next]_vars => LiftIInv'
<1> SUFFICES ASSUME LiftIInv, [Next]_vars PROVE LiftIInv'
  OBVIOUS
<1>1. PICK meant : Numbering(meant) /\ LiftInv(meant)
  BY DEF LiftIInv
<1>2. LiftInv(meant)'
  BY <1>1, TypesStep, FaithfulStep, WholeStep, OriginalStep, KeysStep, UncrossedStep, CopiedStep
     DEF LiftInv
<1> QED BY <1>1, <1>2 DEF LiftIInv, Numbering

THEOREM LiftInvariant == Spec => []LiftIInv
<1>1. Init => LiftIInv
  BY InitLift DEF LiftIInv
<1> QED BY <1>1, LiftStep, PTL DEF Spec

\* Whatever the files, edits, faults and deaths, the variables keep their types.
THEOREM LiftTypes == Spec => []TypeOK
<1>1. LiftIInv => TypeOK
  BY DEF LiftIInv, LiftInv
<1> QED BY <1>1, LiftInvariant, PTL

\* However lifts, edits and Saves of two programs come together, a reference
\* resolves to the record it was made for and to no other
\* (config/format_version.py:246-252, config/format3.py:580-600).
THEOREM ReferencesMeantHolds == Spec => []ReferencesMeant
<1>1. LiftIInv => ReferencesMeant
  <2> SUFFICES ASSUME LiftIInv, NEW p \in Procs, NEW f \in Files, NEW g \in Files,
                      Refers(Graph(p)[f]), Named(Graph(p)[g])
               PROVE  Graph(p)[f].ref = Graph(p)[g].uuid <=> Graph(p)[f].to = Graph(p)[g].id
    BY DEF ReferencesMeant
  <2>1. PICK meant : Numbering(meant) /\ LiftInv(meant)
    BY DEF LiftIInv
  <2>2. /\ Faithful(meant, Graph(p)[f]) /\ Lifted(Graph(p)[f]) = Graph(p)[f]
        /\ Faithful(meant, Graph(p)[g]) /\ Lifted(Graph(p)[g]) = Graph(p)[g]
    BY <2>1, GraphFaithful, ContentFacts DEF LiftInv
  <2>3. /\ Graph(p)[f].ref \in Uuids /\ meant[Graph(p)[f].ref] = Graph(p)[f].to
        /\ Graph(p)[f].to # None
        /\ Graph(p)[g].uuid \in Uuids /\ meant[Graph(p)[g].uuid] = Graph(p)[g].id
    BY <2>2 DEF Faithful
  <2> QED BY <2>1, <2>3 DEF Numbering
<1> QED BY <1>1, LiftInvariant, PTL

\* Unless a Save failed in part, a lift undid a write or a file was put back, the
\* profile loads, however far a lift has come (config/format3.py:520-575).
THEOREM LoadsWhateverHolds == Spec => []LoadsWhatever
<1>1. LiftIInv => LoadsWhatever
  <2> SUFFICES ASSUME LiftIInv, ~torn, NEW p \in Procs, \A f \in Files : file[f].format # Newer
               PROVE  Sound(Graph(p))
    BY DEF LoadsWhatever
  <2>0. \A f \in Files : file[f].format # Newer
    OBVIOUS
  <2>1. TypeOK /\ OpenTypes /\ GraphsWhole
    BY DEF LiftIInv, LiftInv
  <2>2. ASSUME NEW f \in Files PROVE Graph(p)[f].format = Current
    <3>1. Content(p, f) \in Contents /\ Graph(p)[f] = Lifted(Content(p, f))
      BY <2>1, ContentFacts
    <3>2. Content(p, f).format # Newer
      <4>1. staged[f] # None => staged[f].format = Current
        BY <2>1 DEF OpenTypes
      <4>2. file[f].format # Newer
        BY <2>0
      <4> QED BY <4>1, <4>2 DEF Content, Current, Newer
    <3> QED BY <3>1, <3>2, LiftedFacts
  <2>3. Whole(Graph(p))
    BY <2>1 DEF GraphsWhole
  <2> QED BY <2>2, <2>3, SoundIsWhole
<1> QED BY <1>1, LiftInvariant, PTL

\* What a lift overwrites has a copy, if nobody else writes while it runs
\* (config/upgrade_on_disk.py:45-47).
THEOREM PreviousCopiedHolds == Spec => []PreviousCopied
<1>1. LiftIInv => PreviousCopied
  BY DEF LiftIInv, LiftInv
<1> QED BY <1>1, LiftInvariant, PTL

\* A lifted registry's keys go by the numbers of the records whose copper they hold,
\* unless an edit was saved while one went by names (config/registry_upgrade.py:1-32).
THEOREM KeysFollowHolds == Spec => []KeysFollow
<1>1. LiftIInv => KeysFollow
  <2> SUFFICES ASSUME LiftIInv, NEW r \in Registries, registry[r].schema = 3
               PROVE  /\ ~registry[r].spokes
                      /\ ~mixed => \A f \in Files : LET c == Lifted(file[f]) IN
                           Named(c) => (registry[r].of = c.id <=> registry[r].key = c.uuid)
    BY DEF KeysFollow
  <2>1. PICK meant : Numbering(meant) /\ LiftInv(meant)
    BY DEF LiftIInv
  <2>2. KeyRight(meant, registry[r])
    BY <2>1 DEF LiftInv, KeysRight
  <2>3. ~registry[r].spokes
    BY <2>2 DEF KeyRight
  <2>4. ASSUME ~mixed, NEW f \in Files, Named(Lifted(file[f]))
        PROVE  registry[r].of = Lifted(file[f]).id <=> registry[r].key = Lifted(file[f]).uuid
    <3>1. file[f] \in Contents /\ Faithful(meant, file[f])
      BY <2>1 DEF LiftInv, AllFaithful, TypeOK
    <3>2. Faithful(meant, Lifted(file[f])) /\ Lifted(Lifted(file[f])) = Lifted(file[f])
      BY <3>1, FaithfulLifted, LiftedFacts
    <3>3. Lifted(file[f]).uuid \in Uuids /\ meant[Lifted(file[f]).uuid] = Lifted(file[f]).id
      BY <2>4, <3>2 DEF Faithful
    <3>4. registry[r].key \in Uuids /\ meant[registry[r].key] = registry[r].of
          /\ registry[r].of # None
      BY <2>2, <2>4 DEF KeyRight
    <3> QED BY <2>1, <3>3, <3>4 DEF Numbering
  <2> QED BY <2>3, <2>4
<1> QED BY <1>1, LiftInvariant, PTL

\* An open in which nothing fails and which nobody crosses leaves the whole profile
\* current (config/upgrade_on_disk.py, config/registry_upgrade.py).
THEOREM LiftsAllHolds == Spec => []LiftsAll
<1>1. LiftIInv => LiftsAll
  <2> SUFFICES ASSUME LiftIInv, NEW p \in Procs, Opened(p), p \notin disturbed
               PROVE  /\ \A f \in Files : file[f].format = Current
                      /\ \A r \in Registries : registry[r].schema = 3
    BY DEF LiftsAll
  <2>1. pc[p] = "registries" /\ todo[p] = {}
    BY DEF Opened
  <2>2. AsLeft(p)
    BY <2>1 DEF LiftIInv, LiftInv, Uncrossed
  <2> QED BY <2>1, <2>2 DEF AsLeft, LiftingFiles, Lifting, LiftingRegistries
<1> QED BY <1>1, LiftInvariant, PTL

=============================================================================
