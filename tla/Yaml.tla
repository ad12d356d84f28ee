-------------------------------- MODULE Yaml --------------------------------
(***************************************************************************)
(* Export and import of printers, floors and groups as one YAML file       *)
(* (services/core/yaml.service.ts) with SQLite, where the whole import     *)
(* runs without letting a request in. A file has its own ids: a record of  *)
(*   printers, floors: functions from file ids to printers and floors,     *)
(*   groups: a sequence of groups, in the order of the file,               *)
(*   grid: the places of the floors are in the file,                       *)
(*   printerBy: a sequence of strategies, floorBy: one strategy.           *)
(* An import is a record of the next s, "ok" until a call throws, and the  *)
(* maps from file ids to ids of the database.                              *)
(***************************************************************************)
EXTENDS Floors, PrinterGroups, SequencesExt

CONSTANTS NameOf, UrlOf   \* of the connection settings: what strategies compare

\* What importPrintersFloorsYamlRules let pass.
IsFile(file) ==
  /\ IsFiniteSet(DOMAIN file.printers) /\ IsFiniteSet(DOMAIN file.floors)
  /\ \A i \in DOMAIN file.printers : file.printers[i] \in Printer
  /\ \A i \in DOMAIN file.floors :
       /\ file.floors[i].name \in FloorNames /\ file.floors[i].level \in Levels
       /\ \A pos \in file.floors[i].printers : pos.cell \in Cells
  /\ file.groups = [i \in 1..Len(file.groups) |-> file.groups[i]] /\ Len(file.groups) \in Nat
  /\ \A i \in DOMAIN file.groups : file.groups[i].name \in GroupNames
  /\ DOMAIN file.printerBy \subseteq Nat /\ file.grid \in BOOLEAN

\* The first of some ids in the order in which the database lists its rows.
First(s, ids) == CHOOSE i \in ids : \A j \in ids : s.order[i] <= s.order[j]

FirstNumber(ns) == CHOOSE i \in ns : \A j \in ns : i <= j

(***************************************************************************)
(* analysePrintersUpsert and analyseFloorsUpsert: which entry of the       *)
(* database an entry of the file updates, None when it is new. The id      *)
(* strategy calls a method of strings on what SQLite's exports parse to a  *)
(* number, and throws.                                                     *)
(***************************************************************************)
PrintersLike(s, printer, strategy) ==
  {p \in DOMAIN s.printers :
     \/ strategy = "name" /\ NameOf[s.printers[p].conn] = NameOf[printer.conn]
     \/ strategy = "url" /\ UrlOf[s.printers[p].conn] = UrlOf[printer.conn]}

PrinterTarget(s, printer, strategies) ==
  LET hits == {i \in DOMAIN strategies : PrintersLike(s, printer, strategies[i]) # {}}
  IN  IF hits = {} THEN None
      ELSE First(s, PrintersLike(s, printer, strategies[FirstNumber(hits)]))

FloorTarget(s, floor, strategy) ==
  LET hits == {f \in DOMAIN s.floors :
                 IF strategy = "name" THEN s.floors[f].name = floor.name
                                      ELSE s.floors[f].level = floor.level}
  IN  IF hits = {} THEN None ELSE First(s, hits)

Analysable(s, file) ==
  /\ \A i \in DOMAIN file.printers, n \in DOMAIN file.printerBy :
       file.printerBy[n] = "id" =>
         \E k \in 1..(n - 1) : PrintersLike(s, file.printers[i], file.printerBy[k]) # {}
  /\ file.floorBy = "id" => file.floors = <<>>

\* analyseUpsertGroups stops at the first group that exists; the groups after it
\* are neither inserted nor updated.
GroupsLike(s, group) == {g \in DOMAIN s.groups : s.groups[g].name = group.name}

AnalysedGroups(s, groups) ==
  LET known == {i \in DOMAIN groups : GroupsLike(s, groups[i]) # {}}
  IN  IF known = {} THEN groups
      ELSE SubSeq(groups, 1, FirstNumber(known))

(***************************************************************************)
(* Ids for what is inserted.                                               *)
(***************************************************************************)
UnusedPrinters(s) == {p \in PrinterIds \ (DOMAIN s.printers \cup DOMAIN s.cache) :
  \A f \in DOMAIN s.store : \A pos \in s.store[f].printers : pos.printer # p}

UnusedFloors(s) == FloorIds \ (DOMAIN s.floors \cup DOMAIN s.store)

UnusedGroups(s) == GroupIds \ DOMAIN s.groups

(***************************************************************************)
(* The calls of importPrintersAndFloors, in the order of its loops.        *)
(***************************************************************************)
\* printerService.create keeps the enabled flag and the reason of the file.
ImportNewPrinter(r, i, printer) ==
  LET p == First(r.s, UnusedPrinters(r.s))
      s == [r.s EXCEPT !.printers = Put(@, p, printer)]
  IN  [r EXCEPT !.s = HandlePrinterCreatedOrUpdated(s, p, printer), !.pmap = Put(@, i, p)]

ImportPrinterUpdate(r, i, printer, p) ==
  [r EXCEPT !.s = OrmUpdate(@, p, printer), !.pmap = Put(@, i, p)]

\* Places of printers that were not imported are discarded.
KnownPlaces(r, file, i) ==
  {[printer |-> r.pmap[pos.printer], cell |-> pos.cell] :
     pos \in {q \in file.floors[i].printers : q.printer \in DOMAIN r.pmap}}

ImportNewFloor(r, i, file) ==
  LET floor == file.floors[i]
      f     == First(r.s, UnusedFloors(r.s))
      made  == OrmCreateFloor(r.s, f, floor.name, floor.level,
                              IF file.grid THEN KnownPlaces(r, file, i) ELSE {})
  IN  IF ~r.ok \/ LevelTaken(r.s, floor.level) THEN [r EXCEPT !.ok = FALSE]
      ELSE [r EXCEPT !.s = StoreFloor(made, f, made.floors[f]), !.fmap = Put(@, i, f)]

\* Without the grid, update reads the places of nothing as soon as the floor has
\* one, and throws.
ImportFloorUpdate(r, i, file, f) ==
  LET floor  == file.floors[i]
      wanted == IF file.grid THEN KnownPlaces(r, file, i) ELSE {}
      s      == OrmUpdateFloor(r.s, f, floor.name, floor.level, wanted)
      reads  == ~file.grid /\ r.s.floors[f].printers # {}
  IN  IF ~r.ok \/ reads THEN [r EXCEPT !.ok = FALSE]
      ELSE IF LevelRefused(r.s, f, floor.level) THEN [r EXCEPT !.s = s, !.ok = FALSE]
      ELSE [r EXCEPT !.s = StoreFloor(s, f, s.floors[f]), !.fmap = Put(@, i, f)]

\* A new group gets its links, a known one the links of the file and no other.
ImportGroup(r, group, g) ==
  LET wanted == {r.pmap[i] : i \in group.printers \cap DOMAIN r.pmap}
      s == IF g = None THEN CreateGroup(r.s, FirstNumber(UnusedGroups(r.s)), group.name) ELSE r.s
      h == IF g = None THEN FirstNumber(UnusedGroups(r.s)) ELSE g
  IN  [r EXCEPT !.s = [s EXCEPT !.groups[h].printers = wanted]]

GroupTarget(s, group) ==
  IF GroupsLike(s, group) = {} THEN None ELSE FirstNumber(GroupsLike(s, group))

ImportPrinters(s, file) ==
  LET target == [i \in DOMAIN file.printers |-> PrinterTarget(s, file.printers[i], file.printerBy)]
      new    == {i \in DOMAIN target : target[i] = None}
      insert(i, r) == ImportNewPrinter(r, i, file.printers[i])
      update(i, r) == ImportPrinterUpdate(r, i, file.printers[i], target[i])
      start  == [s |-> s, ok |-> TRUE, pmap |-> <<>>, fmap |-> <<>>]
  IN  FoldSet(update, FoldSet(insert, start, new), (DOMAIN target) \ new)

ImportFloors(s, r0, file) ==
  LET target == [i \in DOMAIN file.floors |-> FloorTarget(s, file.floors[i], file.floorBy)]
      new    == {i \in DOMAIN target : target[i] = None}
      insert(i, r) == ImportNewFloor(r, i, file)
      update(i, r) == ImportFloorUpdate(r, i, file, target[i])
  IN  FoldSet(update, FoldSet(insert, r0, new), (DOMAIN target) \ new)

ImportGroups(s, r0, file) ==
  LET put(r, group) == ImportGroup(r, group, GroupTarget(s, group))
  IN  FoldLeft(put, r0, AnalysedGroups(s, file.groups))

\* The database is analysed before the first change; loadStore follows the floors.
Import(s, file) ==
  LET floors == ImportFloors(s, ImportPrinters(s, file), file)
      loaded == [floors EXCEPT !.s = StoreFloors(@, @.floors)]
  IN  IF ~Analysable(s, file) THEN [s |-> s, ok |-> FALSE, pmap |-> <<>>, fmap |-> <<>>]
      ELSE IF ~floors.ok THEN floors
      ELSE ImportGroups(s, loaded, file)

\* Ids for everything the import may insert.
Importable(s, file) ==
  /\ Cardinality({i \in DOMAIN file.printers : PrinterTarget(s, file.printers[i], file.printerBy) = None})
       <= Cardinality(UnusedPrinters(s))
  /\ Cardinality({i \in DOMAIN file.floors : FloorTarget(s, file.floors[i], file.floorBy) = None})
       <= Cardinality(UnusedFloors(s))
  /\ Cardinality({i \in DOMAIN file.groups : GroupsLike(s, file.groups[i]) = {}})
       <= Cardinality(UnusedGroups(s))

(***************************************************************************)
(* exportPrintersAndFloors: printers from the database, floors from the    *)
(* floor store.                                                            *)
(***************************************************************************)
Export(s, grid, printerBy, floorBy) ==
  [printers |-> s.printers, floors |-> s.store,
   groups |-> [i \in 1..Cardinality(DOMAIN s.groups) |->
                 s.groups[SetToSortSeq(DOMAIN s.groups, <)[i]]],
   grid |-> grid, printerBy |-> printerBy, floorBy |-> floorBy]
=============================================================================
