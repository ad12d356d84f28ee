------------------------------- MODULE Floors -------------------------------
(***************************************************************************)
(* Floors and the places of printers on them: the floor services of both   *)
(* databases and the floor store, a cache of floor DTOs that the handlers  *)
(* of the floor controller fill with what the service returns              *)
(* (services/orm/floor.service.ts, services/mongoose/floor.service.ts,     *)
(* state/floor.store.ts, controllers/floor.controller.ts).                 *)
(*                                                                         *)
(* The operators work on the record s of PrinterRegistry, with the fields  *)
(* "floors" (the database) and "store". A place is a record of a printer   *)
(* and a cell <<x, y>>; the version of a document (__v) is left to Farm.   *)
(***************************************************************************)
EXTENDS PrinterRegistry, Naturals, FiniteSetsExt

CONSTANTS FloorIds,   \* ids the database may hand out
          FloorNames, \* what clients call a floor
          Levels,     \* floor numbers, unique in both databases
          Cells       \* places <<x, y>> of the grid

Position == [printer: PrinterIds, cell: Cells]
Floor == [name: FloorNames, level: Levels, printers: SUBSET Position]

NewFloor(name, level, places) == [name |-> name, level |-> level, printers |-> places]

\* The row or document of a new floor.
AddFloor(s, f, floor) == [s EXCEPT !.floors = Put(@, f, floor)]

LevelTaken(s, level) == \E f \in DOMAIN s.floors : s.floors[f].level = level

(***************************************************************************)
(* The floor store.                                                        *)
(***************************************************************************)
StoreFloor(s, f, floor) == [s EXCEPT !.store = Put(@, f, floor)]

DropFloor(s, f) == [s EXCEPT !.store = Restrict(@, DOMAIN @ \ {f})]

\* loadStore with floors in the database: it adds and replaces, and removes none.
StoreFloors(s, floors) ==
  [s EXCEPT !.store = Overlaid(floors, @)]

\* A new process reads the floors into an empty store.
ReloadStore(s) == StoreFloors([s EXCEPT !.store = <<>>], s.floors)

(***************************************************************************)
(* SQLite. floorPositionService.create is refused by the foreign key when  *)
(* the printer does not exist; nothing rolls back what came before.        *)
(***************************************************************************)
OrmDeleteFloor(s, f) == [s EXCEPT !.floors = Restrict(@, DOMAIN @ \ {f})]

\* floorPositionService.findPrinterPosition: on any floor.
PlacesOf(s, p) ==
  {at \in (DOMAIN s.floors) \X Position :
     at[2] \in s.floors[at[1]].printers /\ at[2].printer = p}

\* floorPositionService.delete of a set of positions.
TakeOff(s, places) ==
  [s EXCEPT !.floors = [f \in DOMAIN s.floors |->
     [s.floors[f] EXCEPT !.printers = {pos \in @ : <<f, pos>> \notin places}]]]

\* A mutant: the printer's position on another floor is not cleaned up.
PlaceHere(s, f, p, cell) ==
  LET freed == TakeOff(s, {<<f, pos>> : pos \in {q \in s.floors[f].printers :
                                           q.cell = cell \/ q.printer = p}})
  IN  IF p \in DOMAIN s.printers
      THEN [freed EXCEPT !.floors[f].printers = @ \cup {[printer |-> p, cell |-> cell]}]
      ELSE freed

\* A mutant: the cell is freed by its column.
PlaceInColumn(s, f, p, cell) ==
  LET occupants == {<<f, pos>> : pos \in {q \in s.floors[f].printers : q.cell[1] = cell[1]}}
      freed     == TakeOff(s, PlacesOf(s, p) \cup occupants)
  IN  IF p \in DOMAIN s.printers
      THEN [freed EXCEPT !.floors[f].printers = @ \cup {[printer |-> p, cell |-> cell]}]
      ELSE freed

\* addOrUpdatePrinter without its shortcut, which compares the type of the id
\* too: so with the id of a route, which is a string.
PlacePrinter(s, f, p, cell) ==
  LET occupants == {<<f, pos>> : pos \in {q \in s.floors[f].printers : q.cell = cell}}
      freed     == TakeOff(s, PlacesOf(s, p) \cup occupants)
  IN  IF p \in DOMAIN s.printers
      THEN [freed EXCEPT !.floors[f].printers = @ \cup {[printer |-> p, cell |-> cell]}]
      ELSE freed

\* The shortcut compares position.x with x and, again position.x, with y.
InDesiredState(s, f, p, cell) ==
  \E pos \in s.floors[f].printers :
     pos.printer = p /\ pos.cell[1] = cell[1] /\ pos.cell[1] = cell[2]

\* With the id of the entity, a number, as create and update pass it.
OrmAddOrUpdatePrinter(s, f, p, cell) ==
  IF InDesiredState(s, f, p, cell) THEN s ELSE PlacePrinter(s, f, p, cell)

PlaceAll(s, f, places) ==
  LET place(pos, t) == OrmAddOrUpdatePrinter(t, f, pos.printer, pos.cell)
  IN  FoldSet(place, s, places)

\* create inserts the floor and puts the printers of the body on it one by one.
OrmCreateFloor(s, f, name, level, places) ==
  PlaceAll(AddFloor(s, f, NewFloor(name, level, {})), f, places)

\* A mutant: the printers that stay are taken off.
OrmUpdateReversed(s, f, wanted) ==
  LET unwanted == {pos \in s.floors[f].printers :
                     \E w \in wanted : w.printer = pos.printer}
  IN  TakeOff(PlaceAll(s, f, wanted), {<<f, pos>> : pos \in unwanted})

\* update puts every wanted place (the floor's own, when only its name or
\* level changes), takes the others off and writes name and level last.
OrmUpdatePlaces(s, f, wanted) ==
  LET unwanted == {pos \in s.floors[f].printers :
                     \A w \in wanted : w.printer # pos.printer}
  IN  TakeOff(PlaceAll(s, f, wanted), {<<f, pos>> : pos \in unwanted})

LevelRefused(s, f, level) ==
  \E g \in (DOMAIN s.floors) \ {f} : s.floors[g].level = level

\* The unique index refuses the level when the places have been written.
OrmUpdateFloor(s, f, name, level, wanted) ==
  LET t == OrmUpdatePlaces(s, f, wanted)
  IN  IF LevelRefused(s, f, level) THEN t
      ELSE [t EXCEPT !.floors[f].name = name, !.floors[f].level = level]

OrmUpdateLevel(s, f, level) ==
  OrmUpdateFloor(s, f, s.floors[f].name, level, s.floors[f].printers)

OrmUpdateName(s, f, name) ==
  OrmUpdateFloor(s, f, name, s.floors[f].level, s.floors[f].printers)

OrmRemovePrinter(s, f, p) ==
  TakeOff(s, {<<f, pos>> : pos \in {q \in s.floors[f].printers : q.printer = p}})

OrmDeletePrinterFromAnyFloor(s, p) == TakeOff(s, PlacesOf(s, p))

(***************************************************************************)
(* MongoDB: the changes to a document, and the commands.                   *)
(***************************************************************************)
\* addOrUpdatePrinter frees the place, then replaces the first entry of the
\* printer or appends one; other floors keep theirs. The arrays it may make: a
\* set of places does not say which entry is the first.
Placed(places, p, cell) ==
  LET kept == {pos \in places : pos.cell # cell}
      own  == {pos \in kept : pos.printer = p}
      new  == [printer |-> p, cell |-> cell]
  IN  IF own = {} THEN {kept \cup {new}}
      ELSE {(kept \ {old}) \cup {new} : old \in own}

\* The array only grows by a push.
OnlyPushes(places, p, cell) ==
  \A pos \in places : pos.cell # cell /\ pos.printer # p

\* removePrinter splices out the first entry of the printer, if it has one.
Removed(places, p) == {places \ {old} : old \in {pos \in places : pos.printer = p}}

FindFloor(s, f) == IF f \in DOMAIN s.floors THEN s.floors[f] ELSE None

PullPrinter(s, p) ==
  [s EXCEPT !.floors = [f \in DOMAIN s.floors |->
     [s.floors[f] EXCEPT !.printers = {pos \in @ : pos.printer # p}]]]

\* The printers of the body are stored unseen, those that do not exist too.
InsertFloor(s, f, name, level, places) ==
  IF LevelTaken(s, level) THEN s ELSE AddFloor(s, f, NewFloor(name, level, places))

DeleteFloor(s, f) == OrmDeleteFloor(s, f)

\* A document saved with the level or name changed: the array is not sent.
SaveFloor(s, f, doc) ==
  [s EXCEPT !.floors[f].name = doc.name, !.floors[f].level = doc.level]

\* A document saved with its array of printers changed.
SavePlaces(s, f, places) == [s EXCEPT !.floors[f].printers = places]
=============================================================================
