-------------------------------- MODULE Farm --------------------------------
(***************************************************************************)
(* Printers and floors behind the HTTP requests of printer.controller.ts,  *)
(* floor.controller.ts and deleteAllPrinters of server-private.controller. *)
(* With SQLite a request is one step. With MongoDB every command is sent,  *)
(* executed by the database and answered, and other requests run between:  *)
(* a request is a record with the command it awaits.                       *)
(***************************************************************************)
EXTENDS Yaml

CONSTANTS Clients,  \* what may run: [db: "sqlite" or "mongo", ops: the requests sent,
             \*  names, conns, layouts: what they fill in]
          Slots,    \* requests in flight at one time, a bound
          Files,    \* the YAML files that clients import
          Pending   \* no answer yet

\* What the databases hand out: a bound, and order where rows are compared.
ASSUME IdsOfRows ==
  /\ IsFiniteSet(PrinterIds) /\ IsFiniteSet(FloorIds) /\ IsFiniteSet(GroupIds)
  /\ GroupIds \subseteq Nat /\ FloorIds # {}

\* The printers of a new floor: none twice, and none on the cell of another.
IsLayout(places) ==
  /\ places \subseteq Position
  /\ \A a, b \in places : a.printer = b.printer \/ a.cell = b.cell => a = b

\* What clients send, and what the server names the floor it makes itself.
ASSUME WhatClientsSend ==
  /\ IsFiniteSet(Cells) /\ FloorNames # {} /\ {0, 1} \subseteq Levels
  /\ \A client \in Clients :
       /\ client.db \in {"sqlite", "mongo"}
       /\ client.names \subseteq FloorNames /\ client.conns \subseteq Conns
       /\ \A places \in client.layouts : IsLayout(places)
  /\ \A file \in Files : IsFile(file)

\* null and the missing answer are no values.
ASSUME NoValues ==
  /\ None \notin PrinterIds \cup FloorIds \cup GroupIds \cup Printer \cup Floor \cup {"saved"}
  /\ Pending \notin PrinterIds \cup Printer \cup Floor \cup {None, "saved", "deleted", "pulled"}
  /\ \A ids \in SUBSET FloorIds : Pending \notin [ids -> Floor]

VARIABLES
  mode,    \* isTypeormMode, and the requests that clients send
  farm,    \* [printers, floors, groups, order]: the database; [cache, store]: this process
  req,     \* MongoDB: the requests in flight
  disturbed, \* since the last boot requests overlapped, or an import or the
             \* creation of a floor threw halfway
  placed   \* SQLite: the floor and the places the last step answered, or None

vars == <<mode, farm, req, disturbed, placed>>

\* stale: the version (__v) of the floor it read has been incremented since.
Idle == [op |-> "idle", ps |-> {}, f |-> None, arg |-> None,
         cmd |-> None, ans |-> None, stale |-> FALSE]

DefaultLevel == IF mode.db = "sqlite" THEN 0 ELSE 1

AllIdle == \A c \in Slots : req[c] = Idle

\* An id the database may hand out: nothing left mentions it.
FreshPrinter(p) ==
  /\ p \notin DOMAIN farm.printers \cup DOMAIN farm.cache
  /\ \A f \in DOMAIN farm.floors : \A pos \in farm.floors[f].printers : pos.printer # p
  /\ \A f \in DOMAIN farm.store : \A pos \in farm.store[f].printers : pos.printer # p
  /\ \A c \in Slots : p \notin req[c].ps

FreshFloor(f) ==
  /\ f \notin DOMAIN farm.floors \cup DOMAIN farm.store
  /\ \A c \in Slots : req[c].f # f

DefaultName == CHOOSE name \in FloorNames : TRUE

EmptyFarm(order) ==
  [printers |-> <<>>, cache |-> <<>>, floors |-> <<>>, store |-> <<>>, groups |-> <<>>,
   order |-> order]

\* The order of the rows of the two tables, for clients who import files.
RowOrders ==
  IF "import" \notin mode.ops THEN {<<>>}
  ELSE {Overlaid(printers, floors) :
          printers \in Bijection(PrinterIds, 1..Cardinality(PrinterIds)),
          floors \in Bijection(FloorIds, 1..Cardinality(FloorIds))}

\* A new process: loadPrinterSockets fills the cache, loadStore the floor store.
Booted(s) == ReloadStore(LoadCache(s))

Init ==
  /\ mode \in Clients
  /\ \E f \in FloorIds, order \in RowOrders :
       farm = Booted(InsertFloor(EmptyFarm(order), f, DefaultName, DefaultLevel, {}))
  /\ req = [c \in Slots |-> Idle]
  /\ disturbed = FALSE
  /\ placed = None

(***************************************************************************)
(* SQLite: one action per handler.                                         *)
(***************************************************************************)
Answer(op, s) ==
  /\ mode.db = "sqlite" /\ op \in mode.ops
  /\ farm' = s
  /\ placed' = None
  /\ UNCHANGED <<mode, req, disturbed>>

SqlCreate == \E p \in PrinterIds, conn \in mode.conns :
  FreshPrinter(p) /\ Answer("create", OrmCreate(farm, p, conn))

SqlCreateBatch == \E ps \in SUBSET PrinterIds, conn \in mode.conns :
  /\ ps # {} /\ \A p \in ps : FreshPrinter(p)
  /\ Answer("create", OrmBatchImport(farm, [p \in ps |-> NewPrinter(conn)]))

SqlUpdate == \E p \in InScope(farm), body \in UpdateBodies(mode.conns) :
  Answer("update", OrmUpdate(farm, p, body))

SqlUpdateEnabled == \E p \in InScope(farm), enabled \in BOOLEAN :
  Answer("patch", OrmUpdateEnabled(farm, p, enabled))

SqlBatchToggle == \E ps \in SUBSET PrinterIds, enabled \in BOOLEAN :
  Toggled(farm, ps, enabled) # {} /\ Answer("batch", OrmBatchToggle(farm, ps, enabled))

SqlUpdateDisabledReason == \E p \in InScope(farm), reason \in Reasons \cup {None} :
  Answer("patch", OrmUpdateDisabledReason(farm, p, reason))

SqlUpdateConnection == \E p \in InScope(farm), conn \in mode.conns :
  Answer("patch", OrmUpdateConnectionSettings(farm, p, conn))

SqlUpdateRate == \E p \in InScope(farm) : Answer("patch", OrmUpdateRate(farm, p))

\* createDefaultFloor, when loadStore finds no floor.
SqlDefaultFloor(s) ==
  LET f == CHOOSE g \in UnusedFloors(s) : TRUE
      t == OrmCreateFloor(s, f, DefaultName, DefaultLevel, {})
  IN  StoreFloor(t, f, t.floors[f])

SqlLoadStore(s) ==
  IF s.floors = <<>> THEN SqlDefaultFloor(s) ELSE StoreFloors(s, s.floors)

RemovePrinterFromAnyFloor(s, p) == SqlLoadStore(OrmDeletePrinterFromAnyFloor(s, p))

SqlDelete == \E p \in InScope(farm) :
  Answer("delete", RemovePrinterFromAnyFloor(OrmDelete(farm, p), p))

\* repository.delete refuses an empty list of ids.
SqlDeleteAll ==
  DOMAIN farm.cache # {} /\ Answer("deleteAll", OrmDeleteMany(farm, DOMAIN farm.cache))

\* The floor and places of a request, in the store when the service answers.
Place(s, f, places) ==
  /\ farm' = StoreFloor(s, f, s.floors[f])
  /\ placed' = [f |-> f, places |-> places]
  /\ UNCHANGED <<mode, req, disturbed>>

SqlCreateFloor ==
  \E f \in FloorIds, name \in mode.names, level \in Levels, places \in mode.layouts :
    /\ mode.db = "sqlite" /\ "createFloor" \in mode.ops
    /\ FreshFloor(f) /\ ~LevelTaken(farm, level)
    /\ \A pos \in places : pos.printer \in DOMAIN farm.printers
    /\ Place(OrmCreateFloor(farm, f, name, level, places), f, places)

\* A printer does not exist: create throws when it comes to it, the floor and the
\* printers before it in the array stay, and the store is not told.
SqlCreateFloorFails ==
  \E f \in FloorIds, name \in mode.names, level \in Levels, places \in mode.layouts :
    LET known == {pos \in places : pos.printer \in DOMAIN farm.printers}
    IN  /\ mode.db = "sqlite" /\ "createFloor" \in mode.ops
        /\ FreshFloor(f) /\ ~LevelTaken(farm, level)
        /\ known # places
        /\ \E before \in SUBSET known :
             farm' = OrmCreateFloor(farm, f, name, level, before)
        /\ disturbed' = TRUE
        /\ placed' = None
        /\ UNCHANGED <<mode, req>>

SqlDeleteFloor == \E f \in DOMAIN farm.floors :
  Answer("deleteFloor", DropFloor(OrmDeleteFloor(farm, f), f))

\* When the level is taken the service throws, and the store is not told.
SqlUpdateLevel == \E f \in DOMAIN farm.floors, level \in Levels :
  LET s == OrmUpdateLevel(farm, f, level)
  IN  Answer("updateFloor",
        IF LevelRefused(farm, f, level) THEN s ELSE StoreFloor(s, f, s.floors[f]))

SqlUpdateName == \E f \in DOMAIN farm.floors, name \in mode.names :
  LET s == OrmUpdateName(farm, f, name)
  IN  Answer("updateFloor", StoreFloor(s, f, s.floors[f]))

SqlAddPrinter == \E f \in DOMAIN farm.floors, p \in DOMAIN farm.printers, cell \in Cells :
  /\ mode.db = "sqlite" /\ "place" \in mode.ops
  /\ Place(PlacePrinter(farm, f, p, cell), f, {[printer |-> p, cell |-> cell]})

\* The body may name a printer that was deleted: the cell is free by then.
SqlAddPrinterFails ==
  \E f \in DOMAIN farm.floors, p \in PrinterIds \ DOMAIN farm.printers, cell \in Cells :
    Answer("place", PlacePrinter(farm, f, p, cell))

SqlRemovePrinter == \E f \in DOMAIN farm.floors :
  \E pos \in farm.floors[f].printers :
    LET s == OrmRemovePrinter(farm, f, pos.printer)
    IN  Answer("remove", StoreFloor(s, f, s.floors[f]))

\* listCache of an empty store.
SqlListFloors == farm.store = <<>> /\ Answer("list", SqlLoadStore(farm))

\* getFloor of a floor that the store does not have.
SqlGetFloor == \E f \in DOMAIN farm.floors \ DOMAIN farm.store :
  Answer("list", StoreFloor(farm, f, farm.floors[f]))

SqlGroups ==
  \/ \E g \in UnusedGroups(farm), name \in GroupNames :
       Answer("group", CreateGroup(farm, g, name))
  \/ \E g \in DOMAIN farm.groups :
       \/ \E name \in GroupNames : Answer("group", UpdateGroupName(farm, g, name))
       \/ Answer("group", DeleteGroup(farm, g))
       \/ \E p \in PrinterIds : Answer("group", AddPrinterToGroup(farm, g, p))
       \/ \E p \in PrinterIds : Answer("group", RemovePrinterFromGroup(farm, g, p))

\* An import that throws leaves what it did until then.
SqlImport == \E file \in Files :
  /\ mode.db = "sqlite" /\ "import" \in mode.ops
  /\ Importable(farm, file)
  /\ LET r == Import(farm, file)
     IN  /\ farm' = r.s
         /\ disturbed' = (disturbed \/ ~r.ok)
  /\ placed' = None
  /\ UNCHANGED <<mode, req>>

SqlNext ==
  \/ SqlCreate \/ SqlCreateBatch \/ SqlUpdate \/ SqlUpdateEnabled \/ SqlBatchToggle
  \/ SqlUpdateDisabledReason \/ SqlUpdateConnection \/ SqlUpdateRate
  \/ SqlDelete \/ SqlDeleteAll
  \/ SqlCreateFloor \/ SqlCreateFloorFails \/ SqlDeleteFloor \/ SqlUpdateLevel \/ SqlUpdateName
  \/ SqlAddPrinter \/ SqlAddPrinterFails \/ SqlRemovePrinter \/ SqlListFloors \/ SqlGetFloor
  \/ SqlGroups \/ SqlImport

(***************************************************************************)
(* MongoDB: requests arrive, ...                                           *)
(***************************************************************************)
\* The documents that a request reads or writes, the caches aside.
Documents(op, ps, f) ==
  CASE op = "create"                 -> {}
    [] op \in {"update", "patch", "deleteAll"} -> ps
    [] op = "delete"                 -> ps \cup FloorIds
    [] op = "list"                   -> FloorIds
    [] OTHER                         -> {f}

\* Two bounds: only requests for the same documents overlap, the others do not
\* see each other, and once two have, no other arrives before a restart.
Admitted(op, ps, f) ==
  /\ ~disturbed
  /\ \A d \in Slots : req[d] # Idle =>
       Documents(op, ps, f) \cap Documents(req[d].op, req[d].ps, req[d].f) # {}

Sent(op, ps, f, arg, cmd) ==
  [op |-> op, ps |-> ps, f |-> f, arg |-> arg, cmd |-> cmd, ans |-> Pending, stale |-> FALSE]

Start(c, op, ps, f, arg, cmd) ==
  /\ mode.db = "mongo"
  /\ req[c] = Idle /\ op \in mode.ops /\ Admitted(op, ps, f)
  /\ req' = [req EXCEPT ![c] = Sent(op, ps, f, arg, cmd)]
  /\ disturbed' = (disturbed \/ ~AllIdle)
  /\ UNCHANGED <<mode, farm, placed>>

\* POST /printer and POST /printer/batch: the printers are inserted one by one.
StartCreate(c) == \E ps \in SUBSET PrinterIds, conn \in mode.conns :
  /\ ps # {} /\ \A p \in ps : FreshPrinter(p)
  /\ Start(c, "create", ps, None, [conn |-> conn, todo |-> ps], "insertPrinter")

StartUpdate(c) == \E p \in InScope(farm), body \in UpdateBodies(mode.conns) :
  Start(c, "update", {p}, None, [body |-> body, read |-> None, doc |-> None], "findPrinter")

PatchUpdates == {EnabledUpdate(e) : e \in BOOLEAN}
           \cup {DisabledReasonUpdate(r) : r \in Reasons \cup {None}}
           \cup {ConnectionUpdate(conn) : conn \in mode.conns} \cup {RateUpdate}

StartPatch(c) == \E p \in InScope(farm), update \in PatchUpdates :
  Start(c, "patch", {p}, None, [update |-> update], "findPrinter")

\* The batch chooses its printers when it arrives and awaits their updates together:
\* each of them has a slot.
StartBatch == \E ps \in SUBSET PrinterIds, enabled \in BOOLEAN :
  LET toggled == Toggled(farm, ps, enabled)
      update(p) == Sent("patch", {p}, None, [update |-> EnabledUpdate(enabled)], "findPrinter")
  IN  /\ mode.db = "mongo" /\ "batch" \in mode.ops
      /\ toggled # {} /\ \A p \in toggled : Admitted("patch", {p}, None)
      /\ \E slot \in Injection(toggled, {c \in Slots : req[c] = Idle}) :
           req' = [c \in Slots |-> IF c \in Range(slot)
                     THEN update(CHOOSE p \in toggled : slot[p] = c) ELSE req[c]]
      /\ disturbed' = (disturbed \/ ~AllIdle)
      /\ UNCHANGED <<mode, farm, placed>>

StartDelete(c) == \E p \in InScope(farm) :
  Start(c, "delete", {p}, None, None, "deletePrinters")

StartDeleteAll(c) == Start(c, "deleteAll", DOMAIN farm.cache, None, None, "deletePrinters")

StartCreateFloor(c) ==
  \E f \in FloorIds, name \in mode.names, level \in Levels, places \in mode.layouts :
    /\ FreshFloor(f)
    /\ Start(c, "createFloor", {}, f, NewFloor(name, level, places), "insertFloor")

StartDeleteFloor(c) == \E f \in DOMAIN farm.store :
  Start(c, "deleteFloor", {}, f, None, "findFloor")

\* updateName and updateFloorNumber.
StartUpdateFloor(c) ==
  \E f \in DOMAIN farm.store :
    \E update \in [name: mode.names] \cup [level: Levels] :
      Start(c, "updateFloor", {}, f, [update |-> update, doc |-> None], "findFloor")

StartPlace(c) == \E f \in DOMAIN farm.store, p \in PrinterIds, cell \in Cells :
  Start(c, "place", {p}, f, [cell |-> cell, read |-> None, doc |-> None], "findFloor")

StartRemove(c) == \E f \in DOMAIN farm.store, p \in PrinterIds :
  Start(c, "remove", {p}, f, [cell |-> None, read |-> None, doc |-> None], "findFloor")

StartListFloors(c) == farm.store = <<>> /\ Start(c, "list", {}, None, None, "listFloors")

(***************************************************************************)
(* ... the database executes their commands one at a time, ...             *)
(***************************************************************************)
Serve(c, cmd, s, ans) ==
  /\ req[c].cmd = cmd
  /\ req[c].ans = Pending
  /\ farm' = s
  /\ req' = [req EXCEPT ![c].ans = ans]
  /\ UNCHANGED <<mode, disturbed, placed>>

The(ps) == CHOOSE p \in ps : TRUE

ServeInsertPrinter(c) ==
  \E p \in req[c].ps :
    /\ req[c].cmd = "insertPrinter" /\ p \in req[c].arg.todo
    /\ Serve(c, "insertPrinter", OrmInsert(farm, p, req[c].arg.conn), p)

ServeFindPrinter(c) ==
  Serve(c, "findPrinter", farm, FindPrinter(farm, The(req[c].ps)))

ServeSavePrinter(c) ==
  /\ req[c].cmd = "savePrinter"
  /\ LET p == The(req[c].ps)
     IN  Serve(c, "savePrinter", SavePrinter(farm, p, req[c].arg.doc, req[c].arg.read),
               IF p \in DOMAIN farm.printers THEN "saved" ELSE None)

ServePatchPrinter(c) ==
  /\ req[c].cmd = "patchPrinter"
  /\ LET p == The(req[c].ps)
         s == FindByIdAndUpdate(farm, p, req[c].arg.update)
     IN  Serve(c, "patchPrinter", s, FindPrinter(s, p))

ServeDeletePrinters(c) ==
  Serve(c, "deletePrinters", RemovePrinters(farm, req[c].ps), "deleted")

ServePull(c) == Serve(c, "pull", PullPrinter(farm, The(req[c].ps)), "pulled")

ServeFindFloor(c) == Serve(c, "findFloor", farm, FindFloor(farm, req[c].f))

ServeListFloors(c) == Serve(c, "listFloors", farm, farm.floors)

ServeInsertFloor(c) ==
  /\ req[c].cmd = "insertFloor"
  /\ LET floor == req[c].arg
     IN  Serve(c, "insertFloor",
               InsertFloor(farm, req[c].f, floor.name, floor.level, floor.printers),
               IF LevelTaken(farm, floor.level) THEN None ELSE floor)

ServeDeleteFloor(c) == Serve(c, "deleteFloor", DeleteFloor(farm, req[c].f), "deleted")

\* A level is unique: the index refuses a second floor with it.
ServeSaveFloor(c) ==
  /\ req[c].cmd = "saveFloor"
  /\ LET f   == req[c].f
         doc == req[c].arg.doc
         refused == \/ f \notin DOMAIN farm.floors
                    \/ LevelRefused(farm, f, doc.level)
     IN  Serve(c, "saveFloor", IF refused THEN farm ELSE SaveFloor(farm, f, doc),
               IF refused THEN None ELSE "saved")

\* A mutant: the array is sent without a condition.
ServeSaveArray(c) ==
  /\ req[c].cmd = "savePlaces"
  /\ LET exists == req[c].f \in DOMAIN farm.floors
     IN  Serve(c, "savePlaces",
           IF exists THEN SavePlaces(farm, req[c].f, req[c].arg.doc.printers) ELSE farm,
           IF exists THEN "saved" ELSE None)

\* mongoose sends an array with a condition on __v and increments it. A push may
\* be sent without the condition: it is then added to what the array is now.
ServeSavePlaces(c) ==
  /\ req[c].cmd = "savePlaces" /\ req[c].ans = Pending
  /\ LET f      == req[c].f
         r      == req[c].arg
         exists == f \in DOMAIN farm.floors
         save(places) ==
           /\ farm' = SavePlaces(farm, f, places)
           /\ req' = [d \in Slots |->
                IF d = c THEN [req[d] EXCEPT !.ans = "saved"]
                ELSE IF req[d].f = f /\ (req[d].cmd = "findFloor" => req[d].ans # Pending)
                THEN [req[d] EXCEPT !.stale = TRUE]
                ELSE req[d]]
           /\ UNCHANGED <<mode, disturbed, placed>>
     IN  \/ exists /\ ~req[c].stale /\ save(r.doc.printers)
         \/ (~exists \/ req[c].stale) /\ Serve(c, "savePlaces", farm, None)
         \/ /\ exists /\ req[c].stale /\ r.cell # None
            /\ OnlyPushes(r.read.printers, The(req[c].ps), r.cell)
            /\ save(farm.floors[f].printers \cup (r.doc.printers \ r.read.printers))

(***************************************************************************)
(* ... and the answers come back in any order.                             *)
(***************************************************************************)
Await(c, s, cmd, arg) ==
  /\ farm' = s
  /\ req' = [req EXCEPT ![c].cmd = cmd, ![c].arg = arg, ![c].ans = Pending]
  /\ UNCHANGED <<mode, disturbed, placed>>

Finish(c, s) ==
  /\ farm' = s
  /\ req' = [req EXCEPT ![c] = Idle]
  /\ UNCHANGED <<mode, disturbed, placed>>

Answered(c, op, cmd) == req[c].op = op /\ req[c].cmd = cmd /\ req[c].ans # Pending

ResumeCreate(c) ==
  /\ Answered(c, "create", "insertPrinter")
  /\ LET left == req[c].arg.todo \ {req[c].ans}
     IN  IF left # {}
         THEN Await(c, farm, "insertPrinter", [req[c].arg EXCEPT !.todo = left])
         ELSE Finish(c, HandleBatchPrinterCreated(farm,
                [p \in req[c].ps |-> NewPrinter(req[c].arg.conn)]))

ResumeUpdate(c) ==
  \/ /\ Answered(c, "update", "findPrinter")
     /\ IF req[c].ans = None THEN Finish(c, farm)
        ELSE Await(c, farm, "savePrinter",
               [req[c].arg EXCEPT !.read = req[c].ans,
                                  !.doc = Assign(req[c].arg.body, req[c].ans)])
  \/ /\ Answered(c, "update", "savePrinter")
     /\ Finish(c, IF req[c].ans = None THEN farm
                  ELSE HandlePrinterCreatedOrUpdated(farm, The(req[c].ps), req[c].arg.doc))

ResumePatch(c) ==
  \/ /\ Answered(c, "patch", "findPrinter")
     /\ IF req[c].ans = None THEN Finish(c, farm)
        ELSE Await(c, farm, "patchPrinter", req[c].arg)
  \/ /\ Answered(c, "patch", "patchPrinter")
     /\ Finish(c, HandlePrinterCreatedOrUpdated(farm, The(req[c].ps), req[c].ans))

\* The controller takes the printer off the floors after the service deleted it
\* and told the caches.
ResumeDelete(c) ==
  \/ /\ Answered(c, "delete", "deletePrinters")
     /\ Await(c, HandlePrintersDeleted(farm, req[c].ps), "pull", None)
  \/ Answered(c, "delete", "pull") /\ Await(c, farm, "listFloors", None)

ResumeDeleteAll(c) ==
  /\ Answered(c, "deleteAll", "deletePrinters")
  /\ Finish(c, HandlePrintersDeleted(farm, req[c].ps))

\* loadStore after list: a default floor is created when there is none.
ResumeLoadStore(c) ==
  /\ \E op \in {"delete", "list"} : Answered(c, op, "listFloors")
  /\ IF req[c].ans # <<>> THEN Finish(c, StoreFloors(farm, req[c].ans))
     ELSE \E f \in FloorIds :
            /\ FreshFloor(f)
            /\ farm' = farm
            /\ req' = [req EXCEPT ![c].cmd = "insertFloor", ![c].f = f,
                 ![c].arg = NewFloor(DefaultName, DefaultLevel, {}), ![c].ans = Pending]
            /\ UNCHANGED <<mode, disturbed, placed>>

\* floorStore.create, and the default floor of loadStore.
ResumeInsertFloor(c) ==
  /\ \E op \in {"createFloor", "delete", "list"} : Answered(c, op, "insertFloor")
  /\ Finish(c, IF req[c].ans = None THEN farm ELSE StoreFloor(farm, req[c].f, req[c].ans))

ResumeDeleteFloor(c) ==
  \/ /\ Answered(c, "deleteFloor", "findFloor")
     /\ IF req[c].ans = None THEN Finish(c, farm) ELSE Await(c, farm, "deleteFloor", None)
  \/ Answered(c, "deleteFloor", "deleteFloor") /\ Finish(c, DropFloor(farm, req[c].f))

ResumeUpdateFloor(c) ==
  \/ /\ Answered(c, "updateFloor", "findFloor")
     /\ IF req[c].ans = None THEN Finish(c, farm)
        ELSE Await(c, farm, "saveFloor",
               [req[c].arg EXCEPT !.doc = Assign(req[c].arg.update, req[c].ans)])
  \/ /\ Answered(c, "updateFloor", "saveFloor")
     /\ Finish(c, IF req[c].ans = None THEN farm ELSE StoreFloor(farm, req[c].f, req[c].arg.doc))

\* addOrUpdatePrinter and removePrinter look the printer up in the cache when
\* the floor has been read.
ResumePlace(c) ==
  /\ Answered(c, "place", "findFloor")
  /\ LET p == The(req[c].ps)
     IN  IF req[c].ans = None \/ p \notin DOMAIN farm.cache THEN Finish(c, farm)
         ELSE \E places \in Placed(req[c].ans.printers, p, req[c].arg.cell) :
                Await(c, farm, "savePlaces", [req[c].arg EXCEPT !.read = req[c].ans,
                  !.doc = [req[c].ans EXCEPT !.printers = places]])

ResumeRemove(c) ==
  /\ Answered(c, "remove", "findFloor")
  /\ LET p   == The(req[c].ps)
         doc == req[c].ans
     IN  IF doc = None \/ p \notin DOMAIN farm.cache THEN Finish(c, farm)
         ELSE IF Removed(doc.printers, p) = {} THEN Finish(c, StoreFloor(farm, req[c].f, doc))
         ELSE \E places \in Removed(doc.printers, p) :
                Await(c, farm, "savePlaces", [req[c].arg EXCEPT !.read = doc,
                  !.doc = [doc EXCEPT !.printers = places]])

ResumeSavePlaces(c) ==
  /\ \E op \in {"place", "remove"} : Answered(c, op, "savePlaces")
  /\ Finish(c, IF req[c].ans = None THEN farm
               ELSE StoreFloor(farm, req[c].f, req[c].arg.doc))

\* The process dies, whatever was in flight, and a new one boots.
Restart ==
  /\ farm' = Booted(farm)
  /\ req' = [c \in Slots |-> Idle]
  /\ disturbed' = FALSE
  /\ placed' = None
  /\ UNCHANGED mode

Arrive(c) ==
  \/ StartCreate(c) \/ StartUpdate(c) \/ StartPatch(c) \/ StartDelete(c) \/ StartDeleteAll(c)
  \/ StartCreateFloor(c) \/ StartDeleteFloor(c) \/ StartUpdateFloor(c)
  \/ StartPlace(c) \/ StartRemove(c) \/ StartListFloors(c)

Database(c) ==
  \/ ServeInsertPrinter(c) \/ ServeFindPrinter(c) \/ ServeSavePrinter(c)
  \/ ServePatchPrinter(c) \/ ServeDeletePrinters(c) \/ ServePull(c)
  \/ ServeFindFloor(c) \/ ServeListFloors(c) \/ ServeInsertFloor(c)
  \/ ServeDeleteFloor(c) \/ ServeSaveFloor(c) \/ ServeSavePlaces(c)

Resume(c) ==
  \/ ResumeCreate(c) \/ ResumeUpdate(c) \/ ResumePatch(c) \/ ResumeDelete(c)
  \/ ResumeDeleteAll(c) \/ ResumeLoadStore(c) \/ ResumeInsertFloor(c)
  \/ ResumeDeleteFloor(c) \/ ResumeUpdateFloor(c) \/ ResumePlace(c)
  \/ ResumeRemove(c) \/ ResumeSavePlaces(c)

MongoNext == StartBatch \/ \E c \in Slots : Arrive(c) \/ Database(c) \/ Resume(c)

Next == SqlNext \/ MongoNext \/ Restart

Spec == Init /\ [][Next]_vars

(***************************************************************************)
(* Properties.                                                             *)
(***************************************************************************)
\* Every variable has its type; requests are only checked for their commands.
TypeOK ==
  /\ mode \in Clients
  /\ DOMAIN farm.printers \subseteq PrinterIds /\ DOMAIN farm.cache \subseteq PrinterIds
  /\ \A p \in DOMAIN farm.printers : farm.printers[p] \in Printer
  /\ \A p \in DOMAIN farm.cache : farm.cache[p] \in Printer
  /\ DOMAIN farm.floors \subseteq FloorIds /\ DOMAIN farm.store \subseteq FloorIds
  /\ \A f \in DOMAIN farm.floors : farm.floors[f] \in Floor
  /\ \A f \in DOMAIN farm.store : farm.store[f] \in Floor
  /\ \A g \in DOMAIN farm.groups :
       farm.groups[g] \in Group /\ farm.groups[g].printers \subseteq DOMAIN farm.printers
  /\ \A c \in Slots : mode.db = "sqlite" => req[c] = Idle
  /\ disturbed \in BOOLEAN
  /\ placed = None \/ placed \in [f: FloorIds, places: SUBSET Position]

\* No request is in flight, and since the boot none overlapped another or threw
\* halfway.
Quiet == AllIdle /\ ~disturbed

\* While it is quiet, the cache holds the printers of the
\* database, with their connection settings and enabled flag. The disabled
\* reason agrees only with MongoDB: SQLite's service emits one it did not store.
CacheAgrees == Quiet =>
  /\ DOMAIN farm.cache = DOMAIN farm.printers
  /\ \A p \in DOMAIN farm.cache :
       /\ farm.cache[p].conn = farm.printers[p].conn
       /\ farm.cache[p].enabled = farm.printers[p].enabled
       /\ mode.db = "mongo" => farm.cache[p].reason = farm.printers[p].reason

\* While it is quiet, the floor store shows every floor, at its level, with every
\* printer that has a place on it: it is not when a floor was created with a printer
\* that does not exist, since that floor stays and is not stored. With SQLite it may show
\* more: the place a printer was moved from, or that of a printer deleted with
\* all others; with MongoDB it shows exactly the floors of the database.
StoreShowsPlaces == Quiet =>
  /\ DOMAIN farm.store = DOMAIN farm.floors
  /\ \A f \in DOMAIN farm.store :
       /\ farm.store[f].level = farm.floors[f].level /\ farm.store[f].name = farm.floors[f].name
       /\ farm.floors[f].printers \subseteq farm.store[f].printers
       /\ mode.db = "mongo" => farm.floors[f].printers = farm.store[f].printers

\* What the clients are shown of printers and places follows the database.
CachesAgree == CacheAgrees /\ StoreShowsPlaces

\* SQLite: after any sequence of requests a cell of a floor holds one printer
\* and a printer has one place on all floors together, so the service never
\* runs into the unique constraints of the positions.
OnePlace == mode.db = "sqlite" =>
  \A f, g \in DOMAIN farm.floors :
    \A a \in farm.floors[f].printers, b \in farm.floors[g].printers :
      /\ a.printer = b.printer => f = g /\ a = b
      /\ f = g /\ a.cell = b.cell => a = b

\* SQLite: when a placement or the creation of a floor was answered, every printer
\* of its body is on the cell it was asked for, in the database and in what the
\* floor store shows, wherever it was before and whoever had the cell.
AsAsked == placed # None =>
  /\ placed.places \subseteq farm.floors[placed.f].printers
  /\ farm.store[placed.f] = farm.floors[placed.f]

\* Who stays without a place: of the printers that leave floor f, the ones that
\* exist, whose cell nobody took and that have no other place.
LeftOut(f) ==
  {pos \in farm.floors[f].printers \ farm'.floors[f].printers :
     /\ pos.printer \in DOMAIN farm'.printers
     /\ \A q \in farm'.floors[f].printers : q.cell # pos.cell
     /\ \A g \in DOMAIN farm'.floors : \A q \in farm'.floors[g].printers : q.printer # pos.printer}

\* Imports aside, no step loses the place another request gave: a step leaves at most one
\* printer without a place, and then it gives none on that floor to a printer
\* that exists (a deleted one may come back to the array). With MongoDB
\* this is what the version of a floor's array protects when requests overlap.
NoLostPlace == []["import" \notin mode.ops => \A f \in DOMAIN farm.floors \cap DOMAIN farm'.floors :
  LeftOut(f) # {} =>
    /\ Cardinality(LeftOut(f)) = 1
    /\ \A pos \in farm'.floors[f].printers \ farm.floors[f].printers :
         pos.printer \notin DOMAIN farm'.printers]_vars

\* MongoDB: saving a printer that was read earlier changes no field that its
\* request did not set, whatever other requests stored since, and stores no
\* printer that was deleted since.
NoCollateral == [][\A c \in Slots :
  req[c].cmd = "savePrinter" /\ req[c].ans = Pending /\ req'[c].ans # Pending =>
    /\ DOMAIN farm'.printers = DOMAIN farm.printers
    /\ \A p \in DOMAIN farm.printers : \A x \in DOMAIN farm.printers[p] :
         farm'.printers[p][x] # farm.printers[p][x] =>
           p \in req[c].ps /\ x \in DOMAIN req[c].arg.body]_vars

\* What a reader of an export expects of an import: it changes the database
\* back, so with nothing changed in between it succeeds and changes nothing. The
\* strategies must tell the entries apart, and the floor store must show the
\* database: a printer moved to another floor is exported on both.
ReimportIdempotent ==
  "import" \in mode.ops /\ ~disturbed /\ farm.store = farm.floors =>
    \A printerBy \in {<<"name">>, <<"url", "name">>}, floorBy \in {"name", "floor"} :
      /\ \A p, q \in DOMAIN farm.printers : p # q =>
           /\ NameOf[farm.printers[p].conn] # NameOf[farm.printers[q].conn]
           /\ UrlOf[farm.printers[p].conn] # UrlOf[farm.printers[q].conn]
      /\ \A f, g \in DOMAIN farm.floors : f # g => farm.floors[f].name # farm.floors[g].name
      => LET r == Import(farm, Export(farm, TRUE, printerBy, floorBy))
         IN  /\ r.ok
             /\ r.s.printers = farm.printers /\ r.s.cache = farm.printers
             /\ r.s.floors = farm.floors /\ r.s.store = farm.floors
             /\ r.s.groups = farm.groups

\* After an import that succeeds a floor holds the printers of the file, on the
\* cells of the file, and no other.
ImportedAsWritten(file) ==
  LET r == Import(farm, file)
  IN  Importable(farm, file) /\ r.ok /\ file.grid =>
        \A i \in DOMAIN file.floors : r.s.floors[r.fmap[i]].printers = KnownPlaces(r, file, i)

\* An import gives each printer of the file the place the file has for it.
ImportPlaces == "import" \in mode.ops => \A file \in Files : ImportedAsWritten(file)
=============================================================================
