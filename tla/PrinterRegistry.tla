--------------------------- MODULE PrinterRegistry ---------------------------
(***************************************************************************)
(* The printers of the farm: the table or collection of the database and   *)
(* the printer cache that the events of the printer service keep up to     *)
(* date (services/orm/printer.service.ts, services/mongoose/printer.       *)
(* service.ts, state/printer.cache.ts).                                    *)
(*                                                                         *)
(* The operators work on a record s with the fields "printers" (the        *)
(* database) and "cache", both functions from the ids in use to printers,  *)
(* and the tables of Floors and PrinterGroups, and return the next one.    *)
(***************************************************************************)
EXTENDS Maps, Functions, FiniteSets, FiniteSetsExt

CONSTANTS PrinterIds,  \* ids the database may hand out
          Conns,       \* URL, API key, name and type: what PATCH /:id replaces
          Reasons,     \* texts for disabledReason
          None         \* null

Printer == [conn: Conns, enabled: BOOLEAN, reason: Reasons \cup {None}]

\* validateAndDefault: a printer is enabled unless the body says otherwise.
NewPrinter(conn) == [conn |-> conn, enabled |-> TRUE, reason |-> None]

\* Object.assign(old, new), or $set: the fields of new replace those of old.
Assign(new, old) == [x \in DOMAIN old |-> IF x \in DOMAIN new THEN new[x] ELSE old[x]]

(***************************************************************************)
(* The printer cache's event handlers. An event may carry null instead of  *)
(* a printer: mapping it throws in the listener, which nobody awaits.      *)
(***************************************************************************)
SetKeyValue(s, p, printer) == [s EXCEPT !.cache = Put(@, p, printer)]

SetKeyValuesBatch(s, made) == [s EXCEPT !.cache = Overlaid(made, @)]

DeleteKeysBatch(s, ps) == [s EXCEPT !.cache = Restrict(@, DOMAIN @ \ ps)]

HandlePrinterCreatedOrUpdated(s, p, printer) ==
  IF printer = None THEN s ELSE SetKeyValue(s, p, printer)

HandleBatchPrinterCreated(s, made) == SetKeyValuesBatch(s, made)

\* A mutant: the nested ids of delete are no keys of the cache.
HandleNestedIds(s, ps) == IF Cardinality(ps) = 1 THEN s ELSE DeleteKeysBatch(s, ps)

HandlePrintersDeleted(s, ps) == DeleteKeysBatch(s, ps)

\* loadCache at boot: the cache of a new process is empty.
LoadCache(s) == [s EXCEPT !.cache = s.printers]

\* The printers that requests under /printer/:id may name: validated by the cache.
InScope(s) == DOMAIN s.cache

(***************************************************************************)
(* The bodies of the requests, as the fields they set.                     *)
(***************************************************************************)
UpdateBodies(conns) == [conn: conns] \cup [conn: conns, enabled: BOOLEAN]

(***************************************************************************)
(* SQLite: a call runs from its first statement to its event without       *)
(* letting another request in.                                             *)
(***************************************************************************)
OrmInsert(s, p, conn) == [s EXCEPT !.printers = Put(@, p, NewPrinter(conn))]

OrmCreate(s, p, conn) ==
  HandlePrinterCreatedOrUpdated(OrmInsert(s, p, conn), p, NewPrinter(conn))

\* All are validated before the first is inserted; one event for all of them.
OrmBatchImport(s, made) == HandleBatchPrinterCreated([s EXCEPT !.printers = Overlaid(made, @)], made)

\* update writes five columns, disabledReason is not one of them, and emits
\* the entity the body was assigned to.
OrmUpdate(s, p, body) ==
  LET printer == Assign(body, s.printers[p])
      stored  == [printer EXCEPT !.reason = s.printers[p].reason]
  IN  HandlePrinterCreatedOrUpdated([s EXCEPT !.printers[p] = stored], p, printer)

OrmUpdateEnabled(s, p, enabled) == OrmUpdate(s, p, [enabled |-> enabled])

\* batchTogglePrintersEnabled goes by the cache, and leaves printers in maintenance alone.
Toggled(s, ps, enabled) ==
  {p \in ps \cap DOMAIN s.cache :
     s.cache[p].enabled # enabled /\ (enabled => s.cache[p].reason = None)}

OrmBatchToggle(s, ps, enabled) ==
  FoldSet(LAMBDA p, t : OrmUpdateEnabled(t, p, enabled), s, Toggled(s, ps, enabled))

OrmUpdateDisabledReason(s, p, reason) == OrmUpdate(s, p, [reason |-> reason])

OrmUpdateConnectionSettings(s, p, conn) == OrmUpdate(s, p, [conn |-> conn])

\* updateFeedRate and updateFlowRate: SQLite has no column for them, but the entity
\* is written and emitted.
OrmUpdateRate(s, p) == OrmUpdate(s, p, [x \in {} |-> None])

\* The positions and group links of a deleted printer go by ON DELETE CASCADE.
OrmDeleteRows(s, ps) ==
  [s EXCEPT !.printers = Restrict(@, DOMAIN @ \ ps),
            !.floors = [f \in DOMAIN s.floors |->
              [s.floors[f] EXCEPT !.printers = {pos \in @ : pos.printer \notin ps}]],
            !.groups = [g \in DOMAIN s.groups |-> [s.groups[g] EXCEPT !.printers = @ \ ps]]]

\* Each element of the event is an array with one id, which toString turns into
\* the key of the cache.
OrmDelete(s, p) == HandlePrintersDeleted(OrmDeleteRows(s, {p}), {p})

OrmDeleteMany(s, ps) == HandlePrintersDeleted(OrmDeleteRows(s, ps), ps)

(***************************************************************************)
(* MongoDB: what one command does in the database. The calls around them   *)
(* are the requests of Farm.                                               *)
(***************************************************************************)
FindPrinter(s, p) == IF p \in DOMAIN s.printers THEN s.printers[p] ELSE None

\* Document.save sends the fields that changed since the document was read,
\* and fails when the document is gone.
\* A mutant: save sends the whole document.
SaveWholePrinter(s, p, doc, read) ==
  IF p \notin DOMAIN s.printers THEN s ELSE [s EXCEPT !.printers[p] = doc]

SavePrinter(s, p, doc, read) ==
  IF p \notin DOMAIN s.printers THEN s
  ELSE [s EXCEPT !.printers[p] =
          [x \in DOMAIN @ |-> IF doc[x] # read[x] THEN doc[x] ELSE @[x]]]

FindByIdAndUpdate(s, p, update) ==
  IF p \notin DOMAIN s.printers THEN s
  ELSE [s EXCEPT !.printers[p] = Assign(update, @)]

RemovePrinters(s, ps) == [s EXCEPT !.printers = Restrict(@, DOMAIN @ \ ps)]

\* The updates of the five services that use findByIdAndUpdate.
EnabledUpdate(enabled) ==
  IF enabled THEN [enabled |-> TRUE, reason |-> None] ELSE [enabled |-> FALSE]

DisabledReasonUpdate(reason) == [reason |-> reason, enabled |-> reason = None]

ConnectionUpdate(conn) == [conn |-> conn]

\* updateFeedRate and updateFlowRate; the rates are not in the model.
RateUpdate == [x \in {} |-> None]
=============================================================================
