# TLA+ models of the FDM Monster server

FDM Monster manages a farm of 3D printers.  Its server (TypeScript on Node.js,
under `src/`) keeps a websocket to every OctoPrint or Moonraker printer, caches what
they report, pushes it to browsers, and stores printers, floors, users and settings
in SQLite (TypeORM) or MongoDB.  The modules here model its own logic; paths below
are relative to the server's `src/`.

The server is **one event loop**.  The code between two waits for the outside world
(an HTTP answer, a websocket event, a timer, MongoDB) is atomic; a chain of promises
that are already resolved runs to its end before the next event.
`EventEmitter2.emit` calls its listeners synchronously.  better-sqlite3 is synchronous
too, so an `await` of a repository in SQLite mode lets no other event in, while the
same `await` in MongoDB mode does.  An action of a model is one such stretch.  Hence
the two shapes that recur below: **with SQLite a request is one action; with MongoDB
it is a record in flight** that names the command it awaits, and other requests run
between its steps.

## Inventory

| Component (source) | State | Operations | Hard behaviour | Correct when |
|---|---|---|---|---|
| OctoPrint adapter (`services/octoprint/octoprint-websocket.adapter.ts`, `shared/websocket.adapter.ts`) | socket and API state, socket reference, credentials, session, reauth flag, refresh interval | register, set up session, open, close, reauth, websocket events | three requests in a row with the adapter closed, updated or purged in between; close events of sockets already replaced | one socket, to the registered URL, with a session of those credentials; silent once purged |
| Socket store and tasks (`state/printer-socket.store.ts`, `tasks/printer-websocket*.ts`) | adapter by printer id | printer events, refresh, two-loop reconnect every 2 s, restore every 15 s | overlap of runs, loops and requests | at most one set-up per adapter; whatever goes down is picked up again |
| Moonraker adapter (`services/moonraker/moonraker-websocket.adapter.ts`, `shared/websocket-rpc-extended.adapter.ts`) | as above, and the printer objects known | set-up by the task and by Klipper's events, subscription, 15 s refresh | set-ups overlap and answers come out of order; the restore task skips it | says it is live only when it is; shows whether Klipper runs |
| Task manager, boot (`services/core/task-manager.service.ts`, `tasks/boot.task.ts`) | options, job and timing per task | register, schedule, disable, run | boot that fails and is retried; jobs stopped or removed while running | the boot task retries until it succeeds, once; no task has two timers |
| Printer registry (`services/*/printer.service.ts`, `state/printer.cache.ts`, `controllers/printer.controller.ts`) with the key diff cache it inherits | rows, cached rows | create, update, patch, toggle one or many, delete, import | lost updates and reordered events in MongoDB mode | caches agree with the database when nothing is pending |
| Floors, groups (`services/*/floor.service.ts`, `printer-group.service.ts`, `state/floor.store.ts`) | positions, cached floors | place, move, remove, rename, load | multi-step writes without transaction; stale cached floors | a printer is in one place; no placement is lost |
| YAML (`services/core/yaml.service.ts`) | none | export, import of printers, floors, groups | the order of creations, updates and placements | a file places printers as written; an export imports to itself |
| Authentication (`services/authentication/*`, `services/*/refresh-token.service.ts`) | refresh tokens, blacklist | login, renew, logout, purge | read-compare-write over awaits; logout during a renewal | attempts are counted; a session that ended stays ended |
| Users, roles (`services/*/user.service.ts`, `role.service.ts`) | users, roles, cached roles | create, register, delete, verify, set root, synchronise | two requests checking "not the last one"; overlapping synchronisations | someone can always administrate; roles are known |
| Settings (`services/*/settings.service.ts`, `state/settings.store.ts`) | one document, its cached copy, the Sentry client | patch each group, migrate at each read | every request writes the whole document twice | a setting answered is kept |
| Printer files, thumbnails (`state/printer-files.store.ts`, `file.cache.ts`, `printer-thumbnail.cache.ts`, `tasks/printer-file-clean.task.ts`) | files and thumbnail per printer, files on disk | list, upload, delete, clear, clean up, extract | listings and clean-ups by lists that are no longer true; partial failure | the cache is what the printer has; recent files are spared |
| Upload tracker (`state/file-upload-tracker.cache.ts`) | uploads in progress, done, failed | start, progress, finish | failures that are never reported | what is shown as current is under way |
| Test socket (`state/test-printer-socket.store.ts`) | one shared field | test a printer | two tests at once | a test leaves nothing behind |
| Print completion (`tasks/print-completion.socketio.task.ts`, `services/*/print-completion.service.ts`) | context per printer, rows | start, progress, note, end, statistics | handlers of one print overlap over awaits; missed events | jobs are not mixed, notes stored, each job counted once |
| SQLite schema (`migrations/`, `entities/`, `services/typeorm/typeorm.service.ts`) | tables, rows, the list of executed migrations | migrate, revert, synchronise permissions and roles | interrupted and reverted migrations; deletes during tables copied without foreign keys | tables are as the entities declare; no row or right is lost |
| MongoDB migrations (`mongo-migrations/`) | collections, `_migrations` | migrate at boot, up and down by hand | commands that are not in a transaction; errors the boot drops | the models find what users saved |
| Client bundle (`services/core/client-bundle.service.ts`) | `package.json` and `dist` of the client | look, download, clear, extract | killed half way; a request beside the task | a new enough client is served |
| Batch calls (`services/core/batch-call.service.ts`) | none | toggle, connect, reprint | one printer after another, with awaits | as the single calls |
| Printer events cache (`state/printer-events.cache.ts`) | latest event per kind per printer | set event, delete | late events after deletion | no entry for a deleted printer |
| Socket.IO gateway, GitHub and HTTP clients, plugins, firmware, HTTP layer, cameras, custom G-code, consoles | none, or rows created and deleted singly | requests | I/O | see `PROJECT.json` |

How they interact: the printer registry emits `printerCreated`, `printerUpdated`,
`printersDeleted` and `batchPrinterCreated`; the printer cache, socket store, events
cache, files, thumbnails and floor code listen.  The task manager runs the reconnect,
restore, clean-up and client tasks; the first two call the socket store, whose
adapters call the HTTP clients and emit `octoprint.*` or `moonraker.*` events, which
the events cache stores and print completion listens to.  Users, sessions and
settings meet in the guards of the controllers.  The boot task migrates the database,
synchronises roles, loads every store and then registers the other tasks.

## What is modelled

| Composition | Built from | For TLC | Proofs |
|---|---|---|---|
| `PrinterSockets` | `OctoPrintAdapter`; implements `TaskRounds` | `MCPrinterSockets` | `PrinterSocketsProofs` |
| `Boot`, detailed by `ServerStart` | `TaskManager`, `MongoMigrations`, `RoleSync`, `DemoAccount`, `ClientBundle` | `MCServerStart` | `BootProofs` |
| `Farm` | `PrinterRegistry`, `Floors`, `PrinterGroups`, `Yaml`, `Maps` | `MCFarm` | `FarmProofs`, `FarmPlacesProofs` |
| `Accounts` | `Users`, `RefreshTokens`, `Settings`, `Maps` | `MCAccounts` | `AccountsProofs` |
| `MoonrakerSockets` | `MoonrakerAdapter` | `MCMoonrakerSockets` | `MoonrakerProofs` |
| `PrinterFiles` | `FileCache`, `Thumbnails` | `MCPrinterFiles` | `PrinterFilesProofs` |
| `Database` | `Sqlite`, `SqliteMigrations`, `Entities`, `RoleSync` | `MCDatabase` | |
| `PrintCompletions` | | `MCPrintCompletions` | `PrintCompletionsProofs` |

Most compositions have a constant set of *clients*: `Init` picks one, a record that
says which database is used, which requests and disturbances occur and with how many
ids.  One run then covers several narrow but deep instances; what a client may send
is its only effect, the actions are the same for all.

What is to be proved about avoids `:>` and `@@`, whose definitions in `TLC` choose
values that the provers cannot see through: `Maps` has the same two operations on
functions (`Put`, `Overlaid`), defined by their domains and values.

### OctoPrint sockets

**`OctoPrintAdapter`** holds the adapter as a record with the fields that decide
behaviour (timestamps, payloads, `opened` messages and the throttle message are left
out), an operator for each method's effect, and the client websocket of the `ws`
library, which is external.  Two facts of `ws` matter: `close()` on a connecting
socket reports an error and a close on the next tick, before any other event; on
an open one it starts a closing handshake, and **messages and the close event
still arrive later**, at the handlers of the adapter.

**`PrinterSockets`**: the store, the adapters, the pending
`setupSocketSession` promises (`sessions`), both tasks, the printer events and the
websocket events interleave.  The correspondence:

| Code | Model |
|---|---|
| `createOrUpdateSocket`, `deleteSocket`, `reconnectOctoPrint` | `PrinterCreated`, `PrinterUpdated`, `PrinterDisabled`, `PrintersDeleted`, `RefreshPrinterSocket` |
| first and second loop of `reconnectPrinterSockets`, `Promise.all` | `ReconnectTick`, `OpenPhase`, `Settle` |
| the awaits of `setupSocketSession`, `reauthSession` | `SessionLogin`, `SessionUser`, `SessionCurrent` (then `OpenSocket` or `SendAuth`), `SessionAuthSent` |
| restore task, its await of `getConnection` | `RestoreTick`, `RunRestore`, `RestoreResume` |
| 10 s interval of an adapter | `RefreshTick`, `RefreshAnswered` |
| `afterOpened`, `onMessage`, `onError`, `afterClosed` | `WsOpened`, `WsMessage`, `WsReauthRequired`, `WsConnectFailed`, `WsFailed`, `WsClosed` |

`sessions` is a set of records (adapter, phase, request awaited, login used), so a
second run for one adapter is representable and `OneSession` can fail.  `login` is the
version of the URL and API key: a socket carries the version it was opened with and
the version whose session key was last sent over it.  `printers` follows what the
printer cache holds, since a disabled or deleted printer reaches the store by an event.

**`TaskRounds`** is the abstract specification of `reconnectPrinterSockets`: a batch of
reauthentications, all awaited, then a batch of set-ups, all awaited, then the next
run.  `ImplementsRounds` is its refinement under
`phase <- task, pending <- {s.adapter : s \in sessions}`.

### Start of the server

**`TaskManager`** is the state that `TaskManagerService` keeps of a task, as a record
(registered and disabled or not, intervals armed, timeout pending, handler running),
with an operator for the effect of each method.  The interval job of toad-scheduler is
external: it skips a tick while the task is executing.  Whether its `stop()` ends the interval is
left open, since the library is not part of the repository and above the only call of it stands
"TODO this does not seem to work as intended" (`services/core/task-manager.service.ts:157`, issue
1071).  `env.stops` is chosen once, in `Init`, and `DisableJob` keeps the interval where it is false.

**`Boot`** composes it with `ServerHost.boot` and `BootTask.run`.  The host awaits a first
run before it listens; a run that cannot reach MongoDB schedules the boot job, which
was registered disabled, and returns as if it had succeeded, so the server listens
without stores until the job gets through.  `run[c]` is the step that the run called by
`c`, the host or the job, awaits:

| Code | Model |
|---|---|
| `runOnce`, `boot`, `index.ts` | `RunOnce`, `Returned` (listens), `Thrown` (the process exits) |
| the awaits of `run` and what follows each | `StepDone`; the last, `Finished`, registers `BOOT_TASKS` and disables the job |
| the `catch` of `run`: an error of mongoose, any other | `MongooseFailed`, `MigrationFailed` (dropped: the run goes on) |
| any other failure | `StepFailed`: fatal to the host, logged by the job's error handler |
| jobs, the delayed task, the end of a handler | `BootJobTick`, `JobTick`, `DelayElapsed`, `TaskEnded` |
| docker or pm2 restart the process | `Restarted` (external): memory is lost, the environment is not |

**`ServerStart`** refines three of its steps while keeping `Boot`'s actions: step 1
executes the commands of `MongoMigrations` one at a time, each of which may fail or
be the last before a kill (`Connected`, `Command`, `Recorded`); step 3 finds or
creates one permission and then one role per query (`SyncPermissions`, `FindPermission`,
`StorePermission`, `FindRole`, `StoreRole`), beside a request that asks for the
synchronisation of roles; step 4 makes the demo account what the environment says
(`CreateOrUpdateDemoAccount`, `GetDemoUserId`, `ChangeDemoAccount`), with the commands that
`DemoAccount` lists for either database, while an earlier one may have been changed by an
administrator (`Administer`); and the client task, or a request for another
release, downloads a client, empties the directory and extracts the archive entry by
entry (`RunTask`, `Downloaded`, `EntryRemoved`, ...).  In `MongoMigrations` the
collections that exist are mapped to sets of documents, one for each kind, and a document
is a function from the fields that any migration or model names; `migrate-mongo` and the
driver are external.  `WrittenFields` is what the release with *k* migrations writes.

### Printers, floors and imports

**`PrinterRegistry`**, **`Floors`**, **`PrinterGroups`** and **`Yaml`** are functions of a
*farm state* `s`: the tables (`printers`, `floors` with their positions, `groups`), the
order of the ids, and the memory of the process (`cache`, `store`).  The prefix `Orm` marks the
methods of `services/orm`, the others are of `services/mongoose` or common.  Calls
return a record with the next state and whether they threw, and keep what was written
before: nothing in the code rolls back.  `Handle...` is what the listeners of
an event do in that same stretch.

**`Farm`** has an action `Sql...` for each request with SQLite.  With MongoDB, `Start...`
begins a request, `Serve` lets the database execute the command it awaits and
`Resume` runs the code after it; a command may be executed long before its answer is
handled.  A batch takes one slot per printer.  The version of a floor's document (`__v`), which
mongoose checks when it saves an array, is the field `stale` of a request that read it.
`Restart` empties memory and loads it again.

A floor is created with the printers of the request's body.  With SQLite `create` inserts the floor and
places them one by one (`OrmCreateFloor`), and if one does not exist it throws when it comes to that
(`SqlCreateFloorFails`): the floor and the places before it stay in the database, and the floor
store is not told.  MongoDB stores the list unseen.  `POST /floor/:id/printer` passes its id as a string, so
that the shortcut of `addOrUpdatePrinter`, which compares it with a number by `===`, is never taken
(`PlacePrinter`); `create` and `update` pass the id of the entity, and imports take it
(`OrmAddOrUpdatePrinter`).

An import (`Yaml!Import`) is one step, since SQLite lets nothing in.  The *file* is a
record with its own ids, so that the three strategies (by name, by URL, by id, and for
floors by name or level) have something to match.

### Users, sessions, settings

**`Accounts`** has `SqlStep` with an action for each request, and for MongoDB
`BeginStep`, one action per request up to its first command, and `CommandStep`,
one action per command and the code that runs on its answer.  The guards of the
controllers (one's own account, login required, wizard completed, registration) are
conjuncts of the beginning; those of the services are where they are evaluated.
`past` records what the properties need: requests that overlapped, renewals
answered, settings as last asked for.  A setting is changed or not; `Settings` models
each patch (`Patched`) and the migration that every read of the document performs
(`MigrateSettingsRuntime`); `store` is the copy in the settings store.

### Moonraker

**`MoonrakerSockets`** has the awaited HTTP requests as a bag of calls (who asked, which of the two
requests, and what Klipper was while the answer was on its way), because set-ups by the
task, by an event, by a test and by the interval overlap without any guard.  Klipper
starts and stops behind Moonraker (`KlippyChanges`) and tells over each
subscribed websocket.  `TestStarted`, `TestPolled`, `TestTimeout` and `Finally` are the steps
of a test: set up, poll, wait for the first event or the timeout, clean up.

### Files

In **`PrinterFiles`** a printer *acts* on a request in one step and its answer is *handled* in
another, so a request may be carried out and its answer lost.  A file is recent or old or
absent.  Each request is a record with the call it awaits; the sequence of calls of an upload
is: clean up, upload, extract, write the thumbnail, list.  Thumbnail files are
opened (truncated) and then written.  `currentUploads` follows the sessions of the
tracker; Moonraker's `uploadFile` builds a relative URL, so with Moonraker every upload
fails before it is sent, without reporting it.
A request that goes through several printers or files keeps the set of those that are left
and takes the first one by `Order`, that of their ids.
`loadCache` clears the thumbnails and loads those of `listCachedPrinters()`, which leaves disabled printers
out.  `doubt`, `tangled`, `unloaded` and `alone` are bookkeeping of the exceptions named below.

### Databases over the releases

**`SqliteMigrations`** lists every migration as the statements it executes, upwards and
downwards; **`Sqlite`** is what a statement does to tables, constraints, references and
rows; **`Entities`** is what the entities declare; **`Database`** is the life of one
installation.  TypeORM is external: it executes the migrations that are not recorded by name, in
the order of their timestamps, in one transaction, foreign keys off; a failure ends the
process.  Then permissions and roles are synchronised one query at a time.  Releases are prefixes of
the list in `data-source.ts`.

### Prints

In **`PrintCompletions`** each event starts a handler that awaits a create, a find or a save;
`calls` is the set of these.  With SQLite they are answered at once.  Events may be missed
(the websocket was down), commands may fail and the server restart.  The context of
the code is `contextCache`, the rows are `rows`, statistics are `Shown`.

## The checks

| Run | Instance | Shows |
|---|---|---|
| `sockets` | 1 printer, 2 adapters, 3 websockets, every disturbance, budget 3 | `OneSession`, `PurgedIsGone`, `SocketFollowsLogin`, `TasksPickUp`, `ReauthServed` hold, and `TaskRounds` is implemented (67,000 states) |
| `sockets_recovery` | 1 printer, server faults only, budget 6 | `Recovers`: a connected, authenticated socket again after any failures |
| `stale_session` | 1 printer, one update | **violated**: `AuthMatchesUrl` |
| `lost_refresh` | 1 printer, one refresh, no failure | **violated**: `Recovers` |
| `boot` | 5 tasks, one for each preset; `stop()` works or not; the 9 MongoDB migrations, or the roles, or the demo account, or the client; budget 2 | `OneBootRun`, `BootInOrder`, `TasksRun`, `MongoMigrated`, `RolesKnown`, `ClientServed` (750,000) |
| `farm` | 2 printers, 2 floors, 2 groups, 6 files; both databases | `CachesAgree`, `OnePlace`, `AsAsked`, `ReimportIdempotent`, `NoLostPlace`, `NoCollateral` (448,000) |
| `yaml_positions` | the same | **violated**: `ImportPlaces` |
| `accounts` | 3 users, 2 sessions, 5 settings at a time; both databases | `NotLockedOut`, `SomeRoot`, `AttemptsBound`, `NoLateRenewal`, `SessionsHaveUsers`, `SettingsKept` (458,000) |
| `moonraker` | 1 printer, 2 adapters, 2 websockets, 2 tests, budget up to 3 | `AuthenticatedIsLive`, `PurgedIsSilent`, `TestCleansUp`, `ShowsPrinter` (184,000) |
| `files` | 2 printers, 2 files, 2 requests at once, budget up to 3 | `CacheFollows`, `ThumbnailAgrees`, `NoStuckUploads`, `CleanSpares` (768,000) |
| `database` | every migration and release, 5 installations | `SchemaAsDeclared`, `DeletesAllowed`, `RowsKept`, `RightsKept` (629,000) |
| `prints` | up to 3 jobs, up to 2 printers, both databases | `NoMixedJobs`, `NotesStored`, `StatsAgree` (874,000) |

The violations are disagreements between the code and its own comments or
notes, listed as findings:

1. *A stale session.*  An update does not cancel a `setupSocketSession` that waits for the
   login with the old credentials; it ends by opening a socket to the new URL and
   authenticating it with the old session.
2. *A lost refresh.*  No websocket handler asks which socket an event is of.  A refresh
   closes socket 1 (closing handshake pending) and the task opens socket 2; the close
   event of socket 1 then deletes the reference to socket 2.  When socket 2 opens,
   `sendAuth` sets `authenticating` and sends nothing.  Neither task regards
   `authenticating` (or `authenticated`, which any message sets) as down, so the
   printer is never connected again without another request.
3. *An import that leaves a printer where it was.*  The shortcut of `addOrUpdatePrinter`
   compares `x` with the wanted `y`: a printer at (0,1) that the file has at (0,0) is
   taken to be there already.  Requests do not take the shortcut, see above.

`Recovers` therefore holds only without requests, `reauthRequired` messages and invalid
frames: `sockets_recovery` says so by allowing `create`, `httpFault` and `wsFault` alone.
`TasksPickUp` is the weaker promise that holds under everything.

### What the properties except

A property is stated as strongly as the code makes it true; what it excepts is
behaviour of the code that a maintainer should know:

* `BootInOrder`, if `stop()` does not end an interval: the boot job goes on after a boot that has
  reached its end and runs it again, every five seconds, and if such a run cannot connect it is scheduled
  once more and has two intervals.  Still promised is then that nobody else runs the boot, that
  every other task has one interval, and that tasks run only when all stores were loaded.
* `CachesAgree`: not after the creation of a floor that threw at a printer which does not exist, until the
  next boot: the floor is in the database and not in the store.  The *disabled reason* is compared with MongoDB only, since SQLite's
  service emits one that it does not store (`services/orm/printer.service.ts:93`).  With SQLite the
  floor store may show a printer on the floor it was moved from.
* `OnePlace`, `AsAsked`: SQLite.  With MongoDB a printer placed on a second floor stays on
  the first (`services/mongoose/floor.service.ts:119`), and a new floor with the printers of its body
  takes them from nowhere.  `AsAsked` is of bodies that name no printer twice and no two on one cell
  (`IsLayout`); imports are left to `ReimportIdempotent` and finding 3.
* `NoLostPlace`: a printer deleted meanwhile may come back to a MongoDB floor, as the
  `$pull` does not change the document's version.
* `NotLockedOut`, `SomeRoot`: for requests that do not overlap.  Two overlapping
  demotions or deletions can remove the last administrator.  `SomeRoot` is of MongoDB: in
  SQLite the guard of `services/orm/user.service.ts:116` compares a number with a string.
* `AttemptsBound`: renewals of one token that overlap count as one.
* `SettingsKept`: overlapping requests for settings may lose each other's; a restart
  takes those of the environment; `autoRemoveOldFilesAtBoot` is not
  kept over a restart; a frontend setting left out of a SQLite request is dropped.  `PUT /settings/server`
  stores every flag of its body, since `validateInput` returns the whole body: also
  `sentryDiagnosticsEnabled`, which the Sentry client then learns at the next restart only.
* `TestCleansUp`: tests that ran alone.  Of two that overlap one may keep its listeners
  or leave a socket open.
* `ShowsPrinter`: not of a Moonraker printer that was refreshed or updated while connected,
  which nothing may ever set up again.
* `CacheFollows`, `CleanSpares`: unless the list is in doubt: requests met at the printer,
  somebody changed it there, an answer to a change was lost, or the listing after it failed.
* `ThumbnailAgrees`: unless two loads met, or the printer was deleted during a load or
  without thumbnail support.  A printer that was disabled when the cache was loaded shows no thumbnail
  although its image exists, until the next one is loaded, even if it is enabled before.
* `NoStuckUploads`: OctoPrint; with Moonraker every upload stays listed until a restart.
* `DeletesAllowed`: a printer with a camera stream cannot be deleted with SQLite.
* `MongoMigrated`: not after an error of a migration, which the boot drops, nor while the old
  floors collection blocks its migration, which `syncIndexes` causes; what is edited
  before pending migrations run may be overwritten.
* `RolesKnown`: overlapping synchronisations may store a role twice, so that the id a user was
  registered with is not the one that is cached.  The demo account is as configured until an
  administrator changes it.
* `ClientServed`: files of `dist` other than `index.html` may be missing after a kill, and
  versions mixed after overlapping updates.
* `NoMixedJobs`, `NotesStored`, `StatsAgree`: not of jobs with a missed or failed event.  `StatsAgree` also
  not, with SQLite, beyond one page of completions.  `NotesStored` is of MongoDB and excepts, besides, the
  jobs of which a note was handled before the row of their start was inserted, which finds no
  row, and those with two updates under way at once, which save their contexts in any order: both
  lose notes.  What it says is that nothing else does, and that no row has the notes of another job.

### Bounds

A budget bounds disturbances (creations, failures, restarts and the like, named in the module); ticks,
answers and messages are unbounded.  In each run it suffices to hit one object twice, once during
the recovery from the first hit.

* `sockets`: a set-up, its socket and its successor need three websockets: no reachable state
  needs a fourth, so the guard that waits for a free one hides nothing.  An
  adapter object is never constructed twice, so two allow a printer to be disabled and
  enabled once.  Adapters interact only through `Promise.all`, which the proof
  covers for any number.
* `boot`: a failure leads to one of three places (a running boot job, a restarted process, the next
  step); the proof covers any number.  Each initial state looks at one part: the migrations, from
  a database with none or nine of them applied (the proof: any), the roles, the demo account in either
  database, or the client in three versions around the minimum.  One edit, one request for
  roles and one for the client; the demo account is changed once, or a role is asked for
  once, and its configured role and password may change at a restart, so that a boot finds it
  missing, half done, as configured, or as somebody else has made it.  Where `stop()` does not end
  intervals, MongoDB alone, the other tasks (scope `job`), and in safe mode the migrations and the
  roles: with SQLite the boot job is never scheduled.
* `farm`: two printers, floors, cells and levels are what it takes to collide; new floors come with none,
  one or two printers.  With MongoDB
  at most two requests are in flight, only such as touch the same documents (others do not
  see each other), a batch toggle aside; once two have overlapped none arrives until a restart,
  so every state reached is the outcome of one overlap.  The files place
  printers on one floor or two, with free and taken levels, groups, each strategy.
* `accounts`: three users tell "the last" from "not the last"; two sessions of two users;
  attempts limited to 1 or 2 or unlimited with 3 renewals.  Administrators with MongoDB act
  one at a time (overlaps refute the properties above); logins, renewals, logouts and
  deletions, and settings, two at a time.  `farm`, `accounts` and `files` use the symmetry of ids
  that nothing orders; they state safety only.
* `moonraker`: one printer, as adapters share nothing but the task; two adapters for a
  replacement or a second test; two tests to overlap.
* `files`: two printers for what loops over printers, two requests at once on one printer for what
  interleaves; four upload sessions, more than failures can leave behind.
* `database`: one crash anywhere, three reverts, one edit; every release of the six.
* `prints`: two jobs of one printer overlap, three reach the page of four.

`boot`, `moonraker` and `prints` run without the deadlock check: in safe mode no task is
registered, and all of them end when the jobs, tests or disturbances are used up.

### Fairness

`PrinterSockets`: timers of jobs fire and the scheduler starts a run if none is
going on; every request ends, with an answer or by its timeout; every handshake ends, by
`handshakeTimeout` at the latest; `ws` ends a closing handshake after 30 s if the
peer does not; a connected OctoPrint sends `current` messages on the sockets it has
authenticated.  `MoonrakerSockets`: the same of the reconnect job, the 15 s interval, requests
and handshakes.  Failures, requests, reauth messages, messages on sockets
never authenticated and state refreshes need not happen.  A peer that vanishes
without closing the connection is a failure that the model reports as a close; the
code has no heartbeat, so in reality this waits for the kernel.

`Boot` and `ServerStart`: each awaited step of a run ends, with success or failure, intervals
and timeouts elapse, handlers end (`TasksRun` speaks of the task manager: a handler that
never settles would stop its task for good), and the supervisor restarts
a process that exits, as `docker-compose.yml` and `docker/entrypoint.sh` configure.
Failures need not happen and end when the budget does: a database that stays down is
not promised a boot.

All are weak.  The other modules state safety only.

## The proofs

`PrinterSocketsProofs` proves for all values of the constants, from
`NoneIsNoObject` (ids differ from `undefined`) and `BudgetIsCount` only:

* `Invariance`: `Spec => []IInv`.  `IInv` adds to the checked invariants what makes
  them inductive.  `OneSession` alone is not: a tick must know that no session is
  pending when the task is idle and that a reauth round has only reauth sessions
  (`SessionsOfRun`).  `OnlyStoredEmits` and `DeletedStaysForgotten`, the two halves of
  `PurgedIsGone`, lean on each other and on `StoredIsEnabled`: only stored adapters
  emit, stored means enabled, so an emission
  never names a deleted printer.  `SocketFollowsLogin` needs `SocketsOwned`, that a
  websocket not closed has an owner, to know that the handler that runs for it is some
  adapter's.  The proof has a lemma for each action, and lemmas for what the
  operators of `OctoPrintAdapter` keep.
* `TypeCorrect`, `SessionsAreExclusive`, `PurgedStaysGone`, `SocketIsCurrent` follow
  from it, one per property.
* `RoundsImplemented`: `Spec => ImplementsRounds`, by `IInv` and a case for each action.

`BootProofs` proves of `Boot`, for all tasks and presets, from the assumptions that the presets are
as `validateInput` accepts them (`PresetsAreValid`) and that the boot task is registered as in
`tasks.ts` (`BootRegistered`; `TASK_PRESETS` are those of `task.presets.ts`):

* `BootInvariant`: `Spec => []IInv`.  The core is `BootJob`: the boot job has an interval
  exactly while it is enabled, if `stop()` works, and otherwise none before it was enabled once; it runs
  the boot only then, and not while the host does.  `TasksOfBoot` says that other tasks are registered by a boot that ended,
  and `BootedLoaded` that all stores were loaded and no run was pending by then; `StartedFresh` says that a
  restarted process knows nothing.  `RunAdvances`, `RunOver` and `TaskMoves` are the three
  shapes of a step; each action is shown to be one of them.
* `BootTypeCorrect`, `BootRunsOnce` and `BootIsInOrder` (`OneTimer`, `StoresFirst`,
  `BootStops`) follow.

Of `ServerStart` it proves, with the same assumptions, `MinimumIsVersion` and
`ClientTaskRegistered` (the task that downloads the client is one of `BOOT_TASKS`), for any tasks,
versions and failures:

* `StartInvariant`: `StartSpec => [](StartInv /\ BundleInv)`.  Every step of the detailed start is a step
  of `Boot`, leaves its variables alone, ends the client's task or kills the process (`StartSteps`,
  `UpdateSteps`), so that `StartInv` is Boot's invariant or a process that is `Dead`, together
  with the facts that updates need a server that listens and the task one that has booted.
* `StartRunsOnce` and `StartIsInOrder`: what `Boot` promises holds of the detailed start.
* `ClientIsServed`, by `BundleInv`.  That the client is new enough once the task is through holds even
  when updates overlap, and this needs `OldGoes`: while a file is too old all are, and
  whoever is going to unpack a zip has listed it for removal, so that no zip is unpacked around
  a file that is too old.  `OneVersion` says that without overlaps an update has listed what is there
  and nothing else, and `Ensured` that a task which is through leaves a client that later
  requests, of whatever version, replace only by one that is new enough.
* `RolesAreKnown`, by `RolesInvariant`, with the further assumption that the value `None` is no id
  and no synchronisation (`NoneIsNoValue`).  `Covered` says that once a caller has begun, each name is
  cached or still to come in its own synchronisation (`Awaited`): a request only begins one when
  the cache is empty anyway, so that nothing cached is lost.  Caches hold stored rows only (`RolesTypes`), rows are never
  removed, and new ids are greater than all others (`NextIdIsFresh`).  `StoredOnce` says that
  without overlaps a name that was looked for and not found is still missing when it is
  stored, so that ids and names determine each other and `GrantedIs` can compute the rights of a role.
  `DemoInv` says of the demo account what each of the commands has done when the rest is left
  (`Done`), which `PerformedIs` shows for any list in the order of the code (`Ordered`).
* `MongoIsMigrated`, by `MongoInvariant`, from a database of any stages (`StagesExist`).  That the
  models of this release find what users saved is not inductive: `Kept` says for each stage,
  with *a* migrations recorded, which fields of the documents hold it, and where else a kill
  between the commands of migration *a* + 1 may have left it (`half`).  `MongoInv` adds what a
  caller has still to execute (`Rest`), and that the documents are at stage *a* + 1 when nothing is
  left (`RestKept`).  So a migration may begin again on documents it has changed already:
  each migration of one command makes the next stage of either form (`Singles`, `Advanced`), as
  do the two of the first (`ApiKeyAdvances`), and the floors, whose names no update
  touches, need not be looked at by stage (`FloorsKept`).  Only the command that moves the floors
  can fail (`OnlyFloorsFail`).  By hand a migration is executed as a whole, up (`UpKeeps`) or
  down (`DownKeeps`); down only from whole stages, for the reason that `MongoMigrated` excepts.
  No induction over commands is needed, since no migration has more than four (`MigratedRuns`).

The others are about many requests under way at once (`Slots`, `calls`).  Each
begins with the values of the state, which already needs induction: that a handler which
resumes finds what its command was sent for, at a stage its kind of request has
(`Stages` of accounts, `Legal` of files, `CallsOK` of Moonraker).  Then a step is
classified once, by what it may do to the parts that an invariant speaks of, and each
invariant is shown to survive every class.

`AccountsProofs` proves of `Accounts`, from the assumptions that the
ids differ from `None` (`NoneIsNobody`), that the settings of attempts are as the rules of
the request allow, `integer|min:-1`, and that the environment sets what `boot.task.ts`
applies (`ClientsAreValid`), `RenewalsIsCount`:

* `AccountsTypeCorrect`, by `AccountsShaped`, which also carries `EndedIsGone`: a token that
  ended has no row.  `NoRenewalIsLate` follows, since a renewal needs the row again.
* `RenewalsAreBounded`, by `AttemptsCounted`: unless renewals of a token overlap, what its row
  or the request that is renewing it has counted is what it was used for.
* `OwnersStay`, `NobodyLockedOut`: when requests do not overlap (`Lone`), the one under way
  was checked against the users that are still there (`RootsHeld`, `AdminHeld`).  The
  wizard must be part of it: between its user and its settings, the server counts as
  set up (`WizardDone`).
* `SessionsOfUsers`, by `SessionsOwned`: a token is of a user, or of one whose deletion has still to
  delete it.
* `SettingsAreKept`, by `SettingsHeld`: what was asked for is stored and cached, and no request
  under way has read anything else (`Apart`).

`MoonrakerProofs` proves of `MoonrakerSockets`, from `IdsAreDistinct` (printers and tests, whose
ids are made at random) and `ClientsAreValid`:

* `MoonrakerTypeCorrect`, by `MoonrakerShaped`: awaited requests are a bag, one for the
  objects has seen what Klipper is now, and a live websocket has an owner.
* `AuthenticatedMeansLive`, by `Lively`: a websocket that can deliver goes on, or its owner is
  no longer authenticated.
* `PurgedStaysSilent`, by `Silenced`: an adapter that may emit for a printer is the stored one.
* `TestsCleanUp`, by `Tested`: a test has one adapter and sends one request at a time; one that
  runs alone has the test socket, which has at most one websocket; and of one that is over
  nothing is left.

`PrinterFilesProofs` proves of `PrinterFiles`, from a total order of the
printers' ids (`OrderIsTotal`), `NoneIsNoValue`, `BoundsAreFinite` and `ClientsAreValid`:

* `FilesTypeCorrect` and `UploadsEnd`, by `FilesFounded`.  Its part `Room` counts: the uploads
  shown and those that may still start fit the sessions, so that the bound of the model
  keeps no request from going on.
* `CachedListsFollow` and `CleanUpSpares`, by `ListsFit`: at a printer in no doubt one request has calls
  about files, and what it has still to tell the cache is the whole difference
  (`Sound`).  The clean-up also needs `Lone`, of a printer that got into doubt after the list
  was read.
* `ThumbnailsAgree`, by `ThumbnailsDrawn`: one load at a time of a printer's thumbnail, which is
  ahead of the cache while its file is open; no request while the server boots; and nothing cached of
  a printer that the last load of the cache passed over.

`PrintCompletionsProofs` proves of `PrintCompletions`, from `InstancesAreValid`, `NoneIsNoContext`,
`NoneIsNoEnd` (`undefined` is no context, no token and no way a print ends) and `PageIsNotEmpty`:

* `JobsAreNotMixed`, by `CompletionsFiled`: a context holds the token of the job that is printing, or
  of an earlier one whose end was missed or is being stored (`ContextsKept`), and rows and
  commands are filed by the tokens they were made from (`Filed`).
* `NotesAreStored`, by `NotesKept`: of a job that is not spoilt the start is inserted before
  anything is noted, then there is one update at a time, and what is noted is in the
  row, in the command or in the context it will be taken from.
* `StatisticsAgree`, by `Counted`: what was heard of a job that is not spoilt is stored or about to
  be, the end of a job never twice, and a row says how its job ended.  Once no command is
  awaited, the rows of a printer without spoilt jobs are `Complete`: their tokens correspond one to
  one to its jobs, those with a given end to the jobs that ended so, and the latest row
  of a job is its end (`StatisticsOfComplete`).  Counts are compared by these bijections, so
  that no induction over the rows is needed.

`FarmProofs` proves of `Farm`, from `IdsOfRows` (the ids of rows are finite in number, those of
groups are numbers), `WhatClientsSend` (what requests and files may contain; that the levels 0 and
1, which the server gives to floors of its own, are levels) and `NoValues`:

* `TypeCorrect`, `CachesAgreeHolds`, `OnePlaceHolds` and `AsAskedHolds`, by `CacheInvHolds`.  With
  SQLite every call of a service leaves a farm `Sound`, also one that throws halfway: `OnePlace` is only inductive together with
  the fact that everybody who has a place, or a group, exists.  `AsAsked` needs that placing further printers
  of a layout leaves those before on their cells.  Several calls of the
  services are loops (the places of a floor, the printers of a batch, the entries of a
  file); `FoldInduction` proves once that a fold of the community modules keeps what each of
  its steps keeps, by taking a least set of elements for which it does not, so that no rule of
  induction over an operator is needed.  An import also has to find an unused id for each new
  entry (`IdsLeft`).  With MongoDB a request under way is one of 21 kinds (`Legal`), and as long as
  requests do not overlap what it has still to tell the caches (`Owes`) is exactly what they
  lack.  A batch is the exception, as its updates are sent together: they are told apart by
  their printers (`Patching`).
* `NoCollateralHolds`: a command awaits its answer until the database executes it, so that the only
  step to look at is that of `ServeSavePrinter`.
* `NoLostPlaceHolds` (`FarmPlacesProofs`), by `FarmInvHolds`, which adds what requests that overlap may rely on: a request
  that read a floor and was not told of a new version still knows all places on it, but for those
  of printers that were deleted (`ReadStill`); a deleted printer stays deleted while its places
  are removed (`Gone`); and the id of a floor to be inserted is nobody else's.

Only model-checked are

* the liveness properties `TasksPickUp`, `ReauthServed`, `Recovers`, `TasksRun` and
  `ShowsPrinter`: liveness under fairness is out of the prover's reach;
* `ReimportIdempotent`, which compares what an export, an analysis and the folds of an import make of
  each other: the lemmas about folds say what these keep, not which farm they return;
* the properties of `Database`: the migrations of SQLite execute given lists of statements on
  given releases, so that TLC covers them all.

## What is not modelled

* Sockets: payloads, logging and timestamps; how long a socket has been silent (the restore
  task may find any adapter silent); `loadPrinterSockets` replacing a non-empty store; an
  exception thrown by `close()`.  The two requests of `updateCurrentStateSafely` are one.  A
  run of the restore task is at most one pending `getConnection`.  Of Moonraker, the API state, which only
  the interface shows, the merging of payloads, and the disabling of
  Klipper printers with their support.  Tests of OctoPrint printers.
* Tasks and boot: `deregisterTask` and `stopSchedulerTasks`, which nothing calls, durations and logged
  errors; what each later step of the boot loads; releases of the server, which are only listed.
* Printers: with MongoDB a request for one floor that is not in the store; the flow and feed rates that requests set, changes of the type of a printer, requests passed on to
  the printer, the other batch calls, and the marks of the key diff cache, which
  nothing reads.  YAML with MongoDB, where its calls interleave with requests, and the
  formats of older versions.
* Accounts: expiry and blacklist of JWTs, which need a clock; passwords and user names;
  `needsPasswordChange`; what demo mode forbids (its account is in `ServerStart`); the fixed
  tables of permissions.
* Files: `PUT /settings/server` with `experimentalThumbnailSupport`, which stores the flag and neither loads nor
  clears the cache, so that `ThumbnailAgrees` speaks of the flag's own route; folders and downloads; the lists of uploads done and failed, kept for an hour.
* Prints: `loadPrintContexts`, which only a test route calls, the counts of the last week and days.
* Camera streams and custom G-code but for their rows in `Database`; the Socket.IO gateway, the
  OctoPrint, Moonraker and GitHub clients, plugins and firmware, the HTTP layer and the
  consoles, which keep no state of their own: requests and their outcomes are choices in
  the models that need them.

What remains uncovered of the source is mostly of that kind, or declarations: types of data
transfer objects, validation rules, routes, the HTTP clients, and the vendored package
manager.

## Plan

Done: the modules above, and proofs of seven compositions.  Next, in order:

1. An abstract specification of `Farm`, a placement as a partial injective function, and its
   refinement for SQLite, for which `OnePlaceHolds` is the invariant.
2. YAML with MongoDB; the disabling of Klipper printers by a setting, which composes `Settings`
   with `Farm`; batches of print commands.
