---------------------------- MODULE ServerStart ----------------------------
(***************************************************************************)
(* The start of the server in detail: Boot, with the migration of MongoDB  *)
(* command by command (step 1 of run()), the synchronisation of the        *)
(* permissions and roles query by query (step 3), which requests may ask   *)
(* for too, the demo account (step 4), and the task that downloads the     *)
(* client, beside requests for another version. The process may be killed, *)
(* and migrate-mongo be run while it is stopped.                           *)
(***************************************************************************)
EXTENDS Boot, MongoMigrations, RoleSync, ClientBundle, DemoAccount

CONSTANTS ClientTask,  \* clientDistDownloadTask
          Stages,      \* how many migrations a database may have at first
          None

ASSUME ClientTaskRegistered == ClientTask \in BOOT_TASKS
ASSUME StagesExist == Stages \subseteq 0..Len(MigrationNames)

VARIABLES
  mongo,    \* the collections, and how many migrations are recorded in _migrations
  mig,      \* for each caller of run() that migrates, the commands left of its migration
  roles,    \* stored permissions and roles, their caches, and the role of a user registered
  sync,     \* for each synchronisation under way, the names left and what was found, else None
  demo,     \* the demo account, what the environment says of it, and commands under way
  bundle,   \* the client's files
  updates,  \* updates of the client: the task's and a request's
  past      \* for the properties only, but for the requests counted

startVars == <<mongo, mig, roles, sync, demo, bundle, updates, past>>
allVars == <<vars, startVars>>

Requested == {"task", "request"}
Syncers == Callers \cup {"request"}

(***************************************************************************)
(* MongoDB as a release with k migrations left it                          *)
(***************************************************************************)
Since(k, n, fields) == IF k >= n THEN fields ELSE {}
Until(k, n, fields) == IF k < n THEN fields ELSE {}

WrittenFields(k, c) ==
  CASE c = "printers" ->
         {"fileList"} \cup Until(k, 1, {"settingsApperance", "apikey"}) \cup Since(k, 1, {"apiKey"}) \cup
         (IF k \in 1..7 THEN {"settingsAppearance"} ELSE {}) \cup Since(k, 7, {"name"}) \cup
         Since(k, 2, {"enabled"}) \cup Until(k, 5, {"sortIndex"})
    [] c = "users" -> Until(k, 3, {"password"}) \cup Since(k, 3, {"passwordHash"}) \cup Until(k, 6, {"name"})
    [] OTHER -> {"name"} \cup Until(k, 4, {"printerGroups"}) \cup Since(k, 4, {"printers"})

WrittenValue(k, f) ==
  CASE f \in {"settingsApperance", "settingsAppearance"} -> IF k = 7 THEN {} ELSE {"old"}
    [] f \in {"printerGroups", "printers"} -> {}
    [] f = "enabled" -> TRUE
    [] f = "sortIndex" -> 0
    [] f = "fileList" -> IF k < 9 THEN "object" ELSE "list"
    [] OTHER -> "old"

Written(k) ==
  [c \in Collections \ {IF k < 4 THEN "floors" ELSE "printerfloors"} |->
     {[f \in WrittenFields(k, c) |-> WrittenValue(k, f)]}]

\* The fields that the models of this release read, and where.
Models == [name |-> "printers", apiKey |-> "printers", enabled |-> "printers",
           passwordHash |-> "users", floor |-> "floors"]
FieldOf(m) == IF m = "floor" THEN "name" ELSE m

NoMigration == [c \in {} |-> <<>>]
NoSync == [s \in Syncers |-> None]
NoUpdates == [u \in Requested |-> NoUpdate]

Names == [permission |-> PERM_GROUP, role |-> ROLES]

Unstored == [t \in DOMAIN Names |-> {}]
Stored == [t \in DOMAIN Names |-> {[id |-> i, name |-> Names[t][i]] : i \in DOMAIN Names[t]}]
Uncached == [t \in DOMAIN Names |-> <<>>]

NoCommands == [c \in Callers |-> None]

\* A synchronisation and an update of the demo account under way: both databases know no
\* other names, and the environment no other roles.
AllNames == ToSet(PERM_GROUP) \cup ToSet(ROLES)
AppRoles == {"ADMIN", "GUEST"}
Syncing ==
  [of : DOMAIN Names, left : Seq(AllNames),
   found : {None} \cup SUBSET [id : Nat, name : AllNames], for : {None} \cup AppRoles]
DemoUpdate == [role : Nat, commands : Seq(CommandNames)]

ASSUME NoneIsNoValue == None \notin Nat \cup Syncing \cup DemoUpdate

\* What an instance looks at, a bound: the client's updates in SQLite installations, in
\* those of MongoDB the migrations and the edits, or the roles of a migrated database, and in
\* either the demo mode. Only the first may be in safe mode. If stop() does not end a job's
\* interval, it is the boot beside the other tasks, and in safe mode the migrations and the
\* roles, with MongoDB: the boot job of an SQLite installation is never scheduled.
Scopes == {"client", "data", "roles", "demo", "job"}

StartInit ==
  /\ Init
  /\ \E scope \in Scopes :
       /\ scope = "client" => env.isTypeormMode
       /\ env.isTypeormMode => scope \in {"client", "demo"}
       /\ IF env.stops THEN scope # "job" /\ (env.safeMode => scope = "client")
          ELSE /\ ~env.isTypeormMode /\ scope \in {"job", "data", "roles"}
               /\ env.safeMode <=> scope # "job"
       /\ \E k \in IF scope = "data" THEN Stages ELSE {Len(MigrationNames)} :
            mongo = [colls |-> Written(k), applied |-> k]
       /\ \E rows \in {Unstored} \cup IF scope = "roles" THEN {Stored} ELSE {} :
            roles = [rows |-> rows, cache |-> Uncached, user |-> None]
       /\ bundle \in IF scope = "client" THEN {[f \in Files |-> v] : v \in Versions \cup {0}}
                     ELSE {[f \in Files |-> Minimum]}
       /\ past = [scope |-> scope, saved |-> [m \in DOMAIN Models |-> IF m = "enabled" THEN TRUE ELSE "old"],
             excused |-> FALSE, cut |-> FALSE, dropped |-> FALSE, overlapped |-> FALSE,
             administered |-> FALSE, mixed |-> FALSE, torn |-> FALSE, ensured |-> FALSE,
             edited |-> FALSE, asked |-> FALSE]
  /\ demo = [accounts |-> {}, role |-> "ADMIN", left |-> NoCommands]
  /\ mig = NoMigration /\ sync = NoSync /\ updates = NoUpdates

(***************************************************************************)
(* Step 1: connect and migrate                                             *)
(***************************************************************************)
\* MongoDB is there, or the step would have failed.
InMongo(c) == run[c] = 1 /\ ~env.isTypeormMode

\* syncIndexes creates the collections of the models; printerfloors is no longer one.
SyncIndexes(colls) ==
  [k \in DOMAIN colls \cup (Collections \ {"printerfloors"}) |->
     IF k \in DOMAIN colls THEN colls[k] ELSE {}]

\* The next pending migration begins, or there is none and the step is done.
Begins(c, m) ==
  /\ mongo' = m
  /\ IF m.applied = Len(MigrationNames)
       THEN mig' = Without(mig, {c}) /\ StepDone(c)
       ELSE mig' = Put(mig, c, MigrateUp(m.applied + 1, m.colls)) /\ UNCHANGED vars

Connected(c) ==
  /\ InMongo(c) /\ c \notin DOMAIN mig
  /\ Begins(c, [mongo EXCEPT !.colls = SyncIndexes(@)])
  /\ UNCHANGED <<roles, sync, demo, bundle, updates, past>>

\* A command that fails throws no error of mongoose: the boot drops it and goes on.
Command(c) ==
  /\ InMongo(c) /\ c \in DOMAIN mig /\ mig[c] # <<>>
  /\ IF Succeeds(mongo.colls, Head(mig[c]))
       THEN /\ mongo' = [mongo EXCEPT !.colls = Executed(@, Head(mig[c]))]
            /\ mig' = [mig EXCEPT ![c] = Tail(@)]
            /\ UNCHANGED vars
       ELSE /\ run' = [run EXCEPT ![c] = 2]
            /\ mig' = Without(mig, {c})
            /\ UNCHANGED <<mongo, env, host, tasks, loaded, booted, left>>
  /\ UNCHANGED <<roles, sync, demo, bundle, updates, past>>

Recorded(c) ==
  /\ InMongo(c) /\ c \in DOMAIN mig /\ mig[c] = <<>>
  /\ Begins(c, [mongo EXCEPT !.applied = @ + 1])
  /\ UNCHANGED <<roles, sync, demo, bundle, updates, past>>

ConnectionFailed(c) ==
  /\ c \notin DOMAIN mig
  /\ MongooseFailed(c)
  /\ UNCHANGED startVars

MigrationDropped(c) ==
  /\ MigrationFailed(c)
  /\ mig' = Without(mig, {c})
  /\ past' = [past EXCEPT !.dropped = TRUE, !.cut = @ \/ c \in DOMAIN mig]
  /\ UNCHANGED <<mongo, roles, sync, demo, bundle, updates>>

\* npm run migration:up and migration:down, one migration at a time, with the server
\* stopped. A migration that fails is not recorded, nor removed from the record.
MigrateMongo ==
  /\ host = "started" /\ past.scope = "data"
  /\ \E up \in BOOLEAN :
       /\ IF up THEN mongo.applied < Len(MigrationNames) ELSE mongo.applied > 0
       /\ LET ops == IF up THEN MigrateUp(mongo.applied + 1, mongo.colls)
                     ELSE MigrateDown(mongo.applied, mongo.colls)
              done == Migrated(mongo.colls, ops)
          IN  mongo' = [colls |-> done.colls,
                        applied |-> IF ~done.ok THEN mongo.applied
                                    ELSE IF up THEN mongo.applied + 1 ELSE mongo.applied - 1]
       /\ past' = [past EXCEPT !.excused = @ \/ (past.cut /\ ~up)]
  /\ UNCHANGED <<vars, mig, roles, sync, demo, bundle, updates>>

(***************************************************************************)
(* Step 3: synchronise the permissions and the roles                       *)
(***************************************************************************)
SyncsRoles(s) == sync[s] # None /\ sync[s].of = "role"

\* A run of syncRoles empties the cache and goes through the names; it neither waits for
\* another nor is it kept from one.
SyncRoles(s, role, stored) ==
  /\ roles' = [stored EXCEPT !.cache["role"] = <<>>]
  /\ sync' = [sync EXCEPT ![s] = [of |-> "role", left |-> ROLES, found |-> None, for |-> role]]
  /\ past' = [past EXCEPT !.overlapped = @ \/ \E r \in Syncers : SyncsRoles(r)]

Synchronises(c) == run[c] = 3 /\ ~env.isTypeormMode

SyncPermissions(c) ==
  /\ Synchronises(c) /\ sync[c] = None
  /\ roles' = [roles EXCEPT !.cache["permission"] = <<>>]
  /\ sync' = [sync EXCEPT ![c] =
                [of |-> "permission", left |-> PERM_GROUP, found |-> None, for |-> None]]
  /\ UNCHANGED <<vars, mongo, mig, demo, bundle, updates, past>>

\* A role's id is taken from the cache, unless it is not there yet.
IdOf(cache, name) ==
  LET named == {i \in DOMAIN cache : cache[i].name = name}
  IN  IF named = {} THEN None ELSE cache[CHOOSE i \in named : \A j \in named : i <= j].id

\* A user gets the role with this name, if it is known.
Registered(name, cache) ==
  IF IdOf(cache, name) = None THEN None ELSE [name |-> name, id |-> IdOf(cache, name)]

\* The role of a user who registers; completeWizard takes ADMIN.
AppDefaultRole(loginRequired) == IF loginRequired THEN "GUEST" ELSE "ADMIN"

\* completeWizard and register need the id of a role, once and in demo mode instead of a
\* change of the account: a bound.
AskRole(name) ==
  /\ host = "listening" /\ past.scope \in {"roles", "demo"} /\ ~env.isTypeormMode /\ loaded > 0
  /\ roles.user = None /\ sync["request"] = None /\ ~past.edited
  /\ IF roles.cache["role"] = <<>>
       THEN SyncRoles("request", name, roles)
       ELSE /\ roles' = [roles EXCEPT !.user = Registered(name, roles.cache["role"])]
            /\ UNCHANGED <<sync, past>>
  /\ UNCHANGED <<vars, mongo, mig, demo, bundle, updates>>

FindOne(s, of) ==
  /\ sync[s] # None /\ sync[s].of = of /\ sync[s].found = None
  /\ sync' = [sync EXCEPT ![s].found = FindOneBy(roles.rows[of], Head(sync[s].left))]
  /\ UNCHANGED <<vars, mongo, mig, roles, demo, bundle, updates, past>>

FindPermission(c) == FindOne(c, "permission")
FindRole(s) == FindOne(s, "role")

\* What was not found is created, after another await.
Pushed(s) ==
  LET found == sync[s].found
      created == IF found # {} THEN {}
                 ELSE {[id |-> NextId(roles.rows[sync[s].of]), name |-> Head(sync[s].left)]}
  IN  [roles EXCEPT !.rows[sync[s].of] = @ \cup created,
                    !.cache[sync[s].of] = Push(@, found, created)]

NextName(s) == [sync EXCEPT ![s].left = Tail(@), ![s].found = None]

StorePermission(c) ==
  /\ sync[c] # None /\ sync[c].of = "permission" /\ sync[c].found # None
  /\ IF Len(sync[c].left) > 1
       THEN roles' = Pushed(c) /\ sync' = NextName(c) /\ UNCHANGED past
       ELSE SyncRoles(c, None, Pushed(c))
  /\ UNCHANGED <<vars, mongo, mig, demo, bundle, updates>>

\* The last role ends the run.
StoreRole(s) ==
  /\ SyncsRoles(s) /\ sync[s].found # None
  /\ IF Len(sync[s].left) > 1
       THEN roles' = Pushed(s) /\ sync' = NextName(s) /\ UNCHANGED vars
       ELSE /\ sync' = [sync EXCEPT ![s] = None]
            /\ IF s = "request"
                 THEN /\ roles' = [Pushed(s) EXCEPT !.user = Registered(sync[s].for, Pushed(s).cache["role"])]
                      /\ UNCHANGED vars
                 ELSE roles' = Pushed(s) /\ StepDone(s)
  /\ UNCHANGED <<mongo, mig, demo, bundle, updates, past>>

(***************************************************************************)
(* Step 4: the demo account                                                *)
(***************************************************************************)
InDemoMode(c) == run[c] = 4 /\ past.scope = "demo"

\* With SQLite the roles have the ids of the first synchronisation (see Database).
OrmRoleId(name) == CHOOSE i \in DOMAIN ROLES : ROLES[i] = name

RoleId(name) ==
  IF env.isTypeormMode THEN OrmRoleId(name) ELSE IdOf(roles.cache["role"], name)

\* It throws if the role is not cached, but then a request must have emptied the cache,
\* which it does only when it finds it empty.
CreateOrUpdateDemoAccount(c) ==
  /\ InDemoMode(c) /\ demo.left[c] = None
  /\ IF RoleId(demo.role) = None
       THEN Thrown(c) /\ UNCHANGED <<env, loaded, booted, left, demo, past>>
       ELSE /\ demo' = [demo EXCEPT !.left[c] = [role |-> RoleId(demo.role), commands |-> <<>>]]
            /\ past' = [past EXCEPT !.administered = FALSE]
            /\ UNCHANGED vars
  /\ UNCHANGED <<mongo, mig, roles, sync, bundle, updates>>

GetDemoUserId(c) ==
  /\ InDemoMode(c) /\ demo.left[c] # None /\ demo.left[c].commands = <<>>
  /\ demo' = [demo EXCEPT !.left[c].commands = Commands(env.isTypeormMode, demo.accounts)]
  /\ UNCHANGED <<vars, mongo, mig, roles, sync, bundle, updates, past>>

\* After the last command the login is made obligatory, which ends the step.
ChangeDemoAccount(c) ==
  /\ InDemoMode(c) /\ demo.left[c] # None /\ demo.left[c].commands # <<>>
  /\ LET id == demo.left[c].role
         command == Head(demo.left[c].commands)
         rest == Tail(demo.left[c].commands)
         changed == [demo EXCEPT !.accounts = Performed(command, @, demo.role, id)]
     IN  IF ~RolesFound(command, id, roles.cache["role"])
           THEN /\ Thrown(c)
                /\ demo' = [demo EXCEPT !.left[c] = None]
                /\ UNCHANGED <<env, loaded, booted, left>>
           ELSE IF rest = <<>>
           THEN demo' = [changed EXCEPT !.left[c] = None] /\ StepDone(c)
           ELSE demo' = [changed EXCEPT !.left[c].commands = rest] /\ UNCHANGED vars
  /\ UNCHANGED <<mongo, mig, roles, sync, bundle, updates, past>>

\* Once, and unless a role was asked for: a bound.
Administer(user) ==
  /\ host = "listening" /\ DemoUserNotAllowed(user)
  /\ ~past.edited /\ roles.user = None /\ sync["request"] = None
  /\ LET ids == IF env.isTypeormMode THEN DOMAIN ROLES
                ELSE {roles.cache["role"][i].id : i \in DOMAIN roles.cache["role"]}
     IN  \E a \in UNION {Administered(b, ids) : b \in demo.accounts} :
            demo' = [demo EXCEPT !.accounts = {a}]
  /\ past' = [past EXCEPT !.administered = TRUE, !.edited = TRUE]
  /\ UNCHANGED <<vars, mongo, mig, roles, sync, bundle, updates>>

(***************************************************************************)
(* The other steps, and the process                                        *)
(***************************************************************************)
Begun == RunOnce /\ UNCHANGED startVars

OtherStep(c) ==
  /\ ~InMongo(c) /\ ~Synchronises(c) /\ ~InDemoMode(c)
  /\ StepDone(c)
  /\ UNCHANGED startVars

Failed(c) ==
  /\ StepFailed(c)
  /\ sync' = [sync EXCEPT ![c] = None]
  /\ demo' = [demo EXCEPT !.left[c] = None]
  /\ UNCHANGED <<mongo, mig, roles, bundle, updates, past>>

\* Another process than the one before, whose environment may have changed: a bound.
StartedAgain ==
  /\ Restarted
  /\ mig' = NoMigration /\ sync' = NoSync /\ updates' = NoUpdates
  /\ roles' = [roles EXCEPT !.cache = Uncached]
  /\ \E role \in IF past.scope = "demo" THEN {demo.role, "GUEST"} ELSE {demo.role} :
       demo' = [demo EXCEPT !.role = role, !.left = NoCommands]
  /\ past' = [past EXCEPT !.dropped = FALSE, !.ensured = FALSE]
  /\ UNCHANGED <<mongo, bundle>>

\* The process is killed, which may cut an update short.
Killed ==
  /\ host \in {"booting", "listening"}
  /\ Fail
  /\ host' = "crashed" /\ run' = NoRun
  /\ mig' = NoMigration /\ sync' = NoSync /\ updates' = NoUpdates
  /\ \E u \in Requested : bundle' \in Interrupted(bundle, updates[u])
  /\ past' = [past EXCEPT !.torn = @ \/ \E u \in Requested : updates[u].at = "clear",
                          !.cut = @ \/ DOMAIN mig # {},
                          !.ensured = FALSE]
  /\ demo' = [demo EXCEPT !.left = NoCommands]
  /\ UNCHANGED <<env, tasks, loaded, booted, mongo, roles>>

BootJobRuns == BootJobTick /\ UNCHANGED startVars

OtherTask(t) ==
  /\ JobTick(t) \/ DelayElapsed(t) \/ (t # ClientTask /\ TaskEnded(t))
  /\ UNCHANGED startVars

(***************************************************************************)
(* What users change, in the fields of this release's models               *)
(***************************************************************************)
\* Once: a bound.
Edit(m) ==
  /\ host = "listening" /\ past.scope = "data" /\ loaded > 0
  /\ ~past.edited /\ Models[m] \in DOMAIN mongo.colls /\ mongo.colls[Models[m]] # {}
  /\ LET v == IF m = "enabled" THEN FALSE ELSE "new"
     IN  /\ mongo' = [mongo EXCEPT !.colls[Models[m]] = {Put(doc, FieldOf(m), v) : doc \in @}]
         /\ past' = [past EXCEPT !.saved[m] = v, !.edited = TRUE,
                                 !.excused = @ \/ mongo.applied < Len(MigrationNames)]
  /\ UNCHANGED <<vars, mig, roles, sync, demo, bundle, updates>>

(***************************************************************************)
(* Updates of the client                                                   *)
(***************************************************************************)
\* The task of this process, or a request, ends.
UpdateDone(u, failed) ==
  /\ updates' = [updates EXCEPT ![u] = NoUpdate]
  /\ tasks' = IF u = "task" THEN [tasks EXCEPT ![ClientTask] = RunEnded(@)] ELSE tasks
  /\ past' = [past EXCEPT
       !.ensured = IF failed THEN @ /\ updates[u].at # "clear" ELSE @ \/ u = "task",
       !.torn = (@ /\ bundle' = bundle) \/ (failed /\ updates[u].at = "clear")]
  /\ UNCHANGED <<env, host, run, loaded, booted>>

Asked(target) == [at |-> "download", target |-> target, entries |-> <<>>]

\* run() of the task: whatever the target, the minimum is downloaded.
RunTask ==
  /\ Alive /\ tasks[ClientTask].isExecuting /\ updates["task"] = NoUpdate
  /\ IF ShouldUpdate(bundle, FALSE, 0, FALSE)
       THEN /\ updates' = [updates EXCEPT !["task"] = Asked(Minimum)]
            /\ UNCHANGED <<vars, past>>
       ELSE UNCHANGED bundle /\ UpdateDone("task", FALSE) /\ UNCHANGED left
  /\ UNCHANGED <<mongo, mig, roles, sync, demo, bundle>>

\* Requests of SQLite installations, one at a time: a bound.
UpdateClientBundleGithub ==
  /\ host = "listening" /\ past.scope = "client" /\ updates["request"] = NoUpdate
  /\ ~past.asked
  /\ \E v \in Versions \cup {0}, allowDowngrade \in BOOLEAN :
       /\ ShouldUpdate(bundle, TRUE, v, allowDowngrade)
       /\ updates' = [updates EXCEPT !["request"] = Asked(TargetVersion(v))]
  /\ past' = [past EXCEPT !.asked = TRUE]
  /\ UNCHANGED <<vars, mongo, mig, roles, sync, demo, bundle>>

\* The release and its zip have come, and the directory has been listed.
Downloaded(u) ==
  /\ Alive /\ updates[u].at = "download"
  /\ IF Entries(bundle) = <<>>
       THEN bundle' = Unpacked(bundle, updates[u].target) /\ UpdateDone(u, FALSE) /\ UNCHANGED left
       ELSE /\ updates' = [updates EXCEPT ![u].at = "clear", ![u].entries = Entries(bundle)]
            /\ past' = [past EXCEPT !.mixed = @ \/ \E w \in Requested : updates[w].at = "clear"]
            /\ UNCHANGED <<vars, bundle>>
  /\ UNCHANGED <<mongo, mig, roles, sync, demo>>

\* An entry is gone; after the last the zip is extracted without another await.
EntryRemoved(u) ==
  /\ Alive /\ updates[u].at = "clear"
  /\ LET cleared == Removed(bundle, Head(updates[u].entries))
     IN  IF Len(updates[u].entries) > 1
           THEN /\ bundle' = cleared
                /\ updates' = [updates EXCEPT ![u].entries = Tail(@)]
                /\ UNCHANGED <<vars, past>>
           ELSE bundle' = Unpacked(cleared, updates[u].target) /\ UpdateDone(u, FALSE) /\ UNCHANGED left
  /\ UNCHANGED <<mongo, mig, roles, sync, demo>>

\* GitHub, the file system or the zip fails.
UpdateFailed(u) ==
  /\ Alive /\ updates[u].at # "none" /\ Fail
  /\ bundle' \in Interrupted(bundle, updates[u])
  /\ UpdateDone(u, TRUE)
  /\ UNCHANGED <<mongo, mig, roles, sync, demo>>

ThisNext ==
  \/ Begun \/ MigrateMongo \/ StartedAgain \/ Killed \/ BootJobRuns
  \/ \E c \in Callers :
       \/ Connected(c) \/ Command(c) \/ Recorded(c) \/ ConnectionFailed(c) \/ MigrationDropped(c)
       \/ SyncPermissions(c) \/ FindPermission(c) \/ StorePermission(c)
       \/ CreateOrUpdateDemoAccount(c) \/ GetDemoUserId(c) \/ ChangeDemoAccount(c)
       \/ OtherStep(c) \/ Failed(c)
  \/ \E loginRequired \in BOOLEAN : AskRole(AppDefaultRole(loginRequired))
  \/ \E s \in Syncers : FindRole(s) \/ StoreRole(s)
  \/ \E user \in {"owner", "demo"} : Administer(user)
  \/ \E t \in BOOT_TASKS : OtherTask(t)
  \/ \E m \in DOMAIN Models : Edit(m)
  \/ RunTask \/ UpdateClientBundleGithub
  \/ \E u \in Requested : Downloaded(u) \/ EntryRemoved(u) \/ UpdateFailed(u)

\* As in Boot: what is awaited ends, intervals and timeouts elapse, and the supervisor
\* restarts a process that has exited. Requests, migrations by hand and kills need not come.
StartFairness ==
  /\ WF_allVars(Begun) /\ WF_allVars(StartedAgain) /\ WF_allVars(BootJobRuns)
  /\ \A c \in Callers :
       WF_allVars(\/ Connected(c) \/ Command(c) \/ Recorded(c) \/ OtherStep(c)
                  \/ SyncPermissions(c) \/ FindPermission(c) \/ StorePermission(c)
                  \/ FindRole(c) \/ StoreRole(c)
                  \/ CreateOrUpdateDemoAccount(c) \/ GetDemoUserId(c) \/ ChangeDemoAccount(c))
  /\ \A t \in BOOT_TASKS : WF_allVars(OtherTask(t))
  /\ WF_allVars(RunTask \/ Downloaded("task") \/ EntryRemoved("task"))

StartSpec == StartInit /\ [][ThisNext]_allVars /\ StartFairness

(***************************************************************************)
(* Properties                                                              *)
(***************************************************************************)
\* Floors of the time before their migration, or that a migration down has left halfway. They
\* cannot take the place of the collection that syncIndexes has created.
OldFloors == "printerfloors" \in DOMAIN mongo.colls
FloorsBlocked == OldFloors /\ "floors" \in DOMAIN mongo.colls

ShowsSaved(m) ==
  /\ Models[m] \in DOMAIN mongo.colls
  /\ \E doc \in mongo.colls[Models[m]] :
       FieldOf(m) \in DOMAIN doc /\ doc[FieldOf(m)] = past.saved[m]

\* A server that has booted has migrated MongoDB, unless the floors block it or an error was
\* dropped; and then its models find what users saved last, from whichever migration the
\* database came, however often it was killed, taken back or begun again (migrateDatabase).
\* What users save while migrations are pending may be overwritten, and so may all names
\* when a migration is taken back after another was cut short: the one of user names gives
\* every printer the name "default".
MongoMigrated ==
  booted /\ ~env.isTypeormMode =>
    IF mongo.applied < Len(MigrationNames) THEN past.dropped \/ FloorsBlocked
    ELSE past.excused \/ \A m \in DOMAIN Models : ShowsSaved(m) \/ (m = "floor" /\ OldFloors)

\* What a user with these roles may do.
Granted(ids) == Rights(roles.cache["role"], roles.cache["permission"], "id", ids)

\* What the role with this name is good for.
RightsOf(name) == {name} \cup ROLE_PERMS[name]

\* The demo account is what the environment says, however often a boot was cut short before,
\* until others change it.
DemoIsConfigured ==
  /\ demo.accounts # {}
  /\ \A a \in demo.accounts :
       /\ a.isVerified /\ ~a.isRootUser /\ a.password = demo.role
       /\ IF env.isTypeormMode THEN a.roles = {RoleId(demo.role)}
          ELSE past.overlapped \/ Granted(a.roles) = RightsOf(demo.role)

\* Once the boot is over and no synchronisation is under way, every permission and role is
\* known by its name, the role a user was registered with has all its rights, unless
\* synchronisations have overlapped and stored it twice (syncRoles,
\* getSynchronizedRoleByName), and so has the demo account (createOrUpdateDemoAccount).
RolesKnown ==
  booted /\ sync = NoSync =>
    /\ ~env.isTypeormMode =>
         /\ \A t \in DOMAIN Names : \A i \in DOMAIN Names[t] : IdOf(roles.cache[t], Names[t][i]) # None
         /\ \/ roles.user = None \/ past.overlapped
            \/ Granted({roles.user.id}) = RightsOf(roles.user.name)
    /\ past.scope = "demo" /\ ~past.administered => DemoIsConfigured

\* After the task of this process the server has a client to serve that is new enough, and
\* all of one version, unless updates overlapped; files of dist other than index.html may
\* be missing when one was cut short (shouldUpdateWithReason, extractClientBundleZip).
ClientServed ==
  past.ensured /\ (\A u \in Requested : updates[u].at # "clear") =>
    /\ bundle["package.json"] >= Minimum /\ bundle["index.html"] >= Minimum
    /\ past.mixed \/ bundle["index.html"] = bundle["package.json"]
    /\ past.mixed \/ past.torn \/ bundle["rest"] = bundle["package.json"]
=============================================================================
