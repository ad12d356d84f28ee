------------------------------ MODULE Database ------------------------------
(***************************************************************************)
(* The SQLite database of one installation over the releases: a server     *)
(* that starts brings it up to date, typeorm:revert takes migrations back, *)
(* either may be interrupted, releases follow each other, and users store   *)
(* and delete rows.                                                        *)
(***************************************************************************)
EXTENDS SqliteMigrations, Entities, RoleSync, SequencesExt

CONSTANTS
  Samples,      \* rows an installation may have, by table
  Budget        \* how many crashes, reverts and deletes

VARIABLES
  release,      \* how many migrations the installed release has
  db,           \* what is committed
  executed,     \* the table "migrations": names, in the order they were recorded
  tx,           \* the transaction of the migrations, or None
  phase,        \* "stopped", "migrating", "syncing", "reverting", "serving" or "failed"
  todo,         \* the permissions and roles still to be synchronised
  cache,        \* the cached permissions and roles
  granted,      \* what users were last allowed to do (for RightsKept only)
  spent         \* how often each disturbance has happened

vars == <<release, db, executed, tx, phase, todo, cache, granted, spent>>

CONSTANT None

\* Releases have added migrations to the end of the list.
MigrationsOf(r) == {Migrations[i] : i \in 1..r}
Latest == Len(Migrations)

EmptyCache == [permission |-> <<>>, role |-> <<>>]

Init ==
  /\ release \in 1..Latest
  /\ db = EmptyDatabase /\ executed = <<>>
  /\ tx = None /\ phase = "stopped"
  /\ todo = <<>> /\ cache = EmptyCache /\ granted = <<>>
  /\ spent = [crash |-> 0, revert |-> 0, edit |-> 0, fill |-> 0]

Spend(what, most) == spent[what] < most /\ spent' = [spent EXCEPT ![what] = @ + 1]

(***************************************************************************)
(* Migrations, in one transaction; foreign keys are off meanwhile          *)
(***************************************************************************)
\* Mutant: each statement is committed as it runs.
NoTransaction == "none"

Transaction == "all"

Pending ==
  SetToSortSeq(MigrationsOf(release) \ {executed[i] : i \in DOMAIN executed},
               LAMBDA m, n : Timestamp[m] < Timestamp[n])

\* The names still to be recorded, the first one under way.
Begun(names, statements) ==
  [db |-> db, executed |-> executed, names |-> names, left |-> statements]

Synchronised ==
  [i \in DOMAIN PERM_GROUP |-> [table |-> "permission", name |-> PERM_GROUP[i]]] \o
  [i \in DOMAIN ROLES |-> [table |-> "role", name |-> ROLES[i]]]

\* The boot goes on with an up-to-date schema.
Connected ==
  /\ phase' = "syncing"
  /\ todo' = Synchronised
  /\ cache' = EmptyCache

CreateConnection ==
  /\ phase \in {"stopped", "failed"}
  /\ IF Pending = <<>>
       THEN Connected /\ UNCHANGED tx
       ELSE /\ phase' = "migrating"
            /\ tx' = Begun(Pending, Up[Head(Pending)])
            /\ UNCHANGED <<todo, cache>>
  /\ UNCHANGED <<release, db, executed, granted, spent>>

Revert ==
  /\ phase = "stopped" /\ executed # <<>>
  /\ Spend("revert", Budget["revert"])
  /\ phase' = "reverting"
  /\ tx' = Begun(<<Last(executed)>>, Down[Last(executed)])
  /\ UNCHANGED <<release, db, executed, todo, cache, granted>>

Statement ==
  /\ tx # None /\ tx.left # <<>>
  /\ LET r == Run(tx.db, Head(tx.left), FALSE)
     IN  IF r.ok
           THEN /\ tx' = [tx EXCEPT !.db = r.db, !.left = Tail(@)]
                /\ db' = IF Transaction = "none" THEN r.db ELSE db
                /\ UNCHANGED phase
           ELSE tx' = None /\ phase' = "failed" /\ UNCHANGED db
  /\ UNCHANGED <<release, executed, todo, cache, granted, spent>>

\* A migration is recorded and the next one begins; after the last, all is committed.
Recorded ==
  /\ phase = "migrating" /\ tx.left = <<>>
  /\ LET done == Append(tx.executed, Head(tx.names))
         last == Len(tx.names) = 1
     IN  /\ executed' = IF last \/ Transaction = "none" THEN done ELSE executed
         /\ IF last
              THEN db' = tx.db /\ tx' = None /\ Connected
              ELSE /\ tx' = [tx EXCEPT !.executed = done, !.names = Tail(@),
                                      !.left = Up[Head(Tail(tx.names))]]
                   /\ UNCHANGED <<db, phase, todo, cache>>
  /\ UNCHANGED <<release, granted, spent>>

Reverted ==
  /\ phase = "reverting" /\ tx.left = <<>>
  /\ db' = tx.db
  /\ executed' = Front(executed)
  /\ tx' = None /\ phase' = "stopped"
  /\ UNCHANGED <<release, todo, cache, granted, spent>>

\* The process ends before it serves; SQLite rolls back what is not committed.
Crash ==
  /\ tx # None \/ phase = "syncing"
  /\ Spend("crash", Budget["crash"])
  /\ tx' = None /\ phase' = "stopped"
  /\ todo' = <<>> /\ cache' = EmptyCache
  /\ UNCHANGED <<release, db, executed, granted>>

Stop ==
  /\ phase = "serving"
  /\ phase' = "stopped"
  /\ cache' = EmptyCache
  /\ UNCHANGED <<release, db, executed, tx, todo, granted, spent>>

\* A later release is installed.
Upgrade ==
  /\ phase = "stopped"
  /\ release' \in release + 1..Latest
  /\ UNCHANGED <<db, executed, tx, phase, todo, cache, granted, spent>>

(***************************************************************************)
(* Synchronisation of permissions and roles                                *)
(***************************************************************************)
\* The columns a row does not give are filled in.
FullRow(table, given) ==
  [c \in Columns(table) |-> IF c \in DOMAIN given THEN given[c] ELSE "given"]

\* What the roles of each user allow it.
Granted(d, c) ==
  [u \in {user["id"] : user \in d.rows["user"]} |->
     Rights(c.role, c.permission, "id",
            {r["roleId"] : r \in {r \in d.rows["user_role"] : r["userId"] = u}})]

Synchronise ==
  /\ phase = "syncing"
  /\ LET t == Head(todo).table
         found == FindOneBy(db.rows[t], Head(todo).name)
         created == IF found # {} THEN {}
                    ELSE {FullRow(db.tables[t], [id |-> NextId(db.rows[t]), name |-> Head(todo).name])}
     IN  /\ db' = [db EXCEPT !.rows[t] = @ \cup created]
         /\ cache' = [cache EXCEPT ![t] = Push(@, found, created)]
  /\ todo' = Tail(todo)
  /\ IF todo' = <<>>
       THEN phase' = "serving" /\ granted' = Granted(db', cache')
       ELSE UNCHANGED <<phase, granted>>
  /\ UNCHANGED <<release, executed, tx, spent>>

(***************************************************************************)
(* Users' rows; foreign keys are on                                        *)
(***************************************************************************)
Rows(t, new) == [db EXCEPT !.rows[t] = new]

\* What users have stored by now, as far as this release lets them; roles and
\* permissions come on top of those there are.
Populated(sample) ==
  [db EXCEPT !.rows = [t \in DOMAIN @ |->
     (IF t \in {"role", "permission"} THEN @[t] ELSE {}) \cup
     (IF t \in DOMAIN sample THEN {FullRow(db.tables[t], g) : g \in sample[t]} ELSE {})]]

Served ==
  /\ granted' = Granted(db', cache)
  /\ UNCHANGED <<release, executed, tx, phase, todo, cache>>

Fill ==
  /\ phase = "serving"
  /\ \E sample \in Samples : db' = Populated(sample)
  /\ \A t \in DOMAIN db.tables : RowsValid(db.tables[t], db'.rows[t])
  /\ Spend("fill", 1)
  /\ Served

\* A row that would break a constraint is refused.
Stored(t, rows) ==
  db' = IF RowsValid(db.tables[t], rows) /\ ReferencesHold(db, t, rows) THEN Rows(t, rows) ELSE db

\* Camera streams are for a printer or for none; custom G-code refers to nothing.
Given(t) ==
  IF t = "camera_stream"
    THEN {[printerId |-> p] : p \in {1, 2, Null}} ELSE {[gcode |-> "given"]}

Insert(t) ==
  /\ phase = "serving"
  /\ Spend("edit", Budget["edit"])
  /\ \E given \in Given(t) :
       Stored(t, db.rows[t] \cup {FullRow(db.tables[t], ("id" :> NextId(db.rows[t])) @@ given)})
  /\ Served

Update(t) ==
  /\ phase = "serving"
  /\ Spend("edit", Budget["edit"])
  /\ \E row \in db.rows[t], given \in Given(t) :
       Stored(t, (db.rows[t] \ {row}) \cup {given @@ row})
  /\ Served

Deletable == {"printer", "floor", "group", "user"}

Delete(t) ==
  /\ phase = "serving" /\ t \in DOMAIN db.tables
  /\ Spend("edit", Budget["edit"])
  /\ \E row \in db.rows[t] : db' = Deleted(db, t, {row}).db
  /\ Served

CameraStreams == Insert("camera_stream") \/ Update("camera_stream") \/ Delete("camera_stream")

CustomGcodes == Insert("custom_gcode") \/ Update("custom_gcode") \/ Delete("custom_gcode")

Others == \E t \in Deletable : Delete(t)

Next ==
  \/ CreateConnection \/ Revert \/ Statement \/ Recorded \/ Reverted \/ Crash \/ Stop
  \/ Upgrade \/ Synchronise \/ Fill \/ CameraStreams \/ CustomGcodes \/ Others

Spec == Init /\ [][Next]_vars

(***************************************************************************)
(* Properties                                                              *)
(***************************************************************************)
\* No release's rows make a migration fail, and a server that serves has the tables its
\* entities declare, from whichever release the database comes and whatever was reverted or
\* interrupted before (createConnection).
SchemaAsDeclared ==
  /\ phase # "failed"
  /\ phase = "serving" /\ release = Latest =>
       /\ DOMAIN db.tables = DOMAIN DataSource
       /\ \A t \in DOMAIN DataSource : Declared(db.tables[t]) = Declared(DataSource[t])

Projected(rows, columns) == {[c \in columns |-> row[c]] : row \in rows}

HasOlderNamesake(row, rows) == \E q \in rows : q["name"] = row["name"] /\ q["id"] < row["id"]

\* What a migration or a revert leaves of a table, in the columns it leaves it.
Kept(t, columns) ==
  LET doubles == {r \in db.rows[t] : t = "role" /\ HasOlderNamesake(r, db.rows[t])}
  IN  Projected(db'.rows[t], columns) \in
        {Projected(db.rows[t], columns), Projected(db.rows[t] \ doubles, columns)}

\* Tables are changed by copying them: no row and no column that both versions have is
\* lost or altered, except the roles that have the name of an older one.
RowsKept ==
  [][tx # None =>
       \A t \in DOMAIN db.tables \cap DOMAIN db'.tables :
         Kept(t, Columns(db.tables[t]) \cap Columns(db'.tables[t]))]_vars

\* A user may still do what it could before the server was stopped, upgraded, reverted or
\* interrupted: the role a double is removed for is the one that was recognised
\* (ChangeRoleNameUnique, syncRoles).
RightsKept ==
  [][phase = "syncing" /\ phase' = "serving" =>
       \A u \in DOMAIN granted \cap DOMAIN granted' : granted[u] \subseteq granted'[u]]_vars

\* A printer, floor, group or user can always be deleted, whatever refers to it, except a
\* printer with a camera stream.
DeletesAllowed ==
  phase = "serving" /\ release = Latest =>
    \A t \in Deletable \cup {"camera_stream", "custom_gcode"} : \A row \in db.rows[t] :
      \/ Deleted(db, t, {row}).ok
      \/ t = "printer" /\ \E s \in db.rows["camera_stream"] : s["printerId"] = row["id"]
=============================================================================
