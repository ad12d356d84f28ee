--------------------------- MODULE MongoMigrations ---------------------------
(***************************************************************************)
(* The MongoDB migrations (mongo-migrations/), which migrate-mongo applies *)
(* in the order of their file names. Their sessions are not passed to the  *)
(* commands: each command acts on its own, and nothing is rolled back.     *)
(*                                                                         *)
(* The collections that exist are mapped to their documents; one printer,  *)
(* user and floor stand for all. A document maps its fields to values; of  *)
(* settingsAppearance it holds the set of names in it.                     *)
(***************************************************************************)
EXTENDS Maps, Naturals, Sequences

Collections == {"printers", "users", "printerfloors", "floors"}

Without(doc, fields) == [f \in (DOMAIN doc) \ fields |-> doc[f]]

(***************************************************************************)
(* Commands (external: the driver of MongoDB)                              *)
(***************************************************************************)
Rename(c, from, to) == [op |-> "rename", coll |-> c, from |-> from, to |-> to]
Set(c, field, value) == [op |-> "set", coll |-> c, from |-> field, to |-> value]
Unset(c, field) == [op |-> "unset", coll |-> c, from |-> field, to |-> field]
Flatten(c, from, to) == [op |-> "flatten", coll |-> c, from |-> from, to |-> to]
Nest(c, from, to) == [op |-> "nest", coll |-> c, from |-> from, to |-> to]
Move(from, to) == [op |-> "move", coll |-> from, from |-> from, to |-> to]
\* An update without an atomic operator, or an error the migration throws.
Refused == [op |-> "refused", coll |-> "", from |-> "", to |-> ""]

Succeeds(colls, o) ==
  /\ o.op # "refused"
  /\ o.op = "move" => o.from \in DOMAIN colls /\ o.to \notin DOMAIN colls

\* What an update makes of a document; a field that is not there is not renamed.
Updated(doc, o) ==
  CASE o.op = "set" -> Put(doc, o.from, o.to)
    [] o.op = "unset" -> Without(doc, {o.from})
    [] o.op = "rename" /\ o.from \in DOMAIN doc -> Put(Without(doc, {o.from}), o.to, doc[o.from])
    [] o.op = "nest" /\ o.from \in DOMAIN doc -> Put(Without(doc, {o.from}), o.to, {doc[o.from]})
    [] o.op = "flatten" /\ o.from \in DOMAIN doc /\ doc[o.from] # {} ->
         Put(Put(doc, o.from, {}), o.to, CHOOSE v \in doc[o.from] : TRUE)
    [] OTHER -> doc

\* An update of a collection that does not exist changes nothing.
Executed(colls, o) ==
  IF o.op = "move"
    THEN Put(Without(colls, {o.from}), o.to, colls[o.from])
    ELSE IF o.coll \notin DOMAIN colls THEN colls
         ELSE [colls EXCEPT ![o.coll] = {Updated(doc, o) : doc \in @}]

(***************************************************************************)
(* The migrations; what they do may depend on the listed collections       *)
(***************************************************************************)
ApiKeyUp == <<Rename("printers", "settingsApperance", "settingsAppearance"),
              Rename("printers", "apikey", "apiKey")>>
ApiKeyDown == <<Rename("printers", "settingsAppearance", "settingsApperance"),
                Rename("printers", "apiKey", "apikey")>>

EnabledUp == <<Set("printers", "enabled", TRUE)>>
\* The driver refuses "unset", which lacks its $.
EnabledDown == <<Refused>>

PasswordHashUp == <<Rename("users", "password", "passwordHash")>>
PasswordHashDown == <<Rename("users", "passwordHash", "password")>>

FloorsUp(colls) ==
  IF "printerfloors" \notin DOMAIN colls THEN <<>>
  ELSE <<Unset("printerfloors", "printerGroups"), Set("printerfloors", "printers", {}),
         Move("printerfloors", "floors")>>
\* The updates name the collection before it is moved; the list is not taken again.
FloorsDown(colls) ==
  (IF "floors" \notin DOMAIN colls THEN <<>>
   ELSE <<Set("printerfloors", "printerGroups", {}), Unset("printerfloors", "printers"),
          Move("floors", "printerfloors")>>) \o
  (IF "printerfloors" \notin DOMAIN colls THEN <<Refused>> ELSE <<>>)

SortIndexUp == <<Unset("printers", "sortIndex")>>
SortIndexDown == <<Set("printers", "sortIndex", 0)>>

UserNameUp == <<Unset("users", "name")>>
\* It is the printers that get a name.
UserNameDown == <<Set("printers", "name", "default")>>

FlattenNameUp == <<Flatten("printers", "settingsAppearance", "name")>>
FlattenNameDown == <<Nest("printers", "name", "settingsAppearance")>>

SettingsAppearanceUp == <<Unset("printers", "settingsAppearance")>>
SettingsAppearanceDown == <<Set("printers", "settingsAppearance", {})>>

FileListUp == <<Set("printers", "fileList", "list")>>
FileListDown == <<Set("printers", "fileList", "object")>>

\* Mutant: the file of flatten-name sorts after that of remove-settingsappearance.
MigrationNamesUnordered ==
  <<"apikey", "enabled", "passwordhash", "floors", "sortindex", "username",
    "settingsappearance", "flattenname", "files">>

MigrationNames ==
  <<"apikey", "enabled", "passwordhash", "floors", "sortindex", "username", "flattenname",
    "settingsappearance", "files">>

MigrateUp(n, colls) ==
  CASE MigrationNames[n] = "apikey" -> ApiKeyUp
    [] MigrationNames[n] = "enabled" -> EnabledUp
    [] MigrationNames[n] = "passwordhash" -> PasswordHashUp
    [] MigrationNames[n] = "floors" -> FloorsUp(colls)
    [] MigrationNames[n] = "sortindex" -> SortIndexUp
    [] MigrationNames[n] = "username" -> UserNameUp
    [] MigrationNames[n] = "flattenname" -> FlattenNameUp
    [] MigrationNames[n] = "settingsappearance" -> SettingsAppearanceUp
    [] MigrationNames[n] = "files" -> FileListUp

MigrateDown(n, colls) ==
  CASE MigrationNames[n] = "apikey" -> ApiKeyDown
    [] MigrationNames[n] = "enabled" -> EnabledDown
    [] MigrationNames[n] = "passwordhash" -> PasswordHashDown
    [] MigrationNames[n] = "floors" -> FloorsDown(colls)
    [] MigrationNames[n] = "sortindex" -> SortIndexDown
    [] MigrationNames[n] = "username" -> UserNameDown
    [] MigrationNames[n] = "flattenname" -> FlattenNameDown
    [] MigrationNames[n] = "settingsappearance" -> SettingsAppearanceDown
    [] MigrationNames[n] = "files" -> FileListDown

\* A command after those that led to s, unless one of them failed.
Then(s, o) ==
  IF s.ok /\ Succeeds(s.colls, o) THEN [colls |-> Executed(s.colls, o), ok |-> TRUE]
  ELSE [colls |-> s.colls, ok |-> FALSE]

\* The commands of one migration, up to the first that fails.
Migrated(colls, ops) ==
  LET after[n \in 0..Len(ops)] ==
        IF n = 0 THEN [colls |-> colls, ok |-> TRUE] ELSE Then(after[n - 1], ops[n])
  IN  after[Len(ops)]
=============================================================================
