-------------------------- MODULE SqliteMigrations --------------------------
(***************************************************************************)
(* The migrations of src/migrations, as the statements they execute.       *)
(***************************************************************************)
EXTENDS Sqlite

Temporary ==
  [print_completion |-> "temporary_print_completion", printer_file |-> "temporary_printer_file",
   floor_position |-> "temporary_floor_position", refresh_token |-> "temporary_refresh_token",
   user_role |-> "temporary_user_role", camera_stream |-> "temporary_camera_stream",
   printer_group |-> "temporary_printer_group", role |-> "temporary_role",
   printer |-> "temporary_printer"]

\* How TypeORM changes a table, upwards and downwards.
Recreate(t, table, columns) ==
  <<Create(Temporary[t], table), Copy(Temporary[t], t, columns), Drop(t), Rename(Temporary[t], t)>>

Restore(t, table, columns) ==
  <<Rename(t, Temporary[t]), Create(t, table), Copy(t, Temporary[t], columns), Drop(Temporary[t])>>

Plain(required, optional) == Table(required, optional, {}, {}, <<>>)

Referring1(table, c, t, onDelete) ==
  [table EXCEPT !.references = c :> References(t, onDelete)]

Referring2(table, c, t, d, u) ==
  [table EXCEPT !.references = c :> References(t, "CASCADE") @@ d :> References(u, "CASCADE")]

(***************************************************************************)
(* InitSqlite1706829146617                                                 *)
(***************************************************************************)
CompletionColumns == {"id", "fileName", "createdAt", "status", "printerId", "printerReference",
                      "completionLog", "context"}
FileColumns == {"id", "printerId", "name", "date", "display", "gcodeAnalysis", "hash", "origin",
                "path", "prints", "refs", "size", "statistics", "type", "typePath", "customData"}
PositionColumns == {"id", "x", "y", "floorId", "printerId"}
TokenColumns == {"id", "userId", "createdAt", "expiresAt", "refreshToken", "refreshAttemptsUsed"}
UserRoleColumns == {"id", "roleId", "userId", "createdAt"}
StreamColumns == {"id", "streamURL", "name", "printerId", "aspectRatio", "rotationClockwise",
                  "flipHorizontal", "flipVertical"}
PrinterColumns == {"id", "name", "printerURL", "apiKey", "enabled", "disabledReason", "assignee",
                   "dateAdded", "feedRate", "flowRate"}

AllRequired(columns) == Plain(columns, {})
Optional(columns, optional) == Plain(columns \ optional, optional)

Completion == Optional(CompletionColumns, {"printerReference", "completionLog", "context"})
File == Optional(FileColumns, {"gcodeAnalysis", "prints", "refs", "size", "statistics", "type",
                               "typePath"})
Position == [AllRequired(PositionColumns) EXCEPT !.unique = {{"x", "y", "floorId"}, {"printerId"}}]
Token == AllRequired(TokenColumns)
UserRoleTable == [AllRequired(UserRoleColumns) EXCEPT !.unique = {{"roleId", "userId"}}]
Stream == [Optional(StreamColumns, {"printerId"}) EXCEPT !.unique = {{"printerId"}}]
PrinterTable == Optional(PrinterColumns, {"disabledReason", "assignee", "feedRate", "flowRate"})

InitTables ==
  <<Create("print_completion", Completion), Create("printer_file", File),
    Create("printer", PrinterTable), Create("floor_position", Position),
    Create("floor", [AllRequired({"id", "name", "floor"}) EXCEPT !.unique = {{"floor"}}]),
    Create("settings", AllRequired({"id", "server", "credentials", "wizard", "printerFileClean",
                                    "frontend", "timeout"})),
    Create("refresh_token", Token), Create("role", AllRequired({"id", "name"})),
    Create("user_role", UserRoleTable),
    Create("user", AllRequired({"id", "username", "isDemoUser", "isRootUser", "isVerified",
                                "needsPasswordChange", "passwordHash", "createdAt"})),
    Create("permission", AllRequired({"id", "name"})), Create("camera_stream", Stream),
    Create("custom_gcode", Optional({"id", "name", "description", "gcode"}, {"description"}))>>

InitHistoryReferences ==
  Recreate("print_completion", Referring1(Completion, "printerId", "printer", "SET NULL"),
           CompletionColumns) \o
  Recreate("printer_file", Referring1(File, "printerId", "printer", "CASCADE"), FileColumns)

InitReferences ==
  Recreate("floor_position", Referring2(Position, "floorId", "floor", "printerId", "printer"),
           PositionColumns) \o
  Recreate("refresh_token", Referring1(Token, "userId", "user", "CASCADE"), TokenColumns) \o
  Recreate("user_role", Referring2(UserRoleTable, "roleId", "role", "userId", "user"),
           UserRoleColumns) \o
  Recreate("camera_stream", Referring1(Stream, "printerId", "printer", "NO ACTION"), StreamColumns)

InitUp == InitTables \o InitHistoryReferences \o InitReferences

InitDownReferences ==
  Restore("camera_stream", Stream, StreamColumns) \o
  Restore("user_role", UserRoleTable, UserRoleColumns) \o
  Restore("refresh_token", Token, TokenColumns) \o
  Restore("floor_position", Position, PositionColumns)

InitDownHistory ==
  Restore("printer_file", File, FileColumns) \o
  Restore("print_completion", Completion, CompletionColumns)

InitDownTables ==
  <<Drop("custom_gcode"), Drop("camera_stream"), Drop("permission"), Drop("user"),
    Drop("user_role"), Drop("role"), Drop("refresh_token"), Drop("settings"), Drop("floor"),
    Drop("floor_position"), Drop("printer"), Drop("printer_file"), Drop("print_completion")>>

InitDown == InitDownReferences \o InitDownHistory \o InitDownTables

(***************************************************************************)
(* The other migrations                                                    *)
(***************************************************************************)
GroupColumns == {"id", "printerId", "groupId"}
GroupTable == [AllRequired(GroupColumns) EXCEPT !.unique = {{"printerId", "groupId"}}]

PrinterGroupUp ==
  <<Create("group", AllRequired({"id", "name"})), Create("printer_group", GroupTable)>> \o
  Recreate("printer_group", Referring2(GroupTable, "printerId", "printer", "groupId", "group"),
           GroupColumns)

PrinterGroupDown ==
  Restore("printer_group", GroupTable, GroupColumns) \o <<Drop("printer_group"), Drop("group")>>

\* Mutant: deleting a printer still sets its column to NULL.
CompletionSetsNullUp ==
  Recreate("print_completion", Completion, CompletionColumns) \o
  Recreate("print_completion", Referring1(Completion, "printerId", "printer", "SET NULL"),
           CompletionColumns)

CompletionCascadeUp ==
  Recreate("print_completion", Completion, CompletionColumns) \o
  Recreate("print_completion", Referring1(Completion, "printerId", "printer", "CASCADE"),
           CompletionColumns)

CompletionCascadeDown ==
  Restore("print_completion", Completion, CompletionColumns) \o
  Restore("print_completion", Referring1(Completion, "printerId", "printer", "SET NULL"),
          CompletionColumns)

RoleTable == AllRequired({"id", "name"})
UniqueRole == [RoleTable EXCEPT !.unique = {{"name"}}]

RoleNameUniqueUp ==
  <<DeleteDuplicates("role", "name")>> \o
  Recreate("role", RoleTable, {"id", "name"}) \o Recreate("role", UniqueRole, {"id", "name"})

RoleNameUniqueDown ==
  Restore("role", RoleTable, {"id", "name"}) \o Restore("role", RoleTable, {"id", "name"})

TypedPrinter ==
  [PrinterTable EXCEPT !.required = @ \cup {"printerType"}, !.defaults = @ \cup {"printerType"}]

\* Mutant: the feed rates are not copied.
PrinterTypeUpNoFeedRate ==
  Recreate("role", UniqueRole, {"id", "name"}) \o
  Recreate("printer", TypedPrinter, PrinterColumns \ {"feedRate"})

PrinterTypeUp ==
  Recreate("role", UniqueRole, {"id", "name"}) \o
  Recreate("printer", TypedPrinter, PrinterColumns) \o
  Recreate("role", UniqueRole, {"id", "name"})

PrinterTypeDown ==
  Restore("role", UniqueRole, {"id", "name"}) \o
  Restore("printer", PrinterTable, PrinterColumns) \o
  Restore("role", UniqueRole, {"id", "name"})

RemovePrinterFileUp == <<Drop("printer_file")>>

RemovePrinterFileDown ==
  <<Create("printer_file", Referring1(File, "printerId", "printer", "CASCADE"))>>

\* The list of data-source.ts, in which releases have added to it.
Migrations ==
  <<"InitSqlite", "PrinterGroup", "PrintCompletionCascade", "RoleNameUnique",
    "RemovePrinterFile", "AddPrinterType">>

\* The timestamps in their names.
Timestamp ==
  [InitSqlite |-> 17068, PrinterGroup |-> 17074, PrintCompletionCascade |-> 17084,
   RoleNameUnique |-> 17133, AddPrinterType |-> 17138, RemovePrinterFile |-> 17203]

\* The statements of a migration.
Up ==
  [InitSqlite |-> InitUp, PrinterGroup |-> PrinterGroupUp,
   PrintCompletionCascade |-> CompletionCascadeUp, RoleNameUnique |-> RoleNameUniqueUp,
   AddPrinterType |-> PrinterTypeUp, RemovePrinterFile |-> RemovePrinterFileUp]

Down ==
  [InitSqlite |-> InitDown, PrinterGroup |-> PrinterGroupDown,
   PrintCompletionCascade |-> CompletionCascadeDown, RoleNameUnique |-> RoleNameUniqueDown,
   AddPrinterType |-> PrinterTypeDown, RemovePrinterFile |-> RemovePrinterFileDown]
=============================================================================
