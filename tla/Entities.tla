------------------------------ MODULE Entities ------------------------------
(***************************************************************************)
(* The tables the entities of src/entities declare. The data source has    *)
(* no entity for printer_file (printer-file.entity.ts is deprecated).      *)
(***************************************************************************)
EXTENDS Sqlite

Entity(columns, optional, unique, references) ==
  Table(columns \ optional, optional, {}, unique, references)

Cascades(c, t) == c :> References(t, "CASCADE")
NoReferences == <<>>

PrinterEntity ==
  Entity({"id", "name", "printerURL", "printerType", "apiKey", "enabled", "disabledReason",
          "assignee", "dateAdded", "feedRate", "flowRate"},
         {"disabledReason", "assignee", "feedRate", "flowRate"}, {}, NoReferences)

FloorEntity == Entity({"id", "name", "floor"}, {}, {{"floor"}}, NoReferences)

\* A one-to-one relation makes its column unique.
FloorPositionEntity ==
  Entity({"id", "x", "y", "floorId", "printerId"}, {}, {{"x", "y", "floorId"}, {"printerId"}},
         Cascades("floorId", "floor") @@ Cascades("printerId", "printer"))

SettingsEntity ==
  Entity({"id", "server", "credentials", "wizard", "printerFileClean", "frontend", "timeout"},
         {}, {}, NoReferences)

UserEntity ==
  Entity({"id", "username", "isDemoUser", "isRootUser", "isVerified", "needsPasswordChange",
          "passwordHash", "createdAt"}, {}, {}, NoReferences)

CameraStreamEntity ==
  Entity({"id", "streamURL", "name", "printerId", "aspectRatio", "rotationClockwise",
          "flipHorizontal", "flipVertical"},
         {"printerId"}, {{"printerId"}}, "printerId" :> References("printer", "NO ACTION"))

CustomGcodeEntity ==
  Entity({"id", "name", "description", "gcode"}, {"description"}, {}, NoReferences)

RoleEntity == Entity({"id", "name"}, {}, {{"name"}}, NoReferences)
PermissionEntity == Entity({"id", "name"}, {}, {}, NoReferences)

RefreshTokenEntity ==
  Entity({"id", "userId", "createdAt", "expiresAt", "refreshToken", "refreshAttemptsUsed"},
         {}, {}, Cascades("userId", "user"))

PrintCompletionEntity ==
  Entity({"id", "fileName", "createdAt", "status", "printerId", "printerReference",
          "completionLog", "context"},
         {"printerReference", "completionLog", "context"}, {}, Cascades("printerId", "printer"))

UserRoleEntity ==
  Entity({"id", "roleId", "userId", "createdAt"}, {}, {{"roleId", "userId"}},
         Cascades("roleId", "role") @@ Cascades("userId", "user"))

GroupEntity == Entity({"id", "name"}, {}, {}, NoReferences)

PrinterGroupEntity ==
  Entity({"id", "printerId", "groupId"}, {}, {{"printerId", "groupId"}},
         Cascades("printerId", "printer") @@ Cascades("groupId", "group"))

\* The entities of the data source.
DataSource ==
  [floor |-> FloorEntity, floor_position |-> FloorPositionEntity, printer |-> PrinterEntity,
   settings |-> SettingsEntity, user |-> UserEntity, camera_stream |-> CameraStreamEntity,
   custom_gcode |-> CustomGcodeEntity, role |-> RoleEntity, permission |-> PermissionEntity,
   refresh_token |-> RefreshTokenEntity, print_completion |-> PrintCompletionEntity,
   user_role |-> UserRoleEntity, group |-> GroupEntity, printer_group |-> PrinterGroupEntity]

\* A table apart from its defaults, which TypeORM fills in itself.
Declared(table) ==
  [required |-> table.required, optional |-> table.optional, unique |-> table.unique,
   references |-> table.references]
=============================================================================
