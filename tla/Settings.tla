------------------------------ MODULE Settings ------------------------------
(***************************************************************************)
(* The one settings document of settings.service.ts (SQLite and MongoDB).  *)
(* Of a number, a text or an object the model keeps whether it is another  *)
(* one than the default. With SQLite a replaced group may lose settings:   *)
(* they are then not in the domain.                                        *)
(***************************************************************************)
EXTENDS Maps

ServerSettings ==
  {"loginRequired", "registration", "sentryDiagnosticsEnabled", "debugSettings",
   "experimentalMoonrakerSupport", "experimentalClientSupport", "experimentalThumbnailSupport"}

WizardSettings == {"wizardCompleted"}

FileCleanSettings ==
  {"autoRemoveOldFilesBeforeUpload", "autoRemoveOldFilesAtBoot", "autoRemoveOldFilesCriteriumDays"}

CredentialSettings == {"jwtSecret", "jwtExpiresIn", "refreshTokenAttempts", "refreshTokenExpiry"}

FrontendSettings == {"gridCols", "gridRows", "largeTiles", "tilePreferCancelOverQuickStop"}

TimeoutSettings == {"apiTimeout"}

Group == [server |-> ServerSettings, wizard |-> WizardSettings, fileClean |-> FileCleanSettings,
          credentials |-> CredentialSettings, frontend |-> FrontendSettings,
          timeout |-> TimeoutSettings]

Switches == UNION {Group[g] : g \in DOMAIN Group}

IsSettings(settings) ==
  /\ DOMAIN settings \subseteq Switches /\ Switches \ FrontendSettings \subseteq DOMAIN settings
  /\ \A s \in DOMAIN settings : settings[s] \in BOOLEAN

\* What getOrCreate stores when there is no document yet.
DefaultSettings == [s \in Switches |-> s = "loginRequired"]

\* MUTANT of KnownServerSettings: a flag that was added later is not in the list.
OlderServerSettings == ServerSettings \ {"experimentalClientSupport"}

\* The server settings that the migration at run time lists; it drops the others.
KnownServerSettings ==
  {"debugSettings", "loginRequired", "registration", "experimentalClientSupport",
   "experimentalMoonrakerSupport", "sentryDiagnosticsEnabled", "experimentalThumbnailSupport"}

\* The field autoRemoveOldFilesAtBoot is filled from autoRemoveOldFilesBeforeUpload.
FilledFrom(s) == IF s = "autoRemoveOldFilesAtBoot" THEN "autoRemoveOldFilesBeforeUpload" ELSE s

MigrateSettingsRuntime(settings) ==
  [s \in (DOMAIN settings) \ (ServerSettings \ KnownServerSettings) |-> settings[FilledFrom(s)]]

Patch(group, fields) == [group |-> group, fields |-> fields]

SomeOf(settings) == UNION {[fields -> BOOLEAN] : fields \in (SUBSET settings) \ {{}}}

\* PUT /server: validateInput returns the whole body, so that every flag of the group is
\* stored, also those that the rules do not list; the routes of single flags patch the same
\* group. The fields are taken from the settings that clients change, as below.
ServerPatches(changed) ==
  {Patch("server", fields) : fields \in SomeOf(ServerSettings \cap changed)}

\* PATCH /sentry-diagnostics.
SentryPatches(changed) ==
  {Patch("server", fields) : fields \in SomeOf({"sentryDiagnosticsEnabled"} \cap changed)}

\* All fields of a PUT /file-clean are required.
FileCleanPatches(changed) ==
  IF FileCleanSettings \subseteq changed
  THEN {Patch("fileClean", fields) : fields \in [FileCleanSettings -> BOOLEAN]} ELSE {}

CredentialPatches(changed) ==
  {Patch("credentials", fields) : fields \in SomeOf(CredentialSettings \cap changed)}

FrontendPatches(changed) ==
  {Patch("frontend", fields) : fields \in SomeOf(FrontendSettings \cap changed)}

TimeoutPatches(changed) ==
  {Patch("timeout", fields) : fields \in SomeOf(TimeoutSettings \cap changed)}

\* MongoDB: the document as getOrCreate gave it, with the fields of a patch.
Assigned(settings, patch) == Overlaid(patch.fields, settings)

\* SQLite: the same, but the frontend and timeout groups are replaced.
Replaced(patch) == IF patch.group \in {"frontend", "timeout"} THEN Group[patch.group] ELSE {}

Patched(settings, patch) ==
  LET migrated == MigrateSettingsRuntime(settings)
  IN  Overlaid(patch.fields, [s \in (DOMAIN migrated) \ Replaced(patch) |-> migrated[s]])
=============================================================================
